----------------------- MODULE TimelineContentProofs ------------------------
(***************************************************************************)
(* What the timeline is made of, for every number of agents and every      *)
(* bound: the types of the items and of the maps that are left in progress *)
(* and that each call is shown with its own start, whatever earlier builds *)
(* have left in the maps.                                                  *)
(***************************************************************************)
EXTENDS TimelineProofs, TimelineItemsProofs

-----------------------------------------------------------------------------
(* The calls in a list of stored events.                                   *)

\* The calls of the list are in order, its frames were sent, and a call that is
\* open has not ended; its start may be missing from the list.
Listed(evs, open, sent) ==
  /\ evs \in Seq(Event) /\ CallsInOrder(evs)
  /\ \A i \in DOMAIN evs :
       /\ evs[i].n <= sent
       /\ evs[i].kind = "message_start" => evs[i].text = <<>>
       /\ evs[i].n \in open => evs[i].kind = "tool_execution_start"
       /\ evs[i].kind = "tool_execution_end" => evs[i].call \notin open

\* The numbers in an event.
LEMMA EventNumbers ==
  ASSUME NEW evs \in Seq(Event)
  PROVE  \A i \in DOMAIN evs : evs[i] \in Event /\ evs[i].n \in Nat /\ evs[i].call \in Nat /\ i \in Nat
<1>1. \A i \in DOMAIN evs : evs[i] \in Event /\ i \in Nat
  OBVIOUS
<1>2. QED
  BY <1>1 DEF Event

\* What is cut off a list does not matter to the rest.
LEMMA CappedIsListed ==
  ASSUME NEW evs, NEW open, NEW sent, Listed(evs, open, sent)
  PROVE  Listed(Capped(evs), open, sent)
<1> DEFINE from == IF Len(evs) > Cap THEN Len(evs) - Cap + 1 ELSE 1
           cut == Capped(evs)
<1>1. evs \in Seq(Event) /\ Len(evs) \in Nat /\ from \in 1 .. Len(evs) + 1
  BY TimelineAssumption DEF Listed
<1>2. /\ cut \in Seq(Event)
      /\ \A i \in DOMAIN cut : i + from - 1 \in DOMAIN evs /\ cut[i] = evs[i + from - 1] /\ i \in Nat
  <2>1. cut = SubSeq(evs, from, Len(evs))
    BY DEF Capped
  <2> HIDE DEF from, cut
  <2>2. QED
    BY <1>1, <2>1
<1> HIDE DEF from, cut
<1>3. CallsInOrder(cut)
  <2>1. \A i, j \in DOMAIN cut : i < j <=> i + from - 1 < j + from - 1
    BY <1>1, <1>2
  <2>2. \A i, j \in DOMAIN cut : i = j <=> i + from - 1 = j + from - 1
    BY <1>1, <1>2
  <2>3. QED
    BY <1>2, <2>1, <2>2 DEF Listed, CallsInOrder
<1>4. QED
  BY <1>2, <1>3 DEF Listed, cut

\* Without a new event, calls end, and one that is new is not in the list.
LEMMA UnheardIsListed ==
  ASSUME NEW evs, NEW open, NEW sent \in Nat, Listed(evs, open, sent), NEW after \in SUBSET (open \cup {sent + 1})
  PROVE  Listed(evs, after, sent + 1)
<1>1. evs \in Seq(Event) /\ \A i \in DOMAIN evs : evs[i].n \in Nat /\ evs[i].call \in Nat
  BY EventNumbers DEF Listed
<1>2. \A i \in DOMAIN evs : /\ evs[i].n <= sent + 1 /\ evs[i].n # sent + 1
                            /\ evs[i].kind = "tool_execution_end" => evs[i].call # sent + 1
  BY <1>1 DEF Listed, CallsInOrder
<1>3. QED
  BY <1>2 DEF Listed

\* A new event, about a call that was open or is new.
LEMMA AppendedIsListed ==
  ASSUME NEW evs, NEW open \in SUBSET Nat, NEW sent \in Nat, Listed(evs, open, sent), \A c \in open : c <= sent,
         NEW ev \in Event, ev.n = sent + 1,
         NEW after \in SUBSET (open \cup (IF ev.kind = "tool_execution_start" THEN {ev.n} ELSE {})),
         ev.kind = "tool_execution_start" => ev.call = ev.n,
         ev.kind = "tool_execution_end" => ev.call \in open \ after,
         ev.kind = "message_start" => ev.text = <<>>
  PROVE  Listed(Append(evs, ev), after, sent + 1)
<1> DEFINE all == Append(evs, ev)
           n == Len(evs) + 1
<1>1. /\ evs \in Seq(Event) /\ n \in Nat /\ all \in Seq(Event) /\ DOMAIN all = DOMAIN evs \cup {n} /\ all[n] = ev
      /\ \A i \in DOMAIN evs : all[i] = evs[i] /\ i < n /\ ~(n < i) /\ i # n
      /\ ~(n < n)
  BY DEF Listed
<1>2. \A i \in DOMAIN evs : evs[i].n \in Nat /\ evs[i].call \in Nat /\ evs[i].n <= sent
  BY <1>1, EventNumbers DEF Listed
<1>3. ev.n \in Nat /\ ev.call \in Nat
  BY DEF Event
<1> HIDE DEF all, n
<1>4. \A i, j \in DOMAIN all : i < j => all[i].n < all[j].n
  BY <1>1, <1>2, <1>3 DEF Listed, CallsInOrder
<1>5. \A i \in DOMAIN all : all[i].kind = "tool_execution_start" => all[i].call = all[i].n
  BY <1>1 DEF Listed, CallsInOrder
<1>6. ASSUME NEW i \in DOMAIN all, NEW j \in DOMAIN all, all[i].kind = "tool_execution_end"
      PROVE  /\ all[i].call < all[i].n
             /\ all[j].n = all[i].call => all[j].kind = "tool_execution_start"
             /\ all[j].kind = "tool_execution_end" /\ all[j].call = all[i].call => j = i
  <2>1. CASE i = n
    <3>1. ev.call \in open /\ ev.call <= sent
      BY <1>1, <1>6, <2>1
    <3>2. all[i].call < all[i].n /\ all[n].n # all[i].call
      BY <1>1, <1>3, <2>1, <3>1
    <3>3. QED
      BY <1>1, <2>1, <3>1, <3>2 DEF Listed
  <2>2. CASE i \in DOMAIN evs
    <3>1. /\ evs[i].kind = "tool_execution_end" /\ evs[i].call < evs[i].n /\ evs[i].call \notin open
      BY <1>1, <1>6, <2>2 DEF Listed, CallsInOrder
    <3>2. all[n].n # evs[i].call
      BY <1>1, <1>2, <1>3, <2>2, <3>1
    <3>3. CASE j = n
      BY <1>1, <2>2, <3>1, <3>2, <3>3
    <3>4. CASE j \in DOMAIN evs
      BY <1>1, <2>2, <3>1, <3>4 DEF Listed, CallsInOrder
    <3>5. QED
      BY <1>1, <3>3, <3>4
  <2>3. QED
    BY <1>1, <2>1, <2>2
<1>7. CallsInOrder(all)
  BY <1>4, <1>5, <1>6 DEF CallsInOrder
<1>8. ASSUME NEW i \in DOMAIN all
      PROVE  /\ all[i].n <= sent + 1
             /\ all[i].kind = "message_start" => all[i].text = <<>>
             /\ all[i].n \in after => all[i].kind = "tool_execution_start"
             /\ all[i].kind = "tool_execution_end" => all[i].call \notin after
  <2>1. CASE i = n
    <3>1. all[i] = ev
      BY <1>1, <2>1
    <3>2. ev.n \notin open
      OBVIOUS
    <3>3. QED
      BY <3>1, <3>2
  <2>2. CASE i \in DOMAIN evs
    <3>1. evs[i].kind = "tool_execution_end" => evs[i].call < evs[i].n
      BY <2>2 DEF Listed, CallsInOrder
    <3>2. evs[i].n # ev.n /\ (evs[i].kind = "tool_execution_end" => evs[i].call # ev.n)
      BY <1>2, <2>2, <3>1
    <3>3. QED
      BY <1>1, <1>2, <2>2, <3>2 DEF Listed
  <2>3. QED
    BY <1>1, <2>1, <2>2
<1>9. QED
  BY <1>1, <1>7, <1>8 DEF Listed, all

\* Payloads that are gone do not matter to the list.
LEMMA ReleasedIsListed ==
  ASSUME NEW evs, NEW open, NEW sent, Listed(evs, open, sent), NEW a
  PROVE  Listed([i \in DOMAIN evs |-> Released(evs[i], a)], open, sent)
<1> DEFINE out == [i \in DOMAIN evs |-> Released(evs[i], a)]
<1>1. ASSUME NEW ev \in Event
      PROVE  LET e == Released(ev, a) IN e \in Event /\ e.n = ev.n /\ e.kind = ev.kind /\ e.call = ev.call /\ e.text = ev.text
  BY DEF Released, Event
<1>2. evs \in Seq(Event)
  BY DEF Listed
<1>3. out \in Seq(Event) /\ DOMAIN out = DOMAIN evs
  BY <1>1, <1>2
<1>4. \A i \in DOMAIN evs : /\ out[i].n = evs[i].n /\ out[i].kind = evs[i].kind
                            /\ out[i].call = evs[i].call /\ out[i].text = evs[i].text
  BY <1>1, <1>2
<1> HIDE DEF out
<1>5. QED
  BY <1>3, <1>4 DEF Listed, CallsInOrder, out

-----------------------------------------------------------------------------
(* The lists of the page and of localStorage.                              *)

Open == UNION {agent[a].calls : a \in Agents}

\* A call is open with one agent, and both lists are in order.
CallsInv ==
  /\ \A c \in Open : c <= frames
  /\ \A a, b \in Agents : a # b => agent[a].calls \cap agent[b].calls = {}
  /\ Listed(app.events, Open, frames) /\ Listed(storage, Open, frames)

\* Calls that are open are numbers.
LEMMA OpenAreNumbers == Typed => Open \subseteq Nat
BY DEF Typed, Open, Speaker

\* Every step that leaves the lists alone keeps them in order.
LEMMA UnheardKeepsCalls ==
  ASSUME Typed, CallsInv, NEW out, app'.events = out, Listed(out, Open, frames), storage' = storage,
         frames' = frames + 1, NEW a \in Agents, NEW after, agent' = [agent EXCEPT ![a] = after],
         after.calls \subseteq agent[a].calls \cup {frames + 1}
  PROVE  CallsInv'
<1>1. frames \in Nat /\ agent \in [Agents -> Speaker] /\ Open \subseteq Nat
  BY OpenAreNumbers DEF Typed
<1>2. \A b \in Agents : agent'[b] = IF b = a THEN after ELSE agent[b]
  BY <1>1
<1>3. Open' \subseteq Open \cup {frames + 1}
  BY <1>2 DEF Open
<1>4. Listed(app'.events, Open', frames + 1) /\ Listed(storage', Open', frames + 1)
  BY <1>1, <1>3, UnheardIsListed DEF CallsInv
<1>5. \A c \in Open' : c <= frames'
  BY <1>1, <1>3 DEF CallsInv
<1>6. \A b, c \in Agents : b # c => agent'[b].calls \cap agent'[c].calls = {}
  <2>1. \A b \in Agents : frames + 1 \notin agent[b].calls
    BY <1>1 DEF CallsInv, Open
  <2>2. QED
    BY <1>2, <2>1 DEF CallsInv
<1>7. QED
  BY <1>4, <1>5, <1>6 DEF CallsInv

\* A stored event, or one that is missed, keeps the lists in order.
LEMMA UtteringKeepsCalls ==
  ASSUME Typed, CallsInv, NEW a \in Agents, NEW after, NEW ev, NEW fatal, Uttered(a, after, ev, fatal)
  PROVE  CallsInv'
<1>1. /\ frames' = frames + 1 /\ agent' = [agent EXCEPT ![a] = after]
      /\ \/ app' = OnTimelineEvent(app, ev, fatal) /\ (storage' = PersistEvents(app'.events) \/ storage' = storage)
         \/ app' = app /\ storage' = storage
  BY DEF Uttered, Utter
<1>2. ev \in Event /\ ev.agent = a /\ Says(agent[a], after, ev)
  BY DEF Uttered
<1>3. after.calls \subseteq agent[a].calls \cup {frames + 1}
  BY <1>2 DEF Says
<1>4. CASE app' = app /\ storage' = storage
  <2>1. Listed(app.events, Open, frames)
    BY DEF CallsInv
  <2>2. QED
    BY <1>1, <1>3, <1>4, <2>1, UnheardKeepsCalls
<1>5. CASE app' = OnTimelineEvent(app, ev, fatal) /\ (storage' = PersistEvents(app'.events) \/ storage' = storage)
  <2>1. frames \in Nat /\ agent \in [Agents -> Speaker] /\ Open \in SUBSET Nat
    BY OpenAreNumbers DEF Typed
  <2>2. \A b \in Agents : agent'[b] = IF b = a THEN after ELSE agent[b]
    BY <1>1, <2>1
  <2>3. Open' \subseteq Open \cup (IF ev.kind = "tool_execution_start" THEN {ev.n} ELSE {})
    BY <1>2, <2>2 DEF Open, Says
  <2>4. ev.kind = "tool_execution_end" => ev.call \in Open \ Open'
    <3> SUFFICES ASSUME ev.kind = "tool_execution_end" PROVE ev.call \in Open \ Open'
      OBVIOUS
    <3>1. ev.call \in agent[a].calls \ after.calls
      BY <1>2 DEF Says
    <3>2. \A b \in Agents : ev.call \notin agent'[b].calls
      BY <2>2, <3>1 DEF CallsInv
    <3>3. QED
      BY <3>1, <3>2 DEF Open
  <2>5. Listed(Append(app.events, ev), Open', frames + 1)
    <3>1. Listed(app.events, Open, frames) /\ \A c \in Open : c <= frames
      BY DEF CallsInv
    <3>2. /\ ev.n = frames + 1 /\ (ev.kind = "tool_execution_start" => ev.call = ev.n)
          /\ ev.kind = "message_start" => ev.text = <<>>
      BY <1>2 DEF Says
    <3>3. QED
      BY <1>2, <2>1, <2>3, <2>4, <3>1, <3>2, AppendedIsListed
  <2>6. app'.events = Capped(Append(app.events, ev))
    BY <1>2, <1>5, StoredEvent
  <2>7. Listed(app'.events, Open', frames + 1)
    BY <2>5, <2>6, CappedIsListed
  <2>8. Listed(storage', Open', frames + 1)
    <3>1. Open' \in SUBSET (Open \cup {frames + 1})
      BY <1>2, <2>3 DEF Says
    <3>2. Listed(storage, Open', frames + 1)
      BY <2>1, <3>1, UnheardIsListed DEF CallsInv
    <3>3. QED
      BY <1>5, <2>7, <3>2, CappedIsListed DEF PersistEvents
  <2>9. \A c \in Open' : c <= frames'
    BY <1>1, <1>2, <2>1, <2>3 DEF CallsInv, Says
  <2>10. \A b, c \in Agents : b # c => agent'[b].calls \cap agent'[c].calls = {}
    <3>1. \A b \in Agents : frames + 1 \notin agent[b].calls
      BY <2>1 DEF CallsInv, Open
    <3>2. QED
      BY <1>3, <2>2, <3>1 DEF CallsInv
  <2>11. QED
    BY <1>1, <2>7, <2>8, <2>9, <2>10 DEF CallsInv
<1>6. QED
  BY <1>1, <1>4, <1>5

\* The calls are in order at the start.
LEMMA CallsInvInitially == Init => CallsInv
<1> SUFFICES ASSUME Init PROVE CallsInv
  OBVIOUS
<1>1. app.events = <<>> /\ storage = <<>> /\ agent \in [Agents -> {Quiet, [Quiet EXCEPT !.turn = TRUE]}]
  BY DEF Init, Fresh
<1>2. \A a \in Agents : agent[a].calls = {}
  <2>1. Quiet.calls = {} /\ [Quiet EXCEPT !.turn = TRUE].calls = {}
    BY DEF Quiet
  <2>2. QED
    BY <1>1, <2>1
<1>3. Open = {}
  BY <1>2 DEF Open
<1>4. Listed(<<>>, {}, frames)
  BY DEF Listed, CallsInOrder
<1>5. QED
  BY <1>1, <1>2, <1>3, <1>4 DEF CallsInv

\* Every step keeps them in order.
LEMMA CallsInvKept == Typed /\ CallsInv /\ [Next]_vars => CallsInv'
<1> SUFFICES ASSUME Typed, CallsInv, [Next]_vars PROVE CallsInv'
  OBVIOUS
<1>1. Listed(app.events, Open, frames) /\ Shape(app) /\ agent \in [Agents -> Speaker]
  BY DEF CallsInv, Typed
<1>2. ASSUME UNCHANGED <<agent, storage, frames>>, app'.events = app.events PROVE CallsInv'
  BY <1>2 DEF CallsInv, Open
<1>3. ASSUME NEW a \in Agents, app'.events = app.events, storage' = storage, frames' = frames + 1, agent' = agent
      PROVE  CallsInv'
  <2>1. agent' = [agent EXCEPT ![a] = agent[a]]
    BY <1>1, <1>3
  <2>2. QED
    BY <1>1, <1>3, <2>1, UnheardKeepsCalls
<1>4. ASSUME NEW a \in Agents, Speak(a) PROVE CallsInv'
  <2>1. ASSUME NEW kind \in DeltaKinds, Update(a, kind) PROVE CallsInv'
    <3>1. /\ frames' = frames + 1 /\ UNCHANGED <<agent, storage>>
          /\ app' = OnMessageUpdate(app, a, kind, agent[a].talk) \/ app' = app
      BY <2>1 DEF Update
    <3>2. app'.events = app.events
      BY <1>1, <3>1, DeltaKeeps
    <3>3. QED
      BY <1>3, <3>1, <3>2
  <2>2. QED
    BY <1>4, <2>1, SpeakingIsUttering, UtteringKeepsCalls
<1>5. ASSUME NEW a \in Agents, Unregister(a) PROVE CallsInv'
  <2>1. /\ frames' = frames + 1 /\ agent' = [agent EXCEPT ![a] = Quiet] /\ storage' = storage
        /\ app' = OnUnregistered(app, a) \/ app' = app
    BY <1>5 DEF Unregister
  <2>2. Quiet.calls = {}
    BY DEF Quiet
  <2>3. Listed(app'.events, Open, frames)
    <3>1. CASE app' = OnUnregistered(app, a)
      <4> DEFINE out == [i \in DOMAIN app.events |-> Released(app.events[i], a)]
      <4>1. Listed(out, Open, frames)
        BY <1>1, ReleasedIsListed
      <4>2. app'.events = out
        <5> HIDE DEF out
        <5>1. QED
          BY <1>1, <3>1 DEF OnUnregistered, Shape, Fields, out
      <4>3. QED
        BY <4>1, <4>2
    <3>2. CASE app' = app
      BY <1>1, <3>2
    <3>3. QED
      BY <2>1, <3>1, <3>2
  <2>4. QED
    BY <2>1, <2>2, <2>3, UnheardKeepsCalls
<1>6. ASSUME NEW a \in Agents, NEW status \in Told, TellStatus(a, status) PROVE CallsInv'
  <2>1. frames' = frames + 1 /\ UNCHANGED <<agent, storage>>
    BY <1>6 DEF TellStatus
  <2>2. QED
    BY <1>3, <1>6, <2>1, TellingKeeps
<1>7. CASE PageActs
  BY <1>2, <1>7, PageKeeps
<1>8. CASE Reload
  <2>1. app' = Fresh(storage) /\ UNCHANGED <<agent, storage, frames>>
    BY <1>8 DEF Reload
  <2>2. app'.events = storage
    BY <2>1 DEF Fresh
  <2>3. QED
    BY <2>1, <2>2 DEF CallsInv, Open
<1>9. CASE Tick
  BY <1>2, <1>9 DEF Tick
<1>10. CASE UNCHANGED vars
  BY <1>2, <1>10 DEF vars
<1>11. QED
  BY <1>4, <1>5, <1>6, <1>7, <1>8, <1>9, <1>10, Steps

-----------------------------------------------------------------------------
(* Maps, cache and items of a page.                                        *)

\* Nothing is in the map of calls but their starts.
Maps(p) ==
  /\ p.msgs \in SUBSET Buffer /\ OneEach(p.msgs)
  /\ p.tools \in SUBSET Event /\ \A s \in p.tools : s.kind = "tool_execution_start" /\ s.call = s.n

Cached(p) == p.cache = NoCache \/ \E items \in SUBSET Item : p.cache = <<items>>

\* What CallsArePaired says, of a list and of the items built from it.
CallsPaired(evs, items) ==
  \A i \in items, e \in {e \in ToSet(evs) : e.kind = "tool_execution_end"} :
    /\ i.kind = "tool_running" => i.from # e.call
    /\ i.kind = "tool_merged" /\ i.id[2] = e.n =>
         i.from \in {e.call} \cup (IF e.call \in Numbers(evs) THEN {} ELSE {0})

Whole(evs) == \A i \in DOMAIN evs : evs[i].data

\* The cache is right whenever it counts as current.
Paired(p) == p.cache # NoCache /\ ~p.stale /\ Whole(p.events) => CallsPaired(p.events, p.cache[1])

Sound(p) == Maps(p) /\ Cached(p) /\ Paired(p)

\* The property is what is claimed of the page.
LEMMA PairedIsTheProperty == CallsArePaired <=> Paired(app)
BY DEF CallsArePaired, Paired, CallsPaired, Whole, Intact

\* What a build with all its payloads shows.
LEMMA BuildIsPaired ==
  ASSUME NEW evs, NEW open, NEW sent, Listed(evs, open, sent), Whole(evs),
         NEW msgs \in SUBSET Buffer, OneEach(msgs), NEW tools \in SUBSET Event, NEW now \in Nat,
         \A s \in tools : s.kind = "tool_execution_start" /\ s.call = s.n
  PROVE  LET b == BuildTimelineItems(evs, msgs, tools, now) IN ~b.thrown /\ CallsPaired(evs, b.items)
<1> DEFINE b == BuildTimelineItems(evs, msgs, tools, now)
<1>1. evs \in Seq(Event) /\ CallsInOrder(evs) /\ \A i \in DOMAIN evs : evs[i].data
  BY DEF Listed, Whole
<1>2. /\ ~b.thrown
      /\ \A it \in b.items : it.kind = "tool_running" => ~Ended(evs, Len(evs), it.from)
      /\ \A it \in b.items : it.kind = "tool_merged" =>
           \E i \in DOMAIN evs : evs[i].kind = "tool_execution_end" /\ PairOf(evs, tools, i, it)
  BY <1>1, CallsOfBuild DEF CallsShown
<1>3. DOMAIN evs = 1 .. Len(evs) /\ Len(evs) \in Nat /\ \A i \in DOMAIN evs : evs[i].n \in Nat /\ evs[i].call \in Nat /\ i \in Nat
  BY <1>1, EventNumbers
<1> HIDE DEF b
<1>4. ASSUME NEW it \in b.items, NEW e \in ToSet(evs), e.kind = "tool_execution_end", it.kind = "tool_running"
      PROVE  it.from # e.call
  <2>1. PICK j \in 1 .. Len(evs) : e = evs[j]
    BY <1>3 DEF ToSet
  <2>2. QED
    BY <1>2, <1>4, <2>1 DEF Ended
<1>5. ASSUME NEW it \in b.items, NEW e \in ToSet(evs), e.kind = "tool_execution_end", it.kind = "tool_merged",
             it.id[2] = e.n
      PROVE  it.from \in {e.call} \cup (IF e.call \in Numbers(evs) THEN {} ELSE {0})
  <2>1. PICK j \in DOMAIN evs : e = evs[j]
    BY <1>3 DEF ToSet
  <2>2. PICK i \in DOMAIN evs : evs[i].kind = "tool_execution_end" /\ PairOf(evs, tools, i, it)
    BY <1>2, <1>5
  <2>3. it.id[2] = evs[i].n
    BY <2>2 DEF PairOf
  <2>4. ~(i < j) /\ ~(j < i)
    BY <1>1, <1>3, <1>5, <2>1, <2>3 DEF CallsInOrder
  <2>5. evs[i] = e
    BY <1>3, <2>1, <2>4
  <2>6. CASE it.from = evs[i].call
    BY <2>5, <2>6
  <2>7. CASE it.from = 0 /\ ~Started(evs, i, evs[i].call)
    <3> SUFFICES ASSUME NEW k \in DOMAIN evs, evs[k].n = e.call PROVE FALSE
      BY <2>7 DEF Numbers
    <3>1. evs[k].kind = "tool_execution_start" /\ evs[k].call = e.call /\ evs[k].n < evs[i].n
      BY <1>1, <2>2, <2>5 DEF CallsInOrder
    <3>2. k < i
      <4>1. k # i
        BY <1>3, <3>1
      <4>2. ~(i < k)
        BY <1>1, <1>3, <3>1 DEF CallsInOrder
      <4>3. QED
        BY <1>3, <4>1, <4>2
    <3>3. k \in 1 .. i
      BY <1>3, <3>2
    <3>4. QED
      BY <2>5, <2>7, <3>1, <3>3 DEF Started
  <2>8. QED
    BY <2>2, <2>6, <2>7 DEF PairOf
<1>6. QED
  BY <1>2, <1>4, <1>5 DEF CallsPaired, b

\* Filters only select.
LEMMA FilteredIsPaired ==
  ASSUME NEW evs, NEW items, CallsPaired(evs, items), NEW agentFilter, NEW eventFilter
  PROVE  CallsPaired(evs, ApplyTimelineFilters(items, agentFilter, eventFilter))
<1>1. ApplyTimelineFilters(items, agentFilter, eventFilter) \subseteq items
  BY DEF ApplyTimelineFilters
<1>2. QED
  BY <1>1 DEF CallsPaired

\* Rendering keeps a page sound, whatever the maps have been through.
LEMMA RenderedIsSound ==
  ASSUME NEW p, Shape(p), Sound(p), NEW open, NEW sent, Listed(p.events, open, sent), clock \in Nat
  PROVE  Sound(RenderTimeline(p))
<1> DEFINE q == GetOrBuildItems(p)
           r == RenderTimeline(p)
<1>1. CASE p.view # "timeline"
  BY <1>1 DEF RenderTimeline
<1>2. CASE p.view = "timeline" /\ p.events = <<>>
  <2>1. r.cache = NoCache /\ r.msgs = p.msgs /\ r.tools = p.tools
    BY <1>2 DEF RenderTimeline, Shape, Fields
  <2>2. QED
    BY <2>1 DEF Sound, Maps, Cached, Paired
<1>3. CASE p.view = "timeline" /\ p.events # <<>>
  <2>1. Kept(p, q)
    BY BuildKeeps
  <2>2. Sound(q)
    <3>1. CASE p.cache # NoCache /\ ~p.stale
      <4>1. q = [p EXCEPT !.thrown = FALSE]
        BY <3>1 DEF GetOrBuildItems
      <4> HIDE DEF q
      <4>2. q.msgs = p.msgs /\ q.tools = p.tools /\ q.cache = p.cache /\ q.stale = p.stale /\ q.events = p.events
        BY <4>1 DEF Shape, Fields
      <4>3. QED
        BY <4>2 DEF Sound, Maps, Cached, Paired
    <3>2. CASE ~(p.cache # NoCache /\ ~p.stale)
      <4> DEFINE b == BuildTimelineItems(p.events, p.msgs, p.tools, clock)
                 built == [p EXCEPT !.msgs = b.msgs, !.tools = b.tools, !.stale = FALSE,
                                    !.thrown = b.thrown, !.broken = b.thrown]
                 items == ApplyTimelineFilters(b.items, p.agentFilter, p.eventFilter)
      <4>1. q = IF b.thrown THEN built ELSE [built EXCEPT !.cache = <<items>>, !.basis = Basis(p), !.removed = FALSE]
        BY <3>2 DEF GetOrBuildItems, Built
      <4>2. p.events \in Seq(Event) /\ CallsInOrder(p.events) /\ Maps(p)
        BY DEF Listed, Sound
      <4>3. /\ b.msgs \in SUBSET Buffer /\ OneEach(b.msgs) /\ b.tools \in SUBSET Event /\ b.items \in SUBSET Item
            /\ \A s \in b.tools : s.kind = "tool_execution_start" /\ s.call = s.n
        <5> DEFINE evs == p.events
                   msgs == p.msgs
                   tools == p.tools
        <5>1. /\ evs \in Seq(Event) /\ CallsInOrder(evs) /\ msgs \in SUBSET Buffer /\ OneEach(msgs)
              /\ tools \in SUBSET Event /\ \A s \in tools : s.kind = "tool_execution_start" /\ s.call = s.n
          BY <4>2 DEF Maps
        <5>2. b = BuildTimelineItems(evs, msgs, tools, clock)
          OBVIOUS
        <5> HIDE DEF b, evs, msgs, tools
        <5>3. Typical(b)
          BY <5>1, <5>2, BuildIsTypical
        <5>4. \A s \in b.tools : s.kind = "tool_execution_start" /\ s.call = s.n
          BY <5>1, <5>2, StartsAreLeft
        <5>5. QED
          BY <5>3, <5>4 DEF Typical, Build
      <4>4. Whole(p.events) => ~b.thrown /\ CallsPaired(p.events, b.items)
        BY <4>2, BuildIsPaired DEF Maps
      <4>5. items \in SUBSET Item /\ (Whole(p.events) => CallsPaired(p.events, items))
        <5>1. items \subseteq b.items
          BY DEF ApplyTimelineFilters
        <5>2. QED
          BY <4>3, <4>4, <5>1, FilteredIsPaired
      <4> HIDE DEF b
      <4>6. /\ built.msgs = b.msgs /\ built.tools = b.tools /\ built.cache = p.cache /\ built.events = p.events
            /\ Shape(built)
        BY DEF Shape, Fields
      <4> HIDE DEF items, built, q
      <4>7. q.msgs = b.msgs /\ q.tools = b.tools /\ q.events = p.events
        BY <4>1, <4>6 DEF Shape, Fields
      <4>8. /\ b.thrown => q.cache = p.cache
            /\ ~b.thrown => q.cache = <<items>>
        BY <4>1, <4>6 DEF Shape, Fields
      <4>9. Cached(q)
        BY <4>5, <4>8 DEF Cached, Sound
      <4>10. Paired(q)
        BY <4>4, <4>5, <4>7, <4>8 DEF Paired
      <4>11. QED
        BY <4>3, <4>7, <4>9, <4>10 DEF Sound, Maps
    <3>3. QED
      BY <3>1, <3>2
  <2>3. /\ r.msgs = q.msgs /\ r.tools = q.tools /\ r.events = q.events /\ r.stale = q.stale
        /\ r.cache = q.cache \/ r.cache = NoCache
    <3>1. r = CASE q.thrown -> q
                [] ~q.thrown /\ q.cache = <<{}>> -> [q EXCEPT !.cache = NoCache]
                [] OTHER -> [q EXCEPT !.thrown = \E i \in q.cache[1] : RowThrows(i)]
      BY <1>3 DEF RenderTimeline, Displayed
    <3>2. Shape(q)
      BY <2>1 DEF Kept
    <3> HIDE DEF q, r
    <3>3. QED
      BY <3>1, <3>2 DEF Shape, Fields
  <2> HIDE DEF q, r
  <2>4. Sound(r)
    BY <2>2, <2>3 DEF Sound, Maps, Cached, Paired
  <2>5. QED
    BY <2>4 DEF r
<1>4. QED
  BY <1>1, <1>2, <1>3

-----------------------------------------------------------------------------
(* The steps.                                                              *)

\* A page with the maps, the cache and the events of a sound one is sound; so
\* is one whose cache is old, whatever its events.
LEMMA SameIsSound ==
  ASSUME NEW p, Sound(p), NEW q, q.msgs = p.msgs, q.tools = p.tools, q.cache = p.cache,
         q.stale \/ (q.stale = p.stale /\ q.events = p.events)
  PROVE  Sound(q)
BY DEF Sound, Maps, Cached, Paired

\* A delta goes to the buffer of its agent, which there may have to be made.
LEMMA AccumulatingIsSound ==
  ASSUME Typed, Sound(app), NEW a \in Agents, NEW kind \in DeltaKinds
  PROVE  Sound(OnMessageUpdate(app, a, kind, agent[a].talk))
<1> DEFINE part == agent[a].talk
           old == BufferOf(app.msgs, a)
           buffers == IF old = {} THEN {NewBuffer(a, kind)} ELSE old
           more == {Accumulated(m, kind, part) : m \in buffers}
           q == OnMessageUpdate(app, a, kind, part)
<1>1. Shape(app) /\ clock \in Nat /\ part \in Nat
  BY DEF Typed, Speaker
<1>2. app.msgs \in SUBSET Buffer /\ OneEach(app.msgs)
  BY DEF Sound, Maps
<1>3. NewBuffer(a, kind) \in Buffer /\ NewBuffer(a, kind).agent = a
  BY <1>1 DEF NewBuffer, Buffer, AnyRole
<1>4. buffers \subseteq Buffer /\ \A m, o \in buffers : m.agent = a /\ m = o
  <2>1. CASE old = {}
    BY <1>3, <2>1
  <2>2. CASE old # {}
    BY <1>2, <2>2 DEF BufferOf, OneEach
  <2>3. QED
    BY <2>1, <2>2
<1> HIDE DEF part, old, buffers
<1>5. ASSUME NEW m \in Buffer PROVE Accumulated(m, kind, part) \in Buffer /\ Accumulated(m, kind, part).agent = m.agent
  <2> DEFINE text == Append(m.text, part)
             thinking == Append(m.thinking, part)
             full == <<part>>
  <2>1. text \in Seq(Nat) /\ thinking \in Seq(Nat) /\ full \in Seq(Nat)
    BY <1>1 DEF Buffer
  <2>2. /\ \A t \in Seq(Nat) : [m EXCEPT !.text = t] \in Buffer /\ [m EXCEPT !.text = t].agent = m.agent
        /\ \A t \in Seq(Nat) : [m EXCEPT !.thinking = t] \in Buffer /\ [m EXCEPT !.thinking = t].agent = m.agent
    BY DEF Buffer
  <2>3. kind \in {"text", "toolcall_args", "thinking", "full"}
    BY TimelineAssumption
  <2>4. CASE kind \in {"text", "toolcall_args"}
    <3>1. Accumulated(m, kind, part) = [m EXCEPT !.text = text]
      BY <2>4 DEF Accumulated
    <3> HIDE DEF text, thinking, full
    <3>2. QED
      BY <2>1, <2>2, <3>1
  <2>5. CASE kind = "thinking"
    <3>1. Accumulated(m, kind, part) = [m EXCEPT !.thinking = thinking]
      BY <2>5 DEF Accumulated
    <3> HIDE DEF text, thinking, full
    <3>2. QED
      BY <2>1, <2>2, <3>1
  <2>6. CASE kind = "full"
    <3>1. Accumulated(m, kind, part) = [m EXCEPT !.text = full]
      BY <2>6 DEF Accumulated
    <3> HIDE DEF text, thinking, full
    <3>2. QED
      BY <2>1, <2>2, <3>1
  <2>7. QED
    BY <2>3, <2>4, <2>5, <2>6
<1>6. more \subseteq Buffer /\ \A m, o \in more : m.agent = a /\ m = o
  BY <1>4, <1>5
<1> HIDE DEF more
<1>7. q.msgs = (app.msgs \ old) \cup more /\ q.tools = app.tools /\ q.cache = app.cache /\ q.stale
  BY <1>1 DEF OnMessageUpdate, Shape, Fields, part, old, buffers, more
<1>8. \A m \in app.msgs \ old : m.agent # a
  BY DEF BufferOf, old
<1> HIDE DEF q
<1>9. q.msgs \in SUBSET Buffer /\ OneEach(q.msgs)
  BY <1>2, <1>6, <1>7, <1>8 DEF OneEach
<1>10. Sound(q)
  BY <1>7, <1>9 DEF Sound, Maps, Cached, Paired
<1>11. QED
  BY <1>10 DEF q, part

\* A removal takes from the maps, and releases cached payloads.
LEMMA RemovingIsSound ==
  ASSUME Typed, Sound(app), NEW a \in Agents
  PROVE  Sound(OnUnregistered(app, a))
<1> DEFINE q == OnUnregistered(app, a)
           out(items) == {IF i.kind \in Markers THEN Released(i, a) ELSE i : i \in items}
           cache == [c \in DOMAIN app.cache |-> out(app.cache[c])]
<1>1. Shape(app)
  BY DEF Typed
<1>2. /\ q.msgs = app.msgs \ BufferOf(app.msgs, a) /\ q.tools = {s \in app.tools : s.agent # a}
      /\ q.cache = cache /\ q.stale
  <2> HIDE DEF out
  <2>1. q.msgs = app.msgs \ BufferOf(app.msgs, a) /\ q.stale
    BY <1>1 DEF OnUnregistered, Shape, Fields
  <2>2. q.tools = {s \in app.tools : s.agent # a}
    BY <1>1 DEF OnUnregistered, Shape, Fields
  <2>3. q.cache = cache
    BY <1>1 DEF OnUnregistered, Shape, Fields, out
  <2>4. QED
    BY <2>1, <2>2, <2>3
<1>3. ASSUME NEW items \in SUBSET Item PROVE out(items) \in SUBSET Item
  <2>1. ASSUME NEW i \in Item PROVE Released(i, a) \in Item
    BY DEF Released, Item
  <2>2. QED
    BY <2>1
<1> HIDE DEF out
<1>4. cache = NoCache \/ \E items \in SUBSET Item : cache = <<items>>
  <2>1. CASE app.cache = NoCache
    BY <2>1 DEF NoCache
  <2>2. CASE \E items \in SUBSET Item : app.cache = <<items>>
    <3>1. PICK items \in SUBSET Item : app.cache = <<items>>
      BY <2>2
    <3>2. cache = <<out(items)>>
      BY <3>1
    <3>3. QED
      BY <1>3, <3>2
  <2>3. QED
    BY <2>1, <2>2 DEF Sound, Cached
<1> HIDE DEF q, cache
<1>5. Sound(q)
  BY <1>2, <1>4 DEF Sound, Maps, Cached, Paired, OneEach
<1>6. QED
  BY <1>5 DEF q

\* Switching the view.
LEMMA ViewingIsSound ==
  ASSUME Typed, Sound(app), CallsInv, NEW view
  PROVE  Sound(Viewed(app, view))
<1>1. Shape(app) /\ clock \in Nat /\ Listed(app.events, Open, frames)
  BY DEF Typed, CallsInv
<1>2. CASE view = "dashboard"
  <2> DEFINE q == Viewed(app, view)
  <2>1. q.msgs = app.msgs /\ q.tools = app.tools /\ q.cache = NoCache
    BY <1>1, <1>2 DEF Viewed, Shape, Fields
  <2> HIDE DEF q
  <2>2. Sound(q)
    BY <2>1 DEF Sound, Maps, Cached, Paired
  <2>3. QED
    BY <2>2 DEF q
<1>3. CASE view # "dashboard"
  <2> DEFINE p == [app EXCEPT !.view = view, !.stale = TRUE]
  <2>1. Shape(p) /\ p.stale /\ p.msgs = app.msgs /\ p.tools = app.tools /\ p.cache = app.cache /\ p.events = app.events
    BY <1>1 DEF Shape, Fields
  <2>2. Viewed(app, view) = RenderTimeline(p)
    BY <1>3 DEF Viewed
  <2> HIDE DEF p
  <2>3. Sound(p)
    BY <2>1, SameIsSound
  <2>4. QED
    BY <1>1, <2>1, <2>2, <2>3, RenderedIsSound
<1>4. QED
  BY <1>2, <1>3

\* Every other step of the user and of the timers.
LEMMA PageIsSound ==
  ASSUME Typed, Sound(app), CallsInv, PageActs
  PROVE  Sound(app')
<1>1. Shape(app) /\ clock \in Nat /\ Listed(app.events, Open, frames)
  BY DEF Typed, CallsInv
<1>2. ASSUME NEW p, Shape(p), p.msgs = app.msgs, p.tools = app.tools, p.cache = app.cache, p.events = app.events,
             p.stale \/ p.stale = app.stale, app' = RenderTimeline(p)
      PROVE  Sound(app')
  <2>1. Sound(p)
    BY <1>2, SameIsSound
  <2>2. Sound(RenderTimeline(p))
    BY <1>1, <1>2, <2>1, RenderedIsSound
  <2>3. QED
    BY <1>2, <2>2
<1>3. ASSUME NEW view, SwitchView(view) PROVE Sound(app')
  <2>1. app' = Viewed(app, view)
    BY <1>3 DEF SwitchView, PageStep
  <2>2. QED
    BY <2>1, ViewingIsSound
<1>4. ASSUME NEW a, ClickRow(a) PROVE Sound(app')
  <2>1. app' = Viewed(app, "dashboard")
    BY <1>4 DEF ClickRow, PageStep
  <2>2. QED
    BY <2>1, ViewingIsSound
<1>5. ASSUME NEW a, Trace(a) PROVE Sound(app')
  <2> DEFINE p == [app EXCEPT !.view = "timeline"]
  <2>1. /\ Shape(p) /\ p.msgs = app.msgs /\ p.tools = app.tools /\ p.cache = app.cache /\ p.events = app.events
        /\ p.stale = app.stale
    BY <1>1 DEF Shape, Fields
  <2>2. app' = RenderTimeline(p)
    BY <1>5 DEF Trace, PageStep
  <2> HIDE DEF p
  <2>3. QED
    BY <1>2, <2>1, <2>2
<1>6. ASSUME NEW f, SetTimelineAgentFilter(f) PROVE Sound(app')
  <2> DEFINE p == [app EXCEPT !.agentFilter = f, !.stale = TRUE]
  <2>1. /\ Shape(p) /\ p.msgs = app.msgs /\ p.tools = app.tools /\ p.cache = app.cache /\ p.events = app.events
        /\ p.stale
    BY <1>1 DEF Shape, Fields
  <2>2. app' = RenderTimeline(p)
    BY <1>6 DEF SetTimelineAgentFilter, PageStep
  <2> HIDE DEF p
  <2>3. QED
    BY <1>2, <2>1, <2>2
<1>7. ASSUME NEW f, SetTimelineEventFilter(f) PROVE Sound(app')
  <2> DEFINE p == [app EXCEPT !.eventFilter = f, !.stale = TRUE]
  <2>1. /\ Shape(p) /\ p.msgs = app.msgs /\ p.tools = app.tools /\ p.cache = app.cache /\ p.events = app.events
        /\ p.stale
    BY <1>1 DEF Shape, Fields
  <2>2. app' = RenderTimeline(p)
    BY <1>7 DEF SetTimelineEventFilter, PageStep
  <2> HIDE DEF p
  <2>3. QED
    BY <1>2, <2>1, <2>2
<1>8. ASSUME NEW limit, CleanupStaleBuffers(limit) PROVE Sound(app')
  <2> DEFINE msgs == {m \in app.msgs : m.time >= limit}
             tools == {s \in app.tools : s.time >= limit}
  <2>1. app' = [app EXCEPT !.msgs = msgs, !.tools = tools]
    BY <1>8 DEF CleanupStaleBuffers, PageStep
  <2>2. msgs \subseteq app.msgs /\ tools \subseteq app.tools
    OBVIOUS
  <2> HIDE DEF msgs, tools
  <2>3. /\ app'.msgs = msgs /\ app'.tools = tools /\ app'.cache = app.cache /\ app'.stale = app.stale
        /\ app'.events = app.events
    BY <1>1, <2>1 DEF Shape, Fields
  <2>4. QED
    BY <2>2, <2>3 DEF Sound, Maps, Cached, Paired, OneEach
<1>9. ASSUME DrawFrame PROVE Sound(app')
  <2> DEFINE p == [app EXCEPT !.frame = FALSE]
  <2>1. /\ Shape(p) /\ p.msgs = app.msgs /\ p.tools = app.tools /\ p.cache = app.cache /\ p.events = app.events
        /\ p.stale = app.stale
    BY <1>1 DEF Shape, Fields
  <2>2. app' = RenderTimeline(p)
    BY <1>9 DEF DrawFrame, PageStep
  <2> HIDE DEF p
  <2>3. QED
    BY <1>2, <2>1, <2>2
<1>10. QED
  BY <1>3, <1>4, <1>5, <1>6, <1>7, <1>8, <1>9 DEF PageActs

\* An event that is stored makes the cache old, and is rendered.
LEMMA UtteringIsSound ==
  ASSUME Typed, Sound(app), CallsInv', NEW a \in Agents, NEW after, NEW ev, NEW fatal, Uttered(a, after, ev, fatal)
  PROVE  Sound(app')
<1>1. Shape(app) /\ clock \in Nat
  BY DEF Typed
<1>2. CASE app' = OnTimelineEvent(app, ev, fatal)
  <2> DEFINE events == Capped(Append(app.events, ev))
             agents == [app.agents EXCEPT ![ev.agent] = StatusAfter(@, ev.kind, fatal)]
             p == [app EXCEPT !.events = events, !.stale = TRUE, !.last = ev.n, !.agents = agents]
  <2>1. app' = RenderTimeline(p)
    BY <1>2 DEF OnTimelineEvent
  <2>2. Shape(p) /\ p.stale /\ p.msgs = app.msgs /\ p.tools = app.tools /\ p.cache = app.cache
    <3> HIDE DEF events, agents
    <3> QED BY <1>1 DEF Shape, Fields
  <2> HIDE DEF p
  <2>3. Sound(p)
    BY <2>2, SameIsSound
  <2>4. Listed(p.events, Open', frames')
    <3>1. app'.events = p.events
      BY <2>1, <2>2, RenderKeeps DEF Kept
    <3>2. QED
      BY <3>1 DEF CallsInv
  <2>5. QED
    BY <1>1, <2>1, <2>2, <2>3, <2>4, RenderedIsSound
<1>3. CASE app' = app
  BY <1>3
<1>4. QED
  BY <1>2, <1>3 DEF Uttered, Utter

\* The maps hold only starts, and the cache is right whenever it is used.
PageSound == Sound(app)

\* Every step keeps the page sound.
LEMMA SoundKept == Typed /\ CallsInv /\ PageSound /\ [Next]_vars => PageSound'
<1> SUFFICES ASSUME Typed, CallsInv, Sound(app), [Next]_vars PROVE Sound(app')
  BY DEF PageSound
<1>1. Shape(app) /\ CallsInv'
  BY CallsInvKept DEF Typed
<1>2. ASSUME app' = app PROVE Sound(app')
  BY <1>2
<1>3. ASSUME NEW a \in Agents, Speak(a) PROVE Sound(app')
  <2>1. ASSUME NEW kind \in DeltaKinds, Update(a, kind) PROVE Sound(app')
    <3>1. app' = OnMessageUpdate(app, a, kind, agent[a].talk) \/ app' = app
      BY <2>1 DEF Update
    <3>2. QED
      BY <3>1, AccumulatingIsSound
  <2>2. QED
    BY <1>1, <1>3, <2>1, SpeakingIsUttering, UtteringIsSound
<1>4. ASSUME NEW a \in Agents, Unregister(a) PROVE Sound(app')
  <2>1. app' = OnUnregistered(app, a) \/ app' = app
    BY <1>4 DEF Unregister
  <2>2. QED
    BY <2>1, RemovingIsSound
<1>5. ASSUME NEW a \in Agents, NEW status \in Told, TellStatus(a, status) PROVE Sound(app')
  <2> DEFINE agents == [app.agents EXCEPT ![a] = status]
  <2>1. app' = [app EXCEPT !.agents = agents]
    BY <1>5 DEF TellStatus
  <2> HIDE DEF agents
  <2>2. /\ app'.msgs = app.msgs /\ app'.tools = app.tools /\ app'.cache = app.cache
        /\ app'.stale = app.stale /\ app'.events = app.events
    BY <1>1, <2>1 DEF Shape, Fields
  <2>3. QED
    BY <2>2, SameIsSound
<1>6. CASE Reload
  <2>1. app'.msgs = {} /\ app'.tools = {} /\ app'.cache = NoCache
    BY <1>6 DEF Reload, Fresh
  <2>2. QED
    BY <2>1 DEF Sound, Maps, Cached, Paired, OneEach
<1>7. CASE Tick
  BY <1>7 DEF Tick
<1>8. CASE UNCHANGED vars
  BY <1>8 DEF vars
<1>9. QED
  BY <1>3, <1>4, <1>5, <1>6, <1>7, <1>8, Steps, PageIsSound

\* A page that has just been loaded is sound.
LEMMA SoundInitially == Init => PageSound
<1> SUFFICES ASSUME Init PROVE Sound(app)
  BY DEF PageSound
<1>1. app.msgs = {} /\ app.tools = {} /\ app.cache = NoCache
  BY DEF Init, Fresh
<1>2. QED
  BY <1>1 DEF Sound, Maps, Cached, Paired, OneEach

\* Everything keeps its type: the events, the maps that builds and deltas write,
\* one buffer for an agent, and the items of the cache.
THEOREM TypeCorrect == Spec => []TypeOK
<1>1. Typed /\ PageSound => TypeOK
  <2> SUFFICES ASSUME Typed, Sound(app) PROVE TypeOK
    BY DEF PageSound
  <2>1. app.cache # NoCache => app.cache[1] \subseteq Item
    BY DEF Sound, Cached
  <2>2. QED
    BY <2>1 DEF Typed, Sound, Maps, OneEach, TypeOK
<1>2. QED
  BY <1>1, TypesHoldInitially, TypesKept, CallsInvInitially, CallsInvKept, SoundInitially, SoundKept, PTL DEF Spec

\* Whatever the builds before have left in the maps, a call whose end is stored
\* is not shown running, and it is shown with its own start.
THEOREM CallsStayPaired == Spec => []CallsArePaired
<1>1. PageSound => CallsArePaired
  BY PairedIsTheProperty DEF PageSound, Sound
<1>2. QED
  BY <1>1, TypesHoldInitially, TypesKept, CallsInvInitially, CallsInvKept, SoundInitially, SoundKept, PTL DEF Spec

-----------------------------------------------------------------------------
(* After a reload.                                                         *)

\* A start that the list has is found, before the end.
LEMMA PairIsCalled ==
  ASSUME NEW evs \in Seq(Event), CallsInOrder(evs), NEW i \in OfKind(evs, "tool_execution_end"),
         NEW it, PairOf(evs, {}, i, it)
  PROVE  it.id = <<"event", evs[i].n>> /\ it.from = From(evs, Called(evs, i))
<1> DEFINE s == Called(evs, i)
<1>1. DOMAIN evs = 1 .. Len(evs) /\ Len(evs) \in Nat /\ \A j \in DOMAIN evs : evs[j].n \in Nat /\ evs[j].call \in Nat /\ j \in Nat
  BY EventNumbers
<1>2. /\ \A j \in s : j \in DOMAIN evs /\ evs[j].kind = "tool_execution_start" /\ evs[j].call = evs[i].call /\ evs[j].n = evs[i].call
      /\ \A j \in DOMAIN evs : evs[j].kind = "tool_execution_start" /\ evs[j].call = evs[i].call => j \in s
      /\ i \in DOMAIN evs /\ evs[i].kind = "tool_execution_end"
  BY DEF Called, OfKind, CallsInOrder
<1> HIDE DEF s
<1>3. s \in SUBSET Nat
  BY <1>1, <1>2
<1>4. CASE it.from = evs[i].call /\ Started(evs, i, evs[i].call)
  <2>1. s # {}
    <3>1. PICK j \in 1 .. i : evs[j].kind = "tool_execution_start" /\ evs[j].call = evs[i].call
      BY <1>4 DEF Started
    <3>2. j \in DOMAIN evs
      BY <1>1, <1>2, <3>1
    <3>3. QED
      BY <1>2, <3>1, <3>2
  <2>2. From(evs, s) = evs[i].call
    BY <1>2, <2>1 DEF From
  <2>3. QED
    BY <1>4, <2>2 DEF s, PairOf
<1>5. CASE it.from = 0 /\ ~Started(evs, i, evs[i].call)
  <2>1. s = {}
    <3> SUFFICES ASSUME NEW j \in s PROVE FALSE
      OBVIOUS
    <3>1. evs[j].n < evs[i].n /\ j \in DOMAIN evs
      BY <1>2 DEF CallsInOrder
    <3>2. j # i /\ ~(i < j)
      BY <1>1, <1>2, <3>1 DEF CallsInOrder
    <3>3. j \in 1 .. i
      BY <1>1, <1>2, <3>1, <3>2
    <3>4. QED
      BY <1>2, <1>5, <3>3 DEF Started
  <2>2. QED
    BY <1>5, <2>1 DEF s, From, PairOf
<1>6. QED
  BY <1>4, <1>5 DEF PairOf

\* The start that a build finds for the end of a message is open, and it finds
\* one if there is one.
LEMMA OpenedIsOpening ==
  ASSUME NEW evs \in Seq(Event), NEW i \in OfKind(evs, "message_end")
  PROVE  /\ \A j \in 1 .. i - 1 : Opened(evs, evs[i].agent, i - 1, j) => j \in Opening(evs, i)
         /\ Unopened(evs, evs[i].agent, i - 1) => Opening(evs, i) = {}
         /\ Opening(evs, i) # {} =>
              \E j \in Opening(evs, i) : j \in 1 .. i - 1 /\ Opened(evs, evs[i].agent, i - 1, j)
<1> DEFINE s == Opening(evs, i)
           a == evs[i].agent
<1>1. DOMAIN evs = 1 .. Len(evs) /\ Len(evs) \in Nat /\ i \in DOMAIN evs /\ i \in Nat
  BY DEF OfKind
<1>2. \A j : j \in s <=> /\ j \in 1 .. i - 1 /\ OfAgent(evs, a, "message_start", j)
                         /\ \A k \in 1 .. i - 1 : OfAgent(evs, a, "message_end", k) => k < j
  <2>1. \A j : j \in 1 .. i - 1 <=> j \in DOMAIN evs /\ j < i
    BY <1>1
  <2>2. \A k \in DOMAIN evs : k >= i <=> ~(k < i)
    BY <1>1
  <2>3. QED
    BY <2>1, <2>2 DEF Opening, OfKind, OfAgent
<1>3. s \in SUBSET Nat
  BY <1>1, <1>2
<1> HIDE DEF s, a
<1>4. ASSUME NEW j \in 1 .. i - 1, Opened(evs, a, i - 1, j) PROVE j \in s
  BY <1>2, <1>4 DEF Opened
<1>5. ASSUME Unopened(evs, a, i - 1) PROVE s = {}
  <2> SUFFICES ASSUME NEW y \in s PROVE FALSE
    OBVIOUS
  <2>1. PICK x \in 1 .. i - 1 : OfAgent(evs, a, "message_end", x) /\ y < x
    BY <1>2, <1>5 DEF Unopened
  <2>2. x < y
    BY <1>2, <2>1
  <2>3. QED
    BY <1>1, <1>3, <2>1, <2>2
<1>6. ASSUME s # {} PROVE \E j \in s : j \in 1 .. i - 1 /\ Opened(evs, a, i - 1, j)
  <2> PICK j \in s : \A y \in s : j <= y
    BY <1>3, <1>6, LeastNumber
  <2>1. j \in 1 .. i - 1 /\ OfAgent(evs, a, "message_start", j)
        /\ \A x \in 1 .. i - 1 : OfAgent(evs, a, "message_end", x) => x < j
    BY <1>2
  <2>2. ASSUME NEW y \in 1 .. i - 1, OfAgent(evs, a, "message_start", y), y < j
        PROVE  \E x \in 1 .. i - 1 : OfAgent(evs, a, "message_end", x) /\ y < x
    <3>1. y \notin s
      BY <1>1, <2>1, <2>2
    <3>2. PICK x \in 1 .. i - 1 : OfAgent(evs, a, "message_end", x) /\ ~(x < y)
      BY <1>2, <2>2, <3>1
    <3>3. x # y
      BY <2>2, <3>2 DEF OfAgent
    <3>4. y < x
      BY <1>1, <2>2, <3>2, <3>3
    <3>5. QED
      BY <3>2, <3>4
  <2>3. QED
    BY <2>1, <2>2 DEF Opened
<1>7. QED
  BY <1>4, <1>5, <1>6 DEF s, a

\* What is shown of a list with all its payloads, when the maps are empty.
LEMMA ListIsRestored ==
  ASSUME NEW evs, NEW open, NEW sent, Listed(evs, open, sent), Whole(evs), NEW now \in Nat
  PROVE  LET items == BuildTimelineItems(evs, {}, {}, now).items IN
           EndedCallsRestored(evs, items) /\ RunningCallsRestored(evs, items) /\ MessagesRestored(evs, items)
<1> DEFINE items == BuildTimelineItems(evs, {}, {}, now).items
           ends == OfKind(evs, "tool_execution_end")
           starts == OfKind(evs, "tool_execution_start")
<1>1. /\ evs \in Seq(Event) /\ CallsInOrder(evs) /\ \A i \in DOMAIN evs : evs[i].data
      /\ \A i \in DOMAIN evs : evs[i].kind = "message_start" => evs[i].text = <<>>
  BY DEF Listed, Whole
<1>2. OneEach({})
  BY DEF OneEach
<1>3. DOMAIN evs = 1 .. Len(evs)
  BY <1>1
<1>4. CallsShown(evs, {}, items)
  BY <1>1, <1>2, CallsOfBuild
<1>5. /\ \A it \in items : OfEnd(it) => \E i \in DOMAIN evs : EndItem(evs, i, it)
      /\ \A i \in DOMAIN evs : Shown(evs, i) => \E it \in items : OfEnd(it) /\ EndItem(evs, i, it)
  BY <1>1, MessagesOfBuild
<1> HIDE DEF items
<1>6. EndedCallsRestored(evs, items)
  <2>1. \A it \in OfEvents(items, "tool_merged") : \E i \in ends : <<it.id[2], it.from>> = <<evs[i].n, From(evs, Called(evs, i))>>
    <3> SUFFICES ASSUME NEW it \in OfEvents(items, "tool_merged")
                 PROVE  \E i \in ends : <<it.id[2], it.from>> = <<evs[i].n, From(evs, Called(evs, i))>>
      OBVIOUS
    <3>1. PICK i \in ends : PairOf(evs, {}, i, it)
      BY <1>4 DEF CallsShown, OfEvents, OfKind
    <3>2. it.id = <<"event", evs[i].n>> /\ it.from = From(evs, Called(evs, i))
      BY <1>1, <3>1, PairIsCalled
    <3>3. QED
      BY <3>2
  <2>2. \A i \in ends : \E it \in OfEvents(items, "tool_merged") : <<it.id[2], it.from>> = <<evs[i].n, From(evs, Called(evs, i))>>
    <3> SUFFICES ASSUME NEW i \in ends
                 PROVE  \E it \in OfEvents(items, "tool_merged") : <<it.id[2], it.from>> = <<evs[i].n, From(evs, Called(evs, i))>>
      OBVIOUS
    <3>1. PICK it \in items : it.kind = "tool_merged" /\ PairOf(evs, {}, i, it)
      BY <1>4 DEF CallsShown, OfKind
    <3>2. it.id = <<"event", evs[i].n>> /\ it.from = From(evs, Called(evs, i))
      BY <1>1, <3>1, PairIsCalled
    <3>3. it \in OfEvents(items, "tool_merged")
      BY <3>1, <3>2 DEF OfEvents
    <3>4. QED
      BY <3>2, <3>3
  <2> HIDE DEF ends
  <2>3. {<<it.id[2], it.from>> : it \in OfEvents(items, "tool_merged")} = {<<evs[i].n, From(evs, Called(evs, i))>> : i \in ends}
    BY <2>1, <2>2
  <2>4. QED
    BY <2>3 DEF EndedCallsRestored, ends
<1>7. RunningCallsRestored(evs, items)
  <2> DEFINE running == {it \in items : it.kind = "tool_running"}
             begun == {i \in starts : \A j \in ends : evs[j].call # evs[i].call}
  <2>1. \A i \in starts : evs[i].call = evs[i].n
    BY <1>1 DEF CallsInOrder, OfKind
  <2>2. \A c : Ended(evs, Len(evs), c) <=> \E j \in ends : evs[j].call = c
    BY <1>3 DEF Ended, OfKind
  <2>3. \A it \in running : \E i \in begun : it.from = evs[i].call
    <3> SUFFICES ASSUME NEW it \in running PROVE \E i \in begun : it.from = evs[i].call
      OBVIOUS
    <3>1. ~Ended(evs, Len(evs), it.from)
      BY <1>4 DEF CallsShown
    <3>2. PICK i \in starts : it.from = evs[i].n
      BY <1>4 DEF CallsShown, OfKind
    <3>3. QED
      BY <2>1, <2>2, <3>1, <3>2
  <2>4. \A i \in begun : \E it \in running : it.from = evs[i].call
    <3> SUFFICES ASSUME NEW i \in begun PROVE \E it \in running : it.from = evs[i].call
      OBVIOUS
    <3>1. i \in DOMAIN evs /\ evs[i].kind = "tool_execution_start" /\ ~Ended(evs, Len(evs), evs[i].call)
      BY <2>2 DEF OfKind
    <3>2. PICK it \in items : it.kind = "tool_running" /\ it.from = evs[i].n
      BY <1>4, <3>1 DEF CallsShown
    <3>3. QED
      BY <2>1, <3>2
  <2>5. {it.from : it \in running} = {evs[i].call : i \in begun}
    <3> HIDE DEF running, begun
    <3>1. QED
      BY <2>3, <2>4
  <2>6. QED
    BY <2>5 DEF RunningCallsRestored
<1>8. MessagesRestored(evs, items)
  <2>1. \A it : it \in OfEvents(items, "message_merged") <=> it \in items /\ OfEnd(it)
    BY DEF OfEvents, OfEnd
  <2>2. \A i \in DOMAIN evs : evs[i].time \in Nat /\ evs[i].n \in Nat /\ i \in Nat
    <3>1. \A i \in DOMAIN evs : evs[i] \in Event
      BY <1>1
    <3>2. QED
      BY <3>1, EventNumbers, <1>1 DEF Event
  <2>3. ASSUME NEW i \in DOMAIN evs, NEW j \in DOMAIN evs, evs[i].n = evs[j].n PROVE i = j
    <3>1. ~(i < j) /\ ~(j < i)
      BY <1>1, <2>2, <2>3 DEF CallsInOrder
    <3>2. QED
      BY <2>2, <3>1
  <2>4. ASSUME NEW it \in OfEvents(items, "message_merged")
        PROVE  \E i \in OfKind(evs, "message_end") : it.id[2] = evs[i].n
    BY <1>5, <2>1, <2>4 DEF EndItem, OfKind
  <2>5. ASSUME NEW i \in OfKind(evs, "message_end")
        PROVE  LET opening == Opening(evs, i) IN
               /\ \A m \in Merged(evs, items, i) :
                    /\ m.text = evs[i].text
                    /\ m.from \in (IF opening = {} THEN {0} ELSE {evs[j].n : j \in opening})
                    /\ m.text # <<>> \/ Slow(evs, i) # {}
               /\ evs[i].text # <<>> \/ (opening # {} /\ Slow(evs, i) = opening) => Merged(evs, items, i) # {}
    <3> DEFINE opening == Opening(evs, i)
    <3>1. i \in DOMAIN evs /\ evs[i].kind = "message_end"
      BY DEF OfKind
    <3>2. ASSUME NEW m \in Merged(evs, items, i) PROVE EndItem(evs, i, m)
      <4>1. m \in items /\ OfEnd(m) /\ m.id[2] = evs[i].n
        BY <2>1 DEF Merged
      <4>2. PICK j \in DOMAIN evs : EndItem(evs, j, m)
        BY <1>5, <4>1
      <4>3. evs[j].n = evs[i].n
        BY <4>1, <4>2 DEF EndItem
      <4>4. j = i
        BY <2>3, <3>1, <4>3
      <4>5. QED
        BY <4>2, <4>4
    <3>3. ASSUME Shown(evs, i) PROVE Merged(evs, items, i) # {}
      <4>1. PICK m \in items : OfEnd(m) /\ EndItem(evs, i, m)
        BY <1>5, <3>1, <3>3
      <4>2. m \in Merged(evs, items, i)
        BY <2>1, <4>1 DEF Merged, EndItem
      <4>3. QED
        BY <4>2
    <3>4. evs[i].text # <<>> => Shown(evs, i)
      BY <3>1 DEF Shown
    <3>5. ASSUME NEW m \in Merged(evs, items, i)
          PROVE  /\ m.text = evs[i].text
                 /\ m.from \in (IF opening = {} THEN {0} ELSE {evs[j].n : j \in opening})
                 /\ m.text # <<>> \/ Slow(evs, i) # {}
      <4>1. m.text = evs[i].text
        BY <3>2 DEF EndItem
      <4>2. CASE \E j \in 1 .. i - 1 : /\ Opened(evs, evs[i].agent, i - 1, j) /\ m.from = evs[j].n
                                       /\ evs[i].text # <<>> \/ evs[i].time > evs[j].time
        <5>1. PICK j \in 1 .. i - 1 : /\ Opened(evs, evs[i].agent, i - 1, j) /\ m.from = evs[j].n
                                      /\ evs[i].text # <<>> \/ evs[i].time > evs[j].time
          BY <4>2
        <5>2. j \in opening /\ j \in DOMAIN evs
          BY <1>1, <1>3, <3>1, <5>1, OpenedIsOpening
        <5>3. evs[i].text # <<>> \/ evs[j].time < evs[i].time
          BY <2>2, <3>1, <5>1, <5>2
        <5>4. QED
          BY <4>1, <5>1, <5>2, <5>3 DEF Slow
      <4>3. CASE Unopened(evs, evs[i].agent, i - 1) /\ m.from = 0 /\ evs[i].text # <<>>
        <5>1. opening = {}
          BY <1>1, <4>3, OpenedIsOpening
        <5>2. QED
          BY <4>1, <4>3, <5>1
      <4>4. QED
        BY <3>2, <4>2, <4>3 DEF EndItem
    <3>6. ASSUME opening # {}, Slow(evs, i) = opening PROVE Shown(evs, i)
      <4>1. PICK j \in opening : j \in 1 .. i - 1 /\ Opened(evs, evs[i].agent, i - 1, j)
        BY <1>1, <3>6, OpenedIsOpening
      <4>2. evs[j].time < evs[i].time /\ j \in DOMAIN evs
        BY <1>1, <1>3, <3>1, <3>6, <4>1 DEF Slow
      <4>3. evs[i].time > evs[j].time
        BY <2>2, <3>1, <4>2
      <4>4. QED
        BY <3>1, <4>1, <4>3 DEF Shown
    <3>7. QED
      BY <3>3, <3>4, <3>5, <3>6
  <2> HIDE DEF items
  <2>6. QED
    BY <2>4, <2>5 DEF MessagesRestored
<1>9. QED
  BY <1>6, <1>7, <1>8 DEF items

\* A page that has just been loaded shows each call with its start, and each
\* message with the text that came with its end and with a start that no end
\* has followed: its own, unless the end of another was lost before it.
THEOREM ReloadsShowWhatIsStored == Spec => []RestoredIsRight
<1>1. Typed /\ CallsInv => RestoredIsRight
  BY ListIsRestored DEF Typed, CallsInv, RestoredIsRight, Intact, Whole
<1>2. QED
  BY <1>1, TypesHoldInitially, TypesKept, CallsInvInitially, CallsInvKept, PTL DEF Spec
=============================================================================
