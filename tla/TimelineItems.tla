--------------------------- MODULE TimelineItems ----------------------------
(***************************************************************************)
(* How the page (internal/ui/assets/app.js) turns the events it has stored *)
(* into the items of its timeline: starts are paired with ends through two *)
(* maps, pendingMessages and pendingTools, which outlive the build and are *)
(* also written by the listener for message_update.                        *)
(*                                                                         *)
(* A text is the sequence of the parts it is made of, each the serial      *)
(* number of the message it belongs to.  One tick of the clock is more     *)
(* than a second.                                                          *)
(***************************************************************************)
EXTENDS Naturals, Sequences

CONSTANTS
  Agents,
  Roles         \* the roles that messages have

Kinds == {"turn_start", "turn_end", "message_start", "message_end", "tool_execution_start",
          "tool_execution_end", "agent_error", "agent_interrupted", "provider_retry"}
AnyRole == Roles \cup {"", "assistant", "unknown"}

\* An entry of timelineEvents: its identifier, the call it is about, the role
\* and the text it carries.  data is FALSE once the payload has been released.
Event == [n : Nat, agent : Agents, kind : Kinds, call : Nat, role : AnyRole,
          text : Seq(Nat), time : Nat, data : BOOLEAN]

\* An entry of pendingMessages; start 0 stands for a startEvent of null.
Buffer == [agent : Agents, role : AnyRole, text : Seq(Nat), thinking : Seq(Nat),
           time : Nat, start : Nat]

\* What is displayed: id tells the items of a build apart, from is the event an
\* item was opened by.
Item == [id : {"event", "flushed", "running"} \X Nat, agent : Agents, time : Nat, from : Nat,
         kind : Kinds \cup {"tool_merged", "tool_running", "message_merged"}, role : AnyRole,
         text : Seq(Nat), slow : BOOLEAN, data : BOOLEAN]

BufferOf(msgs, a) == {m \in msgs : m.agent = a}
Worth(m, now) == m.text # <<>> \/ m.thinking # <<>> \/ now > m.time

-----------------------------------------------------------------------------
(* One step of the loop.  A build in progress is its items, the two maps,  *)
(* and whether it has thrown: what the maps went through stays.            *)

Throw(b) == [b EXCEPT !.thrown = TRUE]
Shows(b, items) == [b EXCEPT !.items = @ \cup items]

Message(id, m, kind, role, text, slow) ==
  [id |-> id, agent |-> m.agent, kind |-> kind, time |-> m.time, from |-> m.start,
   role |-> role, text |-> text, slow |-> slow, data |-> TRUE]

Plain(ev, kind, start) ==
  [id |-> <<"event", ev.n>>, agent |-> ev.agent, kind |-> kind, time |-> start.time, from |-> start.n,
   role |-> ev.role, text |-> ev.text, slow |-> ev.time > start.time, data |-> ev.data]

\* Mutant: an end is paired with whatever its agent has running.
StartsOfAgent(tools, ev) == {s \in tools : s.agent = ev.agent}

StartsOf(tools, ev) == {s \in tools : s.call = ev.call}

ToolStart(b, ev) ==
  IF ~ev.data THEN Throw(b)
  ELSE [b EXCEPT !.tools = (@ \ StartsOf(@, ev)) \cup {ev}]

\* An end without a start is shown with what it has.
ToolEnd(b, ev) ==
  LET starts == StartsOf(b.tools, ev) IN
  IF ~ev.data THEN Throw(b)
  ELSE [Shows(b, IF starts = {} THEN {Plain(ev, "tool_merged", [n |-> 0, time |-> ev.time])}
                 ELSE {Plain(ev, "tool_merged", s) : s \in starts})
        EXCEPT !.tools = @ \ starts]

\* A buffer that another message_start has opened, or none, is shown as it is,
\* and stays.
MessageStart(b, ev, now) ==
  LET old == BufferOf(b.msgs, ev.agent)
      orphans == {m \in old : m.start # ev.n /\ Worth(m, now)}
  IN CASE old # {} ->
            Shows(b, {Message(<<"flushed", ev.n>>, m, "message_merged", m.role, m.thinking \o m.text,
                              ev.time > m.time) : m \in orphans})
       [] old = {} /\ ev.data ->
            [b EXCEPT !.msgs = @ \cup {[agent |-> ev.agent, role |-> ev.role, text |-> ev.text,
                                        thinking |-> <<>>, time |-> ev.time, start |-> ev.n]}]
       [] OTHER -> Throw(b)

\* Mutant: the text that came with the end is not looked at.
EndTextBuffered(m, ev) == m.thinking \o m.text

\* What was streamed wins over the text that came with the end.
EndText(m, ev) == m.thinking \o (IF m.text # <<>> THEN m.text ELSE ev.text)

\* The buffer is taken out before the payload is read.
MessageEnd(b, ev) ==
  LET old == BufferOf(b.msgs, ev.agent)
      whole == {Message(<<"event", ev.n>>, m, "message_merged", ev.role, EndText(m, ev), ev.time > m.time) :
                  m \in old}
      taken == [b EXCEPT !.msgs = @ \ old]
  IN CASE old = {} /\ (~ev.data \/ ev.text = <<>>) -> b
       [] old = {} /\ ev.data /\ ev.text # <<>> ->
            Shows(b, {Plain(ev, "message_merged", [n |-> 0, time |-> ev.time])})
       [] old # {} /\ ~ev.data -> Throw(taken)
       [] OTHER -> Shows(taken, {i \in whole : i.text # <<>> \/ i.slow})

Markers == {"agent_error", "provider_retry", "agent_interrupted"}

BuildStep(b, ev, now) ==
  IF b.thrown THEN b
  ELSE CASE ev.kind = "tool_execution_start" -> ToolStart(b, ev)
         [] ev.kind = "tool_execution_end" -> ToolEnd(b, ev)
         [] ev.kind = "message_start" -> MessageStart(b, ev, now)
         [] ev.kind = "message_end" -> MessageEnd(b, ev)
         [] ev.kind \in Markers -> Shows(b, {Plain(ev, ev.kind, ev)})
         [] OTHER -> b

\* What is left in the maps is in progress.
InProgress(b, now) ==
  {[Plain(s, "tool_running", s) EXCEPT !.id = <<"running", s.n>>] : s \in b.tools}
    \cup {Message(<<"running", m.start>>, m, "message_merged", m.role, m.thinking \o m.text, now > m.time) :
            m \in {m \in b.msgs : Worth(m, now)}}

Finished(b, now) == IF b.thrown THEN b ELSE Shows(b, InProgress(b, now))

\* The loop: the build after each of the events.
Building(events, msgs, tools, now) ==
  LET build[k \in 0 .. Len(events)] ==
        IF k = 0 THEN [items |-> {}, msgs |-> msgs, tools |-> tools, thrown |-> FALSE]
        ELSE BuildStep(build[k - 1], events[k], now)
  IN build

\* The order of the items, newest first, is left out.
BuildTimelineItems(events, msgs, tools, now) ==
  Finished(Building(events, msgs, tools, now)[Len(events)], now)

ApplyTimelineFilters(items, agentFilter, eventFilter) ==
  {i \in items :
     /\ agentFilter \in {"all", i.agent}
     /\ CASE eventFilter \in {"user", "assistant"} -> i.kind = "message_merged" /\ i.role = eventFilter
          [] eventFilter = "reasoning" -> i.kind = "message_merged"
          [] eventFilter = "tools" -> i.kind \in {"tool_merged", "tool_running"}
          [] eventFilter = "errors" -> i.kind \in Markers
          [] OTHER -> TRUE}

\* buildTimelineEntry: the row of an error or a retry is made of its payload.
RowThrows(item) == item.kind \in {"agent_error", "provider_retry"} /\ ~item.data
=============================================================================
