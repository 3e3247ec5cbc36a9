------------------------ MODULE TimelineItemsProofs -------------------------
(***************************************************************************)
(* What a build of the timeline computes, for every list of events: by     *)
(* induction over the loop.  The induction theorems of the library take a  *)
(* predicate as a parameter; here the predicate is the set of the places   *)
(* where it holds, and the least place outside of it leads to the          *)
(* contradiction.                                                          *)
(***************************************************************************)
EXTENDS TimelineItems, WellFoundedInduction, TLAPS

-----------------------------------------------------------------------------
(* Induction.                                                              *)

\* Every set of numbers has a least element.
LEMMA LeastNumber ==
  ASSUME NEW T \in SUBSET Nat, T # {}
  PROVE  \E m \in T : \A k \in T : m <= k
<1> DEFINE R == OpToRel(<, Nat)
<1>1. IsWellFoundedOn(R, Nat)
  BY NatLessThanWellFounded
<1>2. \A x, y \in Nat : <<x, y>> \in R <=> x < y
  BY DEF OpToRel
<1> HIDE DEF R
<1>3. PICK m \in T : \A k \in T : ~ (<<k, m>> \in R)
  BY <1>1, WFMin
<1>4. m \in Nat /\ \A k \in T : k \in Nat /\ ~(k < m)
  BY <1>2, <1>3
<1>5. QED
  BY <1>3, <1>4

\* What holds at the start, and at k + 1 when it holds at k, holds throughout.
LEMMA UpTo ==
  ASSUME NEW n \in Nat, NEW T, 0 \in T, \A k \in 0 .. n : k \in T /\ k + 1 <= n => k + 1 \in T
  PROVE  0 .. n \subseteq T
<1> SUFFICES ASSUME ~(0 .. n \subseteq T) PROVE FALSE
  OBVIOUS
<1> DEFINE C == (0 .. n) \ T
<1>1. C \in SUBSET Nat /\ C # {}
  OBVIOUS
<1> HIDE DEF C
<1>2. PICK m \in C : \A k \in C : m <= k
  BY <1>1, LeastNumber
<1>3. m \in 0 .. n /\ m \notin T /\ m # 0
  BY <1>2 DEF C
<1>4. m - 1 \in 0 .. n /\ (m - 1) + 1 = m /\ ~(m <= m - 1)
  BY <1>3
<1>5. m - 1 \in T
  BY <1>2, <1>4 DEF C
<1>6. QED
  BY <1>3, <1>4, <1>5

-----------------------------------------------------------------------------
(* The loop.                                                               *)

Before(msgs, tools) == [items |-> {}, msgs |-> msgs, tools |-> tools, thrown |-> FALSE]

\* f has gone through the loop for the first n events.
Looped(f, n, evs, msgs, tools, now) ==
  f = [k \in 0 .. n |-> IF k = 0 THEN Before(msgs, tools) ELSE BuildStep(f[k - 1], evs[k], now)]

\* There is such a function for every list.
LEMMA LoopsExist ==
  ASSUME NEW evs, Len(evs) \in Nat, NEW msgs, NEW tools, NEW now
  PROVE  \E f : Looped(f, Len(evs), evs, msgs, tools, now)
<1> DEFINE Has(n) == \E f : Looped(f, n, evs, msgs, tools, now)
           T == {n \in 0 .. Len(evs) : Has(n)}
<1>1. Has(0)
  <2>1. Looped([k \in 0 .. 0 |-> Before(msgs, tools)], 0, evs, msgs, tools, now)
    BY DEF Looped
  <2>2. QED
    BY <2>1
<1>2. ASSUME NEW n \in 0 .. Len(evs), Has(n) PROVE Has(n + 1)
  <2>1. PICK f : Looped(f, n, evs, msgs, tools, now)
    BY <1>2
  <2> DEFINE g == [k \in 0 .. n + 1 |-> IF k = n + 1 THEN BuildStep(f[n], evs[n + 1], now) ELSE f[k]]
  <2>2. ASSUME NEW k \in 0 .. n + 1
        PROVE  g[k] = IF k = 0 THEN Before(msgs, tools) ELSE BuildStep(g[k - 1], evs[k], now)
    <3>1. CASE k = n + 1
      BY <3>1
    <3>2. CASE k # n + 1
      <4>1. k \in 0 .. n /\ g[k] = f[k] /\ (k # 0 => g[k - 1] = f[k - 1])
        BY <3>2
      <4>2. f[k] = IF k = 0 THEN Before(msgs, tools) ELSE BuildStep(f[k - 1], evs[k], now)
        BY <2>1, <4>1 DEF Looped
      <4>3. QED
        BY <4>1, <4>2
    <3>3. QED
      BY <3>1, <3>2
  <2>3. DOMAIN g = 0 .. n + 1 /\ g = [k \in DOMAIN g |-> g[k]]
    OBVIOUS
  <2> HIDE DEF g
  <2>4. Looped(g, n + 1, evs, msgs, tools, now)
    BY <2>2, <2>3 DEF Looped
  <2>5. QED
    BY <2>4
<1> HIDE DEF Has
<1>3. 0 .. Len(evs) \subseteq T
  <2>1. 0 \in T
    BY <1>1
  <2>2. \A k \in 0 .. Len(evs) : k \in T /\ k + 1 <= Len(evs) => k + 1 \in T
    BY <1>2
  <2> HIDE DEF T
  <2>3. QED
    BY <2>1, <2>2, UpTo
<1>4. QED
  BY <1>3 DEF Has

\* The build before the first event, and after each.
LEMMA BuildingUnfolds ==
  ASSUME NEW evs, Len(evs) \in Nat, NEW msgs, NEW tools, NEW now
  PROVE  LET b == Building(evs, msgs, tools, now) IN
           /\ b[0] = Before(msgs, tools)
           /\ \A k \in 1 .. Len(evs) : b[k] = BuildStep(b[k - 1], evs[k], now)
<1> DEFINE b == Building(evs, msgs, tools, now)
<1>1. b = CHOOSE f : Looped(f, Len(evs), evs, msgs, tools, now)
  BY DEF Building, Looped, Before
<1> HIDE DEF b
<1>2. Looped(b, Len(evs), evs, msgs, tools, now)
  BY <1>1, LoopsExist
<1>3. \A k \in 0 .. Len(evs) : b[k] = IF k = 0 THEN Before(msgs, tools) ELSE BuildStep(b[k - 1], evs[k], now)
  BY <1>2 DEF Looped
<1>4. QED
  BY <1>3 DEF b

-----------------------------------------------------------------------------
(* Types.                                                                  *)

OneEach(msgs) == \A m, o \in msgs : m.agent = o.agent => m = o

Build == [items : SUBSET Item, msgs : SUBSET Buffer, tools : SUBSET Event, thrown : BOOLEAN]

Typical(b) == b \in Build /\ OneEach(b.msgs)

\* An item of an event.
LEMMA PlainIsItem ==
  ASSUME NEW ev \in Event, NEW kind \in Kinds \cup {"tool_merged", "tool_running", "message_merged"},
         NEW start, start.n \in Nat, start.time \in Nat
  PROVE  /\ Plain(ev, kind, start) \in Item
         /\ [Plain(ev, kind, start) EXCEPT !.id = <<"running", start.n>>] \in Item
<1> DEFINE slow == ev.time > start.time
<1>1. slow \in BOOLEAN
  OBVIOUS
<1>2. Plain(ev, kind, start) =
        [id |-> <<"event", ev.n>>, agent |-> ev.agent, kind |-> kind, time |-> start.time, from |-> start.n,
         role |-> ev.role, text |-> ev.text, slow |-> slow, data |-> ev.data]
  BY DEF Plain
<1> HIDE DEF slow
<1>3. /\ <<"event", ev.n>> \in {"event", "flushed", "running"} \X Nat
      /\ <<"running", start.n>> \in {"event", "flushed", "running"} \X Nat
      /\ ev.agent \in Agents /\ ev.role \in AnyRole /\ ev.text \in Seq(Nat) /\ ev.data \in BOOLEAN
  BY DEF Event
<1>4. QED
  BY <1>1, <1>2, <1>3 DEF Item

\* An item of a buffer.
LEMMA MessageIsItem ==
  ASSUME NEW m \in Buffer, NEW tag \in {"event", "flushed", "running"}, NEW n \in Nat, NEW role \in AnyRole,
         NEW text \in Seq(Nat), NEW slow \in BOOLEAN
  PROVE  Message(<<tag, n>>, m, "message_merged", role, text, slow) \in Item
BY DEF Message, Item, Buffer

\* One more event.
LEMMA StepIsTypical ==
  ASSUME NEW b, Typical(b), NEW ev \in Event, NEW now \in Nat
  PROVE  Typical(BuildStep(b, ev, now))
<1> DEFINE old == BufferOf(b.msgs, ev.agent)
<1>1. /\ b = [items |-> b.items, msgs |-> b.msgs, tools |-> b.tools, thrown |-> b.thrown]
      /\ b.items \subseteq Item /\ b.msgs \subseteq Buffer /\ b.tools \subseteq Event /\ b.thrown \in BOOLEAN
      /\ OneEach(b.msgs)
  BY DEF Typical, Build
<1>2. ev.n \in Nat /\ ev.agent \in Agents /\ ev.kind \in Kinds /\ ev.time \in Nat /\ ev.text \in Seq(Nat)
      /\ ev.role \in AnyRole /\ ev.data \in BOOLEAN
  BY DEF Event
<1>3. ASSUME NEW items \in SUBSET Item, NEW msgs \in SUBSET Buffer, NEW tools \in SUBSET Event,
             NEW thrown \in BOOLEAN, OneEach(msgs)
      PROVE  Typical([items |-> items, msgs |-> msgs, tools |-> tools, thrown |-> thrown])
  BY <1>3 DEF Typical, Build
<1>4. ASSUME NEW c, Typical(c) PROVE Typical(Throw(c))
  <2>1. Throw(c) \in Build /\ Throw(c).msgs = c.msgs
    BY <1>4 DEF Throw, Typical, Build
  <2>2. QED
    BY <1>4, <2>1 DEF Typical
<1>5. ASSUME NEW more \in SUBSET Item PROVE Typical(Shows(b, more))
  <2>1. Shows(b, more) = [items |-> b.items \cup more, msgs |-> b.msgs, tools |-> b.tools, thrown |-> b.thrown]
    BY <1>1 DEF Shows
  <2>2. QED
    BY <1>1, <1>3, <2>1
<1>6. Typical(ToolStart(b, ev))
  <2> DEFINE tools == (b.tools \ StartsOf(b.tools, ev)) \cup {ev}
  <2>1. ev.data => ToolStart(b, ev) = [items |-> b.items, msgs |-> b.msgs, tools |-> tools, thrown |-> b.thrown]
    BY <1>1 DEF ToolStart
  <2>2. ~ev.data => ToolStart(b, ev) = Throw(b)
    BY DEF ToolStart
  <2>3. QED
    BY <1>1, <1>2, <1>3, <1>4, <2>1, <2>2
<1>7. Typical(ToolEnd(b, ev))
  <2> DEFINE starts == StartsOf(b.tools, ev)
             more == IF starts = {} THEN {Plain(ev, "tool_merged", [n |-> 0, time |-> ev.time])}
                     ELSE {Plain(ev, "tool_merged", s) : s \in starts}
  <2>1. more \subseteq Item
    <3>1. Plain(ev, "tool_merged", [n |-> 0, time |-> ev.time]) \in Item
      BY <1>2, PlainIsItem
    <3>2. ASSUME NEW s \in starts PROVE Plain(ev, "tool_merged", s) \in Item
      <4>1. s.n \in Nat /\ s.time \in Nat
        BY <1>1, <3>2 DEF StartsOf, Event
      <4>2. QED
        BY <4>1, PlainIsItem
    <3>3. QED
      BY <3>1, <3>2
  <2>2. ev.data => ToolEnd(b, ev) = [items |-> b.items \cup more, msgs |-> b.msgs, tools |-> b.tools \ starts,
                                     thrown |-> b.thrown]
    <3> HIDE DEF more
    <3>1. ev.data => ToolEnd(b, ev) = [Shows(b, more) EXCEPT !.tools = @ \ starts]
      BY DEF ToolEnd, more
    <3> HIDE DEF starts
    <3>2. QED
      BY <1>1, <3>1 DEF Shows
  <2>3. ~ev.data => ToolEnd(b, ev) = Throw(b)
    BY DEF ToolEnd
  <2> HIDE DEF more
  <2>4. QED
    BY <1>1, <1>2, <1>3, <1>4, <2>1, <2>2, <2>3
<1>8. Typical(MessageStart(b, ev, now))
  <2> DEFINE orphans == {m \in old : m.start # ev.n /\ Worth(m, now)}
             more == {Message(<<"flushed", ev.n>>, m, "message_merged", m.role, m.thinking \o m.text,
                              ev.time > m.time) : m \in orphans}
             new == [agent |-> ev.agent, role |-> ev.role, text |-> ev.text, thinking |-> <<>>,
                     time |-> ev.time, start |-> ev.n]
  <2>1. CASE old # {}
    <3>1. ASSUME NEW m \in orphans
          PROVE  Message(<<"flushed", ev.n>>, m, "message_merged", m.role, m.thinking \o m.text,
                         ev.time > m.time) \in Item
      <4>1. m \in Buffer /\ m.role \in AnyRole /\ m.thinking \in Seq(Nat) /\ m.text \in Seq(Nat) /\ m.time \in Nat
        BY <1>1, <3>1 DEF BufferOf, Buffer
      <4>2. m.thinking \o m.text \in Seq(Nat) /\ (ev.time > m.time) \in BOOLEAN
        BY <1>2, <4>1
      <4>3. QED
        BY <1>2, <4>1, <4>2, MessageIsItem
    <3>2. more \subseteq Item
      BY <3>1
    <3>3. MessageStart(b, ev, now) = Shows(b, more)
      BY <2>1 DEF MessageStart
    <3>4. QED
      BY <1>5, <3>2, <3>3
  <2>2. CASE old = {} /\ ev.data
    <3>1. MessageStart(b, ev, now) = [items |-> b.items, msgs |-> b.msgs \cup {new}, tools |-> b.tools,
                                      thrown |-> b.thrown]
      BY <1>1, <2>2 DEF MessageStart
    <3>2. new \in Buffer /\ new.agent = ev.agent
      BY <1>2 DEF Buffer
    <3>3. \A m \in b.msgs : m.agent # ev.agent
      BY <2>2 DEF BufferOf
    <3> HIDE DEF new
    <3>4. OneEach(b.msgs \cup {new})
      BY <1>1, <3>2, <3>3 DEF OneEach
    <3>5. QED
      BY <1>1, <1>3, <3>1, <3>2, <3>4
  <2>3. CASE old = {} /\ ~ev.data
    BY <1>4, <2>3 DEF MessageStart
  <2>4. QED
    BY <1>2, <2>1, <2>2, <2>3
<1>9. Typical(MessageEnd(b, ev))
  <2> DEFINE whole == {Message(<<"event", ev.n>>, m, "message_merged", ev.role, EndText(m, ev), ev.time > m.time) :
                          m \in old}
             taken == [b EXCEPT !.msgs = @ \ old]
             more == {i \in whole : i.text # <<>> \/ i.slow}
  <2>1. CASE old = {}
    <3>1. CASE ~ev.data \/ ev.text = <<>>
      <4>1. MessageEnd(b, ev) = b
        BY <2>1, <3>1 DEF MessageEnd
      <4>2. QED
        BY <4>1
    <3>2. CASE ev.data /\ ev.text # <<>>
      <4>1. MessageEnd(b, ev) = Shows(b, {Plain(ev, "message_merged", [n |-> 0, time |-> ev.time])})
        BY <2>1, <3>2 DEF MessageEnd
      <4>2. Plain(ev, "message_merged", [n |-> 0, time |-> ev.time]) \in Item
        BY <1>2, PlainIsItem
      <4>3. QED
        BY <1>5, <4>1, <4>2
    <3>3. QED
      BY <3>1, <3>2
  <2>2. CASE old # {}
    <3>1. ASSUME NEW m \in old
          PROVE  Message(<<"event", ev.n>>, m, "message_merged", ev.role, EndText(m, ev), ev.time > m.time) \in Item
      <4>1. m \in Buffer /\ m.thinking \in Seq(Nat) /\ m.text \in Seq(Nat) /\ m.time \in Nat
        BY <1>1, <3>1 DEF BufferOf, Buffer
      <4>2. EndText(m, ev) \in Seq(Nat) /\ (ev.time > m.time) \in BOOLEAN
        BY <1>2, <4>1 DEF EndText
      <4>3. QED
        BY <1>2, <4>1, <4>2, MessageIsItem
    <3>2. more \subseteq Item
      BY <3>1
    <3>3. taken = [items |-> b.items, msgs |-> b.msgs \ old, tools |-> b.tools, thrown |-> b.thrown]
          /\ OneEach(b.msgs \ old)
      BY <1>1 DEF OneEach
    <3>4. ~ev.data => MessageEnd(b, ev) = Throw(taken)
      BY <2>2 DEF MessageEnd
    <3>5. ev.data => MessageEnd(b, ev) = Shows(taken, more)
      BY <2>2 DEF MessageEnd
    <3>6. Typical(taken)
      BY <1>1, <1>3, <3>3
    <3> HIDE DEF taken, more, old
    <3>7. Typical(Shows(taken, more))
      <4>1. Shows(taken, more) \in Build /\ Shows(taken, more).msgs = taken.msgs
        BY <3>2, <3>6 DEF Shows, Typical, Build
      <4>2. QED
        BY <3>6, <4>1 DEF Typical
    <3>8. QED
      BY <1>2, <1>4, <3>4, <3>5, <3>6, <3>7
  <2>3. QED
    BY <2>1, <2>2
<1>10. CASE ~b.thrown /\ ev.kind \in Markers
  <2>1. BuildStep(b, ev, now) = Shows(b, {Plain(ev, ev.kind, ev)})
    BY <1>10 DEF BuildStep, Markers
  <2>2. Plain(ev, ev.kind, ev) \in Item
    BY <1>2, PlainIsItem
  <2>3. QED
    BY <1>5, <2>1, <2>2
<1>11. CASE b.thrown \/ ev.kind \notin Markers
  <2>1. \/ BuildStep(b, ev, now) = b \/ BuildStep(b, ev, now) = ToolStart(b, ev)
        \/ BuildStep(b, ev, now) = ToolEnd(b, ev) \/ BuildStep(b, ev, now) = MessageStart(b, ev, now)
        \/ BuildStep(b, ev, now) = MessageEnd(b, ev)
    BY <1>11 DEF BuildStep
  <2>2. QED
    BY <1>6, <1>7, <1>8, <1>9, <2>1
<1>12. QED
  BY <1>1, <1>10, <1>11

\* What a build returns, and leaves in the maps, has its types.
LEMMA BuildIsTypical ==
  ASSUME NEW evs \in Seq(Event), NEW msgs \in SUBSET Buffer, OneEach(msgs), NEW tools \in SUBSET Event, NEW now \in Nat
  PROVE  /\ \A k \in 0 .. Len(evs) : Typical(Building(evs, msgs, tools, now)[k])
         /\ Typical(BuildTimelineItems(evs, msgs, tools, now))
<1> DEFINE b == Building(evs, msgs, tools, now)
           n == Len(evs)
           T == {k \in 0 .. n : Typical(b[k])}
<1>1. n \in Nat /\ \A k \in 1 .. n : evs[k] \in Event
  OBVIOUS
<1>2. b[0] = Before(msgs, tools) /\ \A k \in 1 .. n : b[k] = BuildStep(b[k - 1], evs[k], now)
  BY <1>1, BuildingUnfolds
<1> HIDE DEF b, n
<1>3. Typical(b[0])
  BY <1>2 DEF Typical, Build, Before
<1>4. ASSUME NEW k \in 0 .. n, Typical(b[k]), k + 1 <= n PROVE Typical(b[k + 1])
  <2>1. k + 1 \in 1 .. n /\ (k + 1) - 1 = k
    BY <1>1, <1>4
  <2>2. QED
    BY <1>1, <1>2, <1>4, <2>1, StepIsTypical
<1>5. 0 .. n \subseteq T
  <2>1. 0 \in T /\ \A k \in 0 .. n : k \in T /\ k + 1 <= n => k + 1 \in T
    BY <1>1, <1>3, <1>4
  <2> HIDE DEF T
  <2>2. QED
    BY <1>1, <2>1, UpTo
<1> DEFINE c == b[n]
<1>6. Typical(c)
  BY <1>1, <1>5
<1>7. Typical(Finished(c, now))
  <2> HIDE DEF c
  <2>1. c.items \subseteq Item /\ c.tools \subseteq Event /\ c.msgs \subseteq Buffer
    BY <1>6 DEF Typical, Build
  <2>2. ASSUME NEW s \in c.tools PROVE [Plain(s, "tool_running", s) EXCEPT !.id = <<"running", s.n>>] \in Item
    <3>1. s \in Event /\ s.n \in Nat /\ s.time \in Nat
      BY <2>1, <2>2 DEF Event
    <3>2. QED
      BY <3>1, PlainIsItem
  <2>3. ASSUME NEW m \in c.msgs
        PROVE  Message(<<"running", m.start>>, m, "message_merged", m.role, m.thinking \o m.text, now > m.time) \in Item
    <3>1. /\ m \in Buffer /\ m.role \in AnyRole /\ m.thinking \in Seq(Nat) /\ m.text \in Seq(Nat)
          /\ m.time \in Nat /\ m.start \in Nat
      BY <2>1, <2>3 DEF Buffer
    <3>2. m.thinking \o m.text \in Seq(Nat) /\ (now > m.time) \in BOOLEAN
      BY <3>1
    <3>3. QED
      BY <3>1, <3>2, MessageIsItem
  <2>4. InProgress(c, now) \subseteq Item
    BY <2>2, <2>3 DEF InProgress
  <2>5. CASE c.thrown
    BY <1>6, <2>5 DEF Finished
  <2>6. CASE ~c.thrown
    <3>1. Finished(c, now) = Shows(c, InProgress(c, now))
      BY <2>6 DEF Finished
    <3>2. /\ Shows(c, InProgress(c, now)) \in Build
          /\ Shows(c, InProgress(c, now)).msgs = c.msgs
      BY <1>6, <2>4 DEF Shows, Typical, Build
    <3>3. QED
      BY <1>6, <3>1, <3>2 DEF Typical
  <2>7. QED
    BY <2>5, <2>6
<1>8. QED
  BY <1>5, <1>7 DEF BuildTimelineItems, b, n

-----------------------------------------------------------------------------
(* What a step does to the maps and to the items, when the payload is      *)
(* there.                                                                  *)

\* A call start takes the place of the start with its identifier.
LEMMA StartOfCall ==
  ASSUME NEW c \in Build, ~c.thrown, NEW ev \in Event, ev.data, NEW now, ev.kind = "tool_execution_start"
  PROVE  LET d == BuildStep(c, ev, now) IN
           /\ ~d.thrown /\ d.items = c.items /\ d.msgs = c.msgs
           /\ d.tools = (c.tools \ StartsOf(c.tools, ev)) \cup {ev}
BY DEF BuildStep, ToolStart, Markers, Build

\* A call end takes its start out of the map and makes one item, with the start
\* or alone.
LEMMA EndOfCall ==
  ASSUME NEW c \in Build, ~c.thrown, NEW ev \in Event, ev.data, NEW now, ev.kind = "tool_execution_end"
  PROVE  LET d == BuildStep(c, ev, now)
             starts == StartsOf(c.tools, ev)
         IN  /\ ~d.thrown /\ d.msgs = c.msgs /\ d.tools = c.tools \ starts
             /\ d.items = c.items \cup (IF starts = {} THEN {Plain(ev, "tool_merged", [n |-> 0, time |-> ev.time])}
                                       ELSE {Plain(ev, "tool_merged", s) : s \in starts})
BY DEF BuildStep, ToolEnd, Markers, Build, Shows

\* The items of the buffers a message start finds.
Flushed(old, ev, now) ==
  {Message(<<"flushed", ev.n>>, m, "message_merged", m.role, m.thinking \o m.text, ev.time > m.time) :
     m \in {m \in old : m.start # ev.n /\ Worth(m, now)}}

\* They are no calls, and their identifier says that a start made them.
LEMMA FlushedItems ==
  ASSUME NEW old, NEW ev, NEW now, NEW it \in Flushed(old, ev, now)
  PROVE  it.kind = "message_merged" /\ it.id = <<"flushed", ev.n>>
<1>1. PICK m \in old : it = Message(<<"flushed", ev.n>>, m, "message_merged", m.role, m.thinking \o m.text,
                                    ev.time > m.time)
  BY DEF Flushed
<1>2. QED
  BY <1>1 DEF Message

\* A message start that finds a buffer shows it and leaves the maps alone.
LEMMA StartFlushes ==
  ASSUME NEW c \in Build, ~c.thrown, NEW ev \in Event, ev.data, NEW now, ev.kind = "message_start",
         BufferOf(c.msgs, ev.agent) # {}
  PROVE  LET d == BuildStep(c, ev, now)
         IN  /\ ~d.thrown /\ d.tools = c.tools /\ d.msgs = c.msgs
             /\ d.items = c.items \cup Flushed(BufferOf(c.msgs, ev.agent), ev, now)
<1> DEFINE old == BufferOf(c.msgs, ev.agent)
           d == BuildStep(c, ev, now)
<1>1. d = MessageStart(c, ev, now)
  BY DEF BuildStep, Markers
<1>2. d = Shows(c, Flushed(old, ev, now))
  BY <1>1 DEF MessageStart, Flushed
<1> HIDE DEF old, d
<1>3. ~d.thrown /\ d.tools = c.tools /\ d.msgs = c.msgs /\ d.items = c.items \cup Flushed(old, ev, now)
  BY <1>2 DEF Shows, Build
<1>4. QED
  BY <1>3 DEF old, d

\* One that finds none opens one and shows nothing.
LEMMA StartOpens ==
  ASSUME NEW c \in Build, ~c.thrown, NEW ev \in Event, ev.data, NEW now, ev.kind = "message_start",
         BufferOf(c.msgs, ev.agent) = {}
  PROVE  LET d == BuildStep(c, ev, now)
         IN  /\ ~d.thrown /\ d.tools = c.tools /\ d.items = c.items
             /\ d.msgs = c.msgs \cup {[agent |-> ev.agent, role |-> ev.role, text |-> ev.text,
                                      thinking |-> <<>>, time |-> ev.time, start |-> ev.n]}
<1> DEFINE new == [agent |-> ev.agent, role |-> ev.role, text |-> ev.text, thinking |-> <<>>,
                   time |-> ev.time, start |-> ev.n]
           d == BuildStep(c, ev, now)
<1>1. d = MessageStart(c, ev, now)
  BY DEF BuildStep, Markers
<1>2. d = [c EXCEPT !.msgs = @ \cup {new}]
  BY <1>1 DEF MessageStart
<1> HIDE DEF new, d
<1>3. ~d.thrown /\ d.tools = c.tools /\ d.items = c.items /\ d.msgs = c.msgs \cup {new}
  BY <1>2 DEF Build
<1>4. QED
  BY <1>3 DEF new, d

\* A message end takes the buffer out of the map and makes an item when there is
\* a text to show.
LEMMA EndOfMessage ==
  ASSUME NEW c \in Build, ~c.thrown, NEW ev \in Event, ev.data, NEW now, ev.kind = "message_end"
  PROVE  LET d == BuildStep(c, ev, now)
             old == BufferOf(c.msgs, ev.agent)
             whole == {Message(<<"event", ev.n>>, m, "message_merged", ev.role, EndText(m, ev), ev.time > m.time) :
                         m \in old}
         IN  /\ ~d.thrown /\ d.tools = c.tools /\ d.msgs = c.msgs \ old
             /\ d.items = c.items \cup
                  (IF old # {} THEN {i \in whole : i.text # <<>> \/ i.slow}
                   ELSE IF ev.text # <<>> THEN {Plain(ev, "message_merged", [n |-> 0, time |-> ev.time])} ELSE {})
<1> DEFINE old == BufferOf(c.msgs, ev.agent)
           whole == {Message(<<"event", ev.n>>, m, "message_merged", ev.role, EndText(m, ev), ev.time > m.time) :
                       m \in old}
           more == {i \in whole : i.text # <<>> \/ i.slow}
           taken == [c EXCEPT !.msgs = @ \ old]
           d == BuildStep(c, ev, now)
<1>1. d = MessageEnd(c, ev)
  BY DEF BuildStep, Markers
<1>2. CASE old # {}
  <2>1. d = Shows(taken, more)
    BY <1>1, <1>2 DEF MessageEnd
  <2> HIDE DEF more, d
  <2>2. ~d.thrown /\ d.tools = c.tools /\ d.msgs = c.msgs \ old /\ d.items = c.items \cup more
    BY <2>1 DEF Shows, Build
  <2>3. QED
    BY <1>2, <2>2 DEF more, d
<1>3. CASE old = {}
  <2> DEFINE alone == IF ev.text # <<>> THEN {Plain(ev, "message_merged", [n |-> 0, time |-> ev.time])} ELSE {}
  <2>1. d = c \/ d = Shows(c, alone)
    BY <1>1, <1>3 DEF MessageEnd
  <2>2. ev.text # <<>> => d = Shows(c, alone)
    BY <1>1, <1>3 DEF MessageEnd
  <2>3. ev.text = <<>> => alone = {}
    OBVIOUS
  <2> HIDE DEF alone, d
  <2>4. ~d.thrown /\ d.tools = c.tools /\ d.msgs = c.msgs /\ d.items = c.items \cup alone
    BY <2>1, <2>2, <2>3 DEF Shows, Build
  <2>5. QED
    BY <1>3, <2>4 DEF alone, d
<1>4. QED
  BY <1>2, <1>3

\* The other events leave the maps alone.
LEMMA OtherKind ==
  ASSUME NEW c \in Build, ~c.thrown, NEW ev \in Event, NEW now,
         ev.kind \notin {"tool_execution_start", "tool_execution_end", "message_start", "message_end"}
  PROVE  LET d == BuildStep(c, ev, now) IN
           /\ ~d.thrown /\ d.msgs = c.msgs /\ d.tools = c.tools /\ c.items \subseteq d.items
           /\ \A i \in d.items : i \in c.items \/ i.kind \in Markers
<1>1. CASE ev.kind \in Markers
  <2>1. BuildStep(c, ev, now) = Shows(c, {Plain(ev, ev.kind, ev)})
    BY <1>1 DEF BuildStep
  <2>2. Plain(ev, ev.kind, ev).kind \in Markers
    BY <1>1 DEF Plain
  <2>3. QED
    BY <2>1, <2>2 DEF Shows, Build
<1>2. CASE ev.kind \notin Markers
  <2>1. BuildStep(c, ev, now) = c
    BY <1>2 DEF BuildStep
  <2>2. QED
    BY <2>1
<1>3. QED
  BY <1>1, <1>2

-----------------------------------------------------------------------------
(* Calls.                                                                  *)

\* The calls of a list: a call is named after the event that starts it, ends
\* later, and only once.
CallsInOrder(evs) ==
  /\ \A i, j \in DOMAIN evs : i < j => evs[i].n < evs[j].n
  /\ \A i \in DOMAIN evs : evs[i].kind = "tool_execution_start" => evs[i].call = evs[i].n
  /\ \A i, j \in DOMAIN evs :
       evs[i].kind = "tool_execution_end" =>
         /\ evs[i].call < evs[i].n
         /\ evs[j].n = evs[i].call => evs[j].kind = "tool_execution_start"
         /\ evs[j].kind = "tool_execution_end" /\ evs[j].call = evs[i].call => j = i

\* Call c ends, or starts, among the first k events.
Ended(evs, k, c) == \E j \in 1 .. k : evs[j].kind = "tool_execution_end" /\ evs[j].call = c
Started(evs, k, c) == \E j \in 1 .. k : evs[j].kind = "tool_execution_start" /\ evs[j].call = c

\* The item of an end: with the start that the list has, or that was in the map.
PairOf(evs, tools, i, it) ==
  /\ it.id = <<"event", evs[i].n>>
  /\ \/ it.from = evs[i].call /\ (Started(evs, i, evs[i].call) \/ \E s \in tools : s.call = evs[i].call)
     \/ it.from = 0 /\ ~Started(evs, i, evs[i].call)

\* What the build c has paired after k events, when it began with tools.
PairedTo(evs, tools, k, c) ==
  /\ ~c.thrown
  /\ \A s \in c.tools : ~Ended(evs, k, s.call) /\ (s \in tools \/ \E j \in 1 .. k : s = evs[j])
  /\ \A s \in c.tools : s.kind = "tool_execution_start" /\ s.call = s.n
  /\ \A j \in 1 .. k :
       evs[j].kind = "tool_execution_start" /\ ~Ended(evs, k, evs[j].call) => evs[j] \in c.tools
  /\ \A it \in c.items : it.kind # "tool_running"
  /\ \A it \in c.items : it.kind = "tool_merged" =>
       \E i \in 1 .. k : evs[i].kind = "tool_execution_end" /\ PairOf(evs, tools, i, it)
  /\ \A i \in 1 .. k : evs[i].kind = "tool_execution_end" =>
       \E it \in c.items : it.kind = "tool_merged" /\ PairOf(evs, tools, i, it)

\* The first k + 1 events.
LEMMA OneMore ==
  ASSUME NEW k \in Nat
  PROVE  /\ 1 .. k \subseteq 1 .. k + 1 /\ k + 1 \in 1 .. k + 1
         /\ \A j \in 1 .. k + 1 : j = k + 1 \/ j \in 1 .. k
         /\ \A j \in 1 .. k : j < k + 1 /\ j # k + 1
OBVIOUS

\* One more event of a list with all its payloads.
LEMMA StepPairs ==
  ASSUME NEW evs \in Seq(Event), CallsInOrder(evs), \A i \in DOMAIN evs : evs[i].data,
         NEW tools, NEW now, NEW k \in 0 .. Len(evs), k + 1 <= Len(evs), NEW c \in Build, PairedTo(evs, tools, k, c)
  PROVE  PairedTo(evs, tools, k + 1, BuildStep(c, evs[k + 1], now))
<1> DEFINE n == k + 1
           ev == evs[n]
           d == BuildStep(c, ev, now)
<1>1. /\ n \in DOMAIN evs /\ 1 .. n \subseteq DOMAIN evs /\ ev \in Event /\ ev.data /\ ~c.thrown /\ k \in Nat
      /\ \A j \in DOMAIN evs : evs[j] \in Event /\ evs[j].n \in Nat /\ evs[j].call \in Nat /\ j \in Nat
  <2>1. Len(evs) \in Nat /\ DOMAIN evs = 1 .. Len(evs) /\ k \in Nat /\ \A j \in DOMAIN evs : evs[j] \in Event /\ j \in Nat
    OBVIOUS
  <2>2. n \in DOMAIN evs /\ 1 .. n \subseteq DOMAIN evs
    BY <2>1
  <2>3. \A e \in Event : e.n \in Nat /\ e.call \in Nat
    BY DEF Event
  <2>4. ~c.thrown
    BY DEF PairedTo
  <2>5. QED
    BY <2>1, <2>2, <2>3, <2>4
<1>2. /\ 1 .. k \subseteq 1 .. n /\ n \in 1 .. n
      /\ \A j \in 1 .. n : j = n \/ j \in 1 .. k
      /\ \A j \in 1 .. k : j < n /\ j # n /\ j \in DOMAIN evs
  BY <1>1, OneMore
<1> HIDE DEF n, ev, d
<1>3. n \in DOMAIN evs /\ ev = evs[n]
  BY <1>1 DEF ev
<1>4. CASE ev.kind = "tool_execution_start"
  <2>1. /\ ~d.thrown /\ d.items = c.items
        /\ d.tools = (c.tools \ StartsOf(c.tools, ev)) \cup {ev}
    BY <1>1, <1>4, StartOfCall DEF d
  <2>2. ev.call = ev.n
    BY <1>3, <1>4 DEF CallsInOrder
  <2>3. \A x : Ended(evs, n, x) <=> Ended(evs, k, x)
    BY <1>2, <1>3, <1>4 DEF Ended
  <2>4. ~Ended(evs, n, ev.call)
    <3> SUFFICES ASSUME NEW j \in 1 .. k, evs[j].kind = "tool_execution_end", evs[j].call = ev.n PROVE FALSE
      BY <2>2, <2>3 DEF Ended
    <3>1. evs[j].call < evs[j].n /\ evs[j].n < evs[n].n
      BY <1>2, <1>3 DEF CallsInOrder
    <3>2. QED
      BY <1>1, <1>2, <1>3, <3>1
  <2>5. \A s \in d.tools : /\ ~Ended(evs, n, s.call) /\ (s \in tools \/ \E j \in 1 .. n : s = evs[j])
                          /\ s.kind = "tool_execution_start" /\ s.call = s.n
    BY <1>2, <1>3, <1>4, <2>1, <2>2, <2>3, <2>4 DEF PairedTo
  <2>6. ASSUME NEW j \in 1 .. n, evs[j].kind = "tool_execution_start", ~Ended(evs, n, evs[j].call)
        PROVE  evs[j] \in d.tools
    <3>1. CASE j = n
      BY <1>3, <2>1, <3>1
    <3>2. CASE j \in 1 .. k
      <4>1. evs[j] \in c.tools
        BY <2>3, <2>6, <3>2 DEF PairedTo
      <4>2. evs[j].call = evs[j].n /\ evs[j].n < evs[n].n
        BY <1>2, <1>3, <2>6, <3>2 DEF CallsInOrder
      <4>3. evs[j].call # ev.call
        BY <1>1, <1>2, <1>3, <2>2, <3>2, <4>2
      <4>4. QED
        BY <2>1, <4>1, <4>3 DEF StartsOf
    <3>3. QED
      BY <1>2, <3>1, <3>2
  <2>7. /\ \A it \in d.items : it.kind # "tool_running"
        /\ \A it \in d.items : it.kind = "tool_merged" =>
             \E i \in 1 .. n : evs[i].kind = "tool_execution_end" /\ PairOf(evs, tools, i, it)
        /\ \A i \in 1 .. n : evs[i].kind = "tool_execution_end" =>
             \E it \in d.items : it.kind = "tool_merged" /\ PairOf(evs, tools, i, it)
    BY <1>2, <1>3, <1>4, <2>1 DEF PairedTo
  <2>8. QED
    BY <2>1, <2>5, <2>6, <2>7 DEF PairedTo, d, ev, n
<1>5. CASE ev.kind = "tool_execution_end"
  <2> DEFINE starts == StartsOf(c.tools, ev)
             more == IF starts = {} THEN {Plain(ev, "tool_merged", [n |-> 0, time |-> ev.time])}
                     ELSE {Plain(ev, "tool_merged", s) : s \in starts}
  <2>1. ~d.thrown /\ d.tools = c.tools \ starts /\ d.items = c.items \cup more
    BY <1>1, <1>5, EndOfCall DEF d
  <2>2. \A x : Ended(evs, n, x) <=> Ended(evs, k, x) \/ x = ev.call
    BY <1>2, <1>3, <1>5 DEF Ended
  <2>3. ~Ended(evs, k, ev.call)
    BY <1>2, <1>3, <1>5 DEF Ended, CallsInOrder
  <2>4. \A s \in d.tools : /\ ~Ended(evs, n, s.call) /\ (s \in tools \/ \E j \in 1 .. n : s = evs[j])
                          /\ s.kind = "tool_execution_start" /\ s.call = s.n
    BY <1>2, <2>1, <2>2 DEF PairedTo, StartsOf
  <2>5. ASSUME NEW j \in 1 .. n, evs[j].kind = "tool_execution_start", ~Ended(evs, n, evs[j].call)
        PROVE  evs[j] \in d.tools
    BY <1>2, <1>3, <1>5, <2>1, <2>2, <2>5 DEF PairedTo, StartsOf
  <2>6. \A it \in more : it.kind = "tool_merged" /\ PairOf(evs, tools, n, it)
    <3>1. CASE starts = {}
      <4>1. ~Started(evs, n, ev.call)
        <5> SUFFICES ASSUME NEW j \in 1 .. n, evs[j].kind = "tool_execution_start", evs[j].call = ev.call PROVE FALSE
          BY DEF Started
        <5>1. j \in 1 .. k
          BY <1>2, <1>3, <1>5
        <5>2. evs[j] \in starts
          BY <2>3, <5>1 DEF PairedTo, StartsOf
        <5>3. QED
          BY <3>1, <5>2
      <4>2. LET it == Plain(ev, "tool_merged", [n |-> 0, time |-> ev.time]) IN
              it.kind = "tool_merged" /\ it.id = <<"event", evs[n].n>> /\ it.from = 0
        BY <1>3 DEF Plain
      <4>3. QED
        BY <1>3, <3>1, <4>1, <4>2 DEF PairOf
    <3>2. CASE starts # {}
      <4> SUFFICES ASSUME NEW s \in starts
                   PROVE  LET it == Plain(ev, "tool_merged", s) IN it.kind = "tool_merged" /\ PairOf(evs, tools, n, it)
        BY <3>2
      <4>1. s \in c.tools /\ s.call = ev.call /\ s.kind = "tool_execution_start" /\ s.call = s.n
        BY DEF PairedTo, StartsOf
      <4>2. s \in tools \/ \E j \in 1 .. n : s = evs[j]
        BY <1>2, <4>1 DEF PairedTo
      <4>3. LET it == Plain(ev, "tool_merged", s) IN
              it.kind = "tool_merged" /\ it.id = <<"event", evs[n].n>> /\ it.from = evs[n].call
        BY <1>3, <4>1 DEF Plain
      <4>4. Started(evs, n, evs[n].call) \/ \E t \in tools : t.call = evs[n].call
        BY <1>3, <4>1, <4>2 DEF Started
      <4>5. QED
        BY <4>3, <4>4 DEF PairOf
    <3>3. QED
      BY <3>1, <3>2
  <2>7. more # {}
    OBVIOUS
  <2> HIDE DEF more, starts
  <2>8. /\ \A it \in d.items : it.kind # "tool_running"
        /\ \A it \in d.items : it.kind = "tool_merged" =>
             \E i \in 1 .. n : evs[i].kind = "tool_execution_end" /\ PairOf(evs, tools, i, it)
    BY <1>2, <1>3, <1>5, <2>1, <2>6 DEF PairedTo
  <2>9. ASSUME NEW i \in 1 .. n, evs[i].kind = "tool_execution_end"
        PROVE  \E it \in d.items : it.kind = "tool_merged" /\ PairOf(evs, tools, i, it)
    <3>1. CASE i = n
      BY <2>1, <2>6, <2>7, <3>1
    <3>2. CASE i \in 1 .. k
      BY <2>1, <2>9, <3>2 DEF PairedTo
    <3>3. QED
      BY <1>2, <3>1, <3>2
  <2>10. QED
    BY <2>1, <2>4, <2>5, <2>8, <2>9 DEF PairedTo, d, ev, n
<1>6. CASE ev.kind \notin {"tool_execution_start", "tool_execution_end"}
  <2>1. /\ ~d.thrown /\ d.tools = c.tools /\ c.items \subseteq d.items
        /\ \A it \in d.items : it \in c.items \/ it.kind \notin {"tool_running", "tool_merged"}
    <3>1. CASE ev.kind = "message_start"
      <4> DEFINE more == Flushed(BufferOf(c.msgs, ev.agent), ev, now)
      <4>1. \A it \in more : it.kind = "message_merged"
        BY FlushedItems
      <4>2. ~d.thrown /\ d.tools = c.tools /\ (d.items = c.items \/ d.items = c.items \cup more)
        <5>1. CASE BufferOf(c.msgs, ev.agent) # {}
          BY <1>1, <3>1, <5>1, StartFlushes DEF d
        <5>2. CASE BufferOf(c.msgs, ev.agent) = {}
          BY <1>1, <3>1, <5>2, StartOpens DEF d
        <5>3. QED
          BY <5>1, <5>2
      <4> HIDE DEF more
      <4>3. QED
        BY <4>1, <4>2
    <3>2. CASE ev.kind = "message_end"
      <4> DEFINE old == BufferOf(c.msgs, ev.agent)
                 whole == {Message(<<"event", ev.n>>, m, "message_merged", ev.role, EndText(m, ev), ev.time > m.time) :
                             m \in old}
                 more == IF old # {} THEN {i \in whole : i.text # <<>> \/ i.slow}
                         ELSE IF ev.text # <<>> THEN {Plain(ev, "message_merged", [n |-> 0, time |-> ev.time])} ELSE {}
      <4>1. \A it \in whole : it.kind = "message_merged"
        BY DEF Message
      <4>2. ~d.thrown /\ d.tools = c.tools /\ d.items = c.items \cup more
        BY <1>1, <3>2, EndOfMessage DEF d
      <4> DEFINE alone == Plain(ev, "message_merged", [n |-> 0, time |-> ev.time])
      <4>3. alone.kind = "message_merged"
        BY DEF Plain
      <4>4. more = IF old # {} THEN {i \in whole : i.text # <<>> \/ i.slow}
                   ELSE IF ev.text # <<>> THEN {alone} ELSE {}
        OBVIOUS
      <4> HIDE DEF more, alone, whole, old
      <4>5. \A it \in more : it \in whole \/ it = alone
        BY <4>4
      <4>6. QED
        BY <4>1, <4>2, <4>3, <4>5
    <3>3. CASE ev.kind \notin {"message_start", "message_end"}
      BY <1>1, <1>6, <3>3, OtherKind DEF d, Markers
    <3>4. QED
      BY <3>1, <3>2, <3>3
  <2>2. \A x : Ended(evs, n, x) <=> Ended(evs, k, x)
    BY <1>2, <1>3, <1>6 DEF Ended
  <2>3. QED
    BY <1>2, <1>3, <1>6, <2>1, <2>2 DEF PairedTo, d, ev, n
<1>7. QED
  BY <1>4, <1>5, <1>6

\* The whole list.
LEMMA BuildPairs ==
  ASSUME NEW evs \in Seq(Event), CallsInOrder(evs), \A i \in DOMAIN evs : evs[i].data,
         NEW msgs \in SUBSET Buffer, OneEach(msgs), NEW tools \in SUBSET Event, NEW now \in Nat,
         \A s \in tools : s.kind = "tool_execution_start" /\ s.call = s.n
  PROVE  PairedTo(evs, tools, Len(evs), Building(evs, msgs, tools, now)[Len(evs)])
<1> DEFINE b == Building(evs, msgs, tools, now)
           n == Len(evs)
           T == {k \in 0 .. n : PairedTo(evs, tools, k, b[k])}
<1>1. n \in Nat /\ b[0] = Before(msgs, tools) /\ \A k \in 1 .. n : b[k] = BuildStep(b[k - 1], evs[k], now)
  BY BuildingUnfolds
<1>2. \A k \in 0 .. n : b[k] \in Build
  BY BuildIsTypical DEF Typical
<1> HIDE DEF b
<1>3. PairedTo(evs, tools, 0, b[0])
  <2>1. /\ ~b[0].thrown /\ b[0].tools = tools /\ b[0].items = {}
    BY <1>1 DEF Before
  <2>2. 1 .. 0 = {}
    OBVIOUS
  <2>3. QED
    BY <2>1, <2>2 DEF PairedTo, Ended
<1>4. ASSUME NEW k \in 0 .. n, PairedTo(evs, tools, k, b[k]), k + 1 <= n PROVE PairedTo(evs, tools, k + 1, b[k + 1])
  <2>1. k + 1 \in 1 .. n /\ (k + 1) - 1 = k
    BY <1>1, <1>4
  <2>2. b[k + 1] = BuildStep(b[k], evs[k + 1], now) /\ b[k] \in Build
    BY <1>1, <1>2, <2>1
  <2>3. QED
    BY <1>4, <2>2, StepPairs
<1>5. 0 .. n \subseteq T
  <2>1. 0 \in T /\ \A k \in 0 .. n : k \in T /\ k + 1 <= n => k + 1 \in T
    BY <1>1, <1>3, <1>4
  <2> HIDE DEF T, n
  <2>2. QED
    BY <1>1, <2>1, UpTo
<1>6. QED
  BY <1>1, <1>5 DEF b

\* The calls among the items of a build: one that ends is not shown running, and
\* an end has its start if the list has it.
CallsShown(evs, tools, items) ==
  /\ \A it \in items : it.kind = "tool_running" =>
       ~Ended(evs, Len(evs), it.from) /\ (\E s \in tools \cup {evs[j] : j \in DOMAIN evs} :
            s.kind = "tool_execution_start" /\ it.from = s.n)
  /\ \A j \in DOMAIN evs : evs[j].kind = "tool_execution_start" /\ ~Ended(evs, Len(evs), evs[j].call) =>
       \E it \in items : it.kind = "tool_running" /\ it.from = evs[j].n
  /\ \A it \in items : it.kind = "tool_merged" =>
       \E i \in DOMAIN evs : evs[i].kind = "tool_execution_end" /\ PairOf(evs, tools, i, it)
  /\ \A i \in DOMAIN evs : evs[i].kind = "tool_execution_end" =>
       \E it \in items : it.kind = "tool_merged" /\ PairOf(evs, tools, i, it)

\* A build of a list in order shows its calls.
LEMMA CallsOfBuild ==
  ASSUME NEW evs \in Seq(Event), CallsInOrder(evs), \A i \in DOMAIN evs : evs[i].data,
         NEW msgs \in SUBSET Buffer, OneEach(msgs), NEW tools \in SUBSET Event, NEW now \in Nat,
         \A s \in tools : s.kind = "tool_execution_start" /\ s.call = s.n
  PROVE  LET built == BuildTimelineItems(evs, msgs, tools, now) IN
           ~built.thrown /\ CallsShown(evs, tools, built.items)
<1> DEFINE n == Len(evs)
           c == Building(evs, msgs, tools, now)[n]
           built == BuildTimelineItems(evs, msgs, tools, now)
           run(s) == [Plain(s, "tool_running", s) EXCEPT !.id = <<"running", s.n>>]
           runs == {run(s) : s \in c.tools}
           talks == {Message(<<"running", m.start>>, m, "message_merged", m.role, m.thinking \o m.text, now > m.time) :
                       m \in {m \in c.msgs : Worth(m, now)}}
<1>1. n \in Nat /\ DOMAIN evs = 1 .. n /\ PairedTo(evs, tools, n, c)
  BY BuildPairs
<1>2. c \in Build
  BY <1>1, BuildIsTypical DEF Typical
<1>3. built.items = c.items \cup (runs \cup talks) /\ ~built.thrown
  <2>1. built = Shows(c, runs \cup talks)
    BY <1>1 DEF BuildTimelineItems, Finished, InProgress, PairedTo
  <2> HIDE DEF c, built, runs, talks
  <2>2. QED
    BY <1>1, <1>2, <2>1 DEF Shows, Build, PairedTo
<1>4. \A it \in talks : it.kind = "message_merged"
  <2>1. \A m : Message(<<"running", m.start>>, m, "message_merged", m.role, m.thinking \o m.text, now > m.time).kind
                  = "message_merged"
    BY DEF Message
  <2> HIDE DEF c
  <2>2. QED
    BY <2>1
<1>5. \A s \in c.tools : run(s) \in runs /\ run(s).kind = "tool_running" /\ run(s).from = s.n
  BY DEF Plain
<1>6. \A it \in runs : \E s \in c.tools : it.kind = "tool_running" /\ it.from = s.n
  <2> HIDE DEF c
  <2> SUFFICES ASSUME NEW it \in runs PROVE \E s \in c.tools : it.kind = "tool_running" /\ it.from = s.n
    OBVIOUS
  <2>1. PICK s \in c.tools : it = run(s)
    OBVIOUS
  <2>2. QED
    BY <1>5, <2>1
<1> HIDE DEF c, built, runs, talks, run, n
<1>7. \A it \in built.items : it.kind = "tool_running" =>
        ~Ended(evs, n, it.from) /\ \E s \in tools \cup {evs[j] : j \in DOMAIN evs} :
          s.kind = "tool_execution_start" /\ it.from = s.n
  <2> SUFFICES ASSUME NEW it \in built.items, it.kind = "tool_running"
               PROVE  ~Ended(evs, n, it.from) /\ \E s \in tools \cup {evs[j] : j \in DOMAIN evs} :
                        s.kind = "tool_execution_start" /\ it.from = s.n
    OBVIOUS
  <2>1. PICK s \in c.tools : it.from = s.n
    BY <1>1, <1>3, <1>4, <1>6 DEF PairedTo
  <2>2. /\ ~Ended(evs, n, s.call) /\ (s \in tools \/ \E j \in 1 .. n : s = evs[j])
        /\ s.kind = "tool_execution_start" /\ s.call = s.n
    BY <1>1, <2>1 DEF PairedTo
  <2>3. QED
    BY <1>1, <2>1, <2>2
<1>8. \A j \in DOMAIN evs : evs[j].kind = "tool_execution_start" /\ ~Ended(evs, n, evs[j].call) =>
        \E it \in built.items : it.kind = "tool_running" /\ it.from = evs[j].n
  BY <1>1, <1>3, <1>5 DEF PairedTo
<1>9. /\ \A it \in built.items : it.kind = "tool_merged" =>
           \E i \in DOMAIN evs : evs[i].kind = "tool_execution_end" /\ PairOf(evs, tools, i, it)
      /\ \A i \in DOMAIN evs : evs[i].kind = "tool_execution_end" =>
           \E it \in built.items : it.kind = "tool_merged" /\ PairOf(evs, tools, i, it)
  BY <1>1, <1>3, <1>4, <1>6 DEF PairedTo
<1>10. QED
  BY <1>3, <1>7, <1>8, <1>9 DEF CallsShown, built, n

\* Only the start of a call enters the map of calls.
LEMMA StepMapsCalls ==
  ASSUME NEW c \in Build, NEW ev, NEW now
  PROVE  BuildStep(c, ev, now).tools \subseteq c.tools \cup (IF ev.kind = "tool_execution_start" THEN {ev} ELSE {})
<1> DEFINE e == BuildStep(c, ev, now)
           old == BufferOf(c.msgs, ev.agent)
<1>1. ASSUME NEW b \in Build PROVE Throw(b).tools = b.tools /\ \A more : Shows(b, more).tools = b.tools
  BY DEF Throw, Shows, Build
<1>2. CASE c.thrown
  BY <1>2 DEF BuildStep
<1>3. CASE ~c.thrown /\ ev.kind = "tool_execution_start"
  <2>1. e = Throw(c) \/ e = [c EXCEPT !.tools = (@ \ StartsOf(@, ev)) \cup {ev}]
    BY <1>3 DEF BuildStep, Markers, ToolStart
  <2> HIDE DEF e
  <2>2. e.tools \subseteq c.tools \cup {ev}
    BY <1>1, <2>1 DEF Build
  <2>3. QED
    BY <1>3, <2>2 DEF e
<1>4. CASE ~c.thrown /\ ev.kind = "tool_execution_end"
  <2> DEFINE starts == StartsOf(c.tools, ev)
             more == IF starts = {} THEN {Plain(ev, "tool_merged", [n |-> 0, time |-> ev.time])}
                     ELSE {Plain(ev, "tool_merged", s) : s \in starts}
  <2>1. e = ToolEnd(c, ev)
    BY <1>4 DEF BuildStep, Markers
  <2>2. e = Throw(c) \/ e = [Shows(c, more) EXCEPT !.tools = @ \ starts]
    BY <2>1 DEF ToolEnd
  <2> HIDE DEF e, more, starts
  <2>3. e.tools = c.tools \/ e.tools = c.tools \ starts
    <3>1. CASE e = Throw(c)
      BY <1>1, <3>1 DEF Throw, Build
    <3>2. CASE e = [Shows(c, more) EXCEPT !.tools = @ \ starts]
      BY <1>1, <3>2 DEF Shows, Build
    <3>3. QED
      BY <2>2, <3>1, <3>2
  <2>4. QED
    BY <2>3 DEF e
<1>5. CASE ~c.thrown /\ ev.kind = "message_start"
  <2> DEFINE more == Flushed(old, ev, now)
             new == [agent |-> ev.agent, role |-> ev.role, text |-> ev.text, thinking |-> <<>>,
                     time |-> ev.time, start |-> ev.n]
  <2>1. e = MessageStart(c, ev, now)
    BY <1>5 DEF BuildStep, Markers
  <2>2. e = Throw(c) \/ e = Shows(c, more) \/ e = [c EXCEPT !.msgs = @ \cup {new}]
    <3>1. CASE old # {}
      BY <2>1, <3>1 DEF MessageStart, Flushed
    <3>2. CASE old = {} /\ ev.data
      BY <2>1, <3>2 DEF MessageStart
    <3>3. CASE old = {} /\ ~ev.data
      BY <2>1, <3>3 DEF MessageStart
    <3>4. QED
      BY <3>1, <3>2, <3>3
  <2> HIDE DEF e, more, new
  <2>3. e.tools = c.tools
    BY <1>1, <2>2 DEF Build
  <2>4. QED
    BY <2>3 DEF e
<1>6. CASE ~c.thrown /\ ev.kind = "message_end"
  <2> DEFINE taken == [c EXCEPT !.msgs = @ \ old]
  <2>1. e = MessageEnd(c, ev)
    BY <1>6 DEF BuildStep, Markers
  <2>2. e = c \/ e = Throw(taken) \/ (\E more : e = Shows(c, more)) \/ (\E more : e = Shows(taken, more))
    <3>1. CASE old = {} /\ (~ev.data \/ ev.text = <<>>)
      BY <2>1, <3>1 DEF MessageEnd
    <3>2. CASE old = {} /\ ev.data /\ ev.text # <<>>
      <4>1. e = Shows(c, {Plain(ev, "message_merged", [n |-> 0, time |-> ev.time])})
        BY <2>1, <3>2 DEF MessageEnd
      <4>2. QED
        BY <4>1
    <3>3. CASE old # {} /\ ~ev.data
      BY <2>1, <3>3 DEF MessageEnd
    <3>4. CASE old # {} /\ ev.data
      <4> DEFINE whole == {Message(<<"event", ev.n>>, m, "message_merged", ev.role, EndText(m, ev), ev.time > m.time) :
                             m \in old}
                 more == {i \in whole : i.text # <<>> \/ i.slow}
      <4>1. e = Shows(taken, more)
        BY <2>1, <3>4 DEF MessageEnd
      <4> HIDE DEF e, taken, more
      <4>2. QED
        BY <4>1
    <3>5. QED
      BY <3>1, <3>2, <3>3, <3>4
  <2>3. taken \in Build /\ taken.tools = c.tools
    BY DEF Build
  <2> HIDE DEF e, taken
  <2>4. e.tools = c.tools
    BY <1>1, <2>2, <2>3
  <2>5. QED
    BY <2>4 DEF e
<1>7. CASE ~c.thrown /\ ev.kind \notin {"tool_execution_start", "tool_execution_end", "message_start", "message_end"}
  <2>1. e = c \/ e = Shows(c, {Plain(ev, ev.kind, ev)})
    BY <1>7 DEF BuildStep, Markers
  <2> HIDE DEF e
  <2>2. e.tools = c.tools
    BY <1>1, <2>1
  <2>3. QED
    BY <2>2 DEF e
<1>8. QED
  BY <1>2, <1>3, <1>4, <1>5, <1>6, <1>7

\* The map of calls holds starts only, of a list with or without payloads.
LEMMA StartsAreLeft ==
  ASSUME NEW evs \in Seq(Event), CallsInOrder(evs), NEW msgs \in SUBSET Buffer, OneEach(msgs),
         NEW tools \in SUBSET Event, NEW now \in Nat,
         \A s \in tools : s.kind = "tool_execution_start" /\ s.call = s.n
  PROVE  \A s \in BuildTimelineItems(evs, msgs, tools, now).tools : s.kind = "tool_execution_start" /\ s.call = s.n
<1> DEFINE b == Building(evs, msgs, tools, now)
           n == Len(evs)
           Starts(c) == \A s \in c.tools : s.kind = "tool_execution_start" /\ s.call = s.n
           T == {k \in 0 .. n : Starts(b[k])}
<1>1. n \in Nat /\ b[0] = Before(msgs, tools) /\ \A k \in 1 .. n : b[k] = BuildStep(b[k - 1], evs[k], now)
  BY BuildingUnfolds
<1>2. \A k \in 0 .. n : b[k] \in Build
  BY BuildIsTypical DEF Typical
<1>3. \A k \in 1 .. n : evs[k].kind = "tool_execution_start" => evs[k].call = evs[k].n
  BY DEF CallsInOrder
<1>4. ASSUME NEW c \in Build, NEW ev
      PROVE  BuildStep(c, ev, now).tools \subseteq c.tools \cup (IF ev.kind = "tool_execution_start" THEN {ev} ELSE {})
  BY StepMapsCalls
<1> HIDE DEF b, n
<1>5. 0 .. n \subseteq T
  <2>1. Starts(b[0])
    BY <1>1 DEF Before
  <2>2. ASSUME NEW k \in 0 .. n, Starts(b[k]), k + 1 <= n PROVE Starts(b[k + 1])
    <3>1. k + 1 \in 1 .. n /\ (k + 1) - 1 = k
      BY <1>1, <2>2
    <3>2. b[k + 1].tools \subseteq b[k].tools \cup (IF evs[k + 1].kind = "tool_execution_start" THEN {evs[k + 1]} ELSE {})
      BY <1>1, <1>2, <1>4, <3>1
    <3>3. QED
      BY <1>3, <2>2, <3>1, <3>2
  <2> HIDE DEF Starts
  <2>3. 0 \in T /\ \A k \in 0 .. n : k \in T /\ k + 1 <= n => k + 1 \in T
    BY <1>1, <2>1, <2>2
  <2> HIDE DEF T
  <2>4. QED
    BY <1>1, <2>3, UpTo
<1> DEFINE c == b[n]
<1>6. c \in Build /\ Starts(c)
  BY <1>1, <1>2, <1>5
<1>7. Finished(c, now).tools = c.tools
  <2> HIDE DEF c
  <2>1. Finished(c, now) = c \/ Finished(c, now) = Shows(c, InProgress(c, now))
    BY DEF Finished
  <2>2. QED
    BY <1>6, <2>1 DEF Shows, Build
<1>8. QED
  BY <1>6, <1>7 DEF BuildTimelineItems, b, n

-----------------------------------------------------------------------------
(* Messages.                                                               *)

OfAgent(evs, a, kind, j) == evs[j].kind = kind /\ evs[j].agent = a

\* Among the first k events, j is the first start of a message of agent a that
\* no end has followed,
Opened(evs, a, k, j) ==
  /\ j \in 1 .. k /\ OfAgent(evs, a, "message_start", j)
  /\ \A x \in 1 .. k : OfAgent(evs, a, "message_end", x) => x < j
  /\ \A y \in 1 .. k : OfAgent(evs, a, "message_start", y) /\ y < j =>
       \E x \in 1 .. k : OfAgent(evs, a, "message_end", x) /\ y < x

\* or there is none.
Unopened(evs, a, k) ==
  \A y \in 1 .. k : OfAgent(evs, a, "message_start", y) =>
    \E x \in 1 .. k : OfAgent(evs, a, "message_end", x) /\ y < x

\* The item of an end: with the start that the build finds, which is that of an
\* orphan if there is one, and the text it carries.
EndItem(evs, i, it) ==
  /\ evs[i].kind = "message_end" /\ it.id = <<"event", evs[i].n>> /\ it.text = evs[i].text
  /\ \/ \E j \in 1 .. i - 1 : /\ Opened(evs, evs[i].agent, i - 1, j) /\ it.from = evs[j].n
                              /\ evs[i].text # <<>> \/ evs[i].time > evs[j].time
     \/ Unopened(evs, evs[i].agent, i - 1) /\ it.from = 0 /\ evs[i].text # <<>>

\* An end that is shown.
Shown(evs, i) ==
  /\ evs[i].kind = "message_end"
  /\ \/ evs[i].text # <<>>
     \/ \E j \in 1 .. i - 1 : Opened(evs, evs[i].agent, i - 1, j) /\ evs[i].time > evs[j].time

OfEnd(it) == it.kind = "message_merged" /\ it.id[1] = "event"

\* What a build that began with empty maps has made of the messages.
MessagesTo(evs, k, c) ==
  /\ ~c.thrown
  /\ \A m \in c.msgs : /\ m.text = <<>> /\ m.thinking = <<>>
                       /\ \E j \in 1 .. k : Opened(evs, m.agent, k, j) /\ m.start = evs[j].n /\ m.time = evs[j].time
  /\ \A a \in Agents : BufferOf(c.msgs, a) = {} => Unopened(evs, a, k)
  /\ \A it \in c.items : OfEnd(it) => \E i \in 1 .. k : EndItem(evs, i, it)
  /\ \A i \in 1 .. k : Shown(evs, i) => \E it \in c.items : OfEnd(it) /\ EndItem(evs, i, it)

\* An event that is about something else leaves an agent's messages as they are.
LEMMA OpenedStays ==
  ASSUME NEW evs, NEW a, NEW k \in Nat, ~OfAgent(evs, a, "message_end", k + 1)
  PROVE  /\ \A j : Opened(evs, a, k, j) => Opened(evs, a, k + 1, j)
         /\ ~OfAgent(evs, a, "message_start", k + 1) => (Unopened(evs, a, k) => Unopened(evs, a, k + 1))
         /\ Unopened(evs, a, k) /\ OfAgent(evs, a, "message_start", k + 1) => Opened(evs, a, k + 1, k + 1)
<1>1. /\ 1 .. k \subseteq 1 .. k + 1 /\ k + 1 \in 1 .. k + 1
      /\ \A j \in 1 .. k + 1 : j = k + 1 \/ j \in 1 .. k
      /\ \A j \in 1 .. k : j < k + 1 /\ j # k + 1 /\ ~(k + 1 < j)
      /\ ~(k + 1 < k + 1)
  OBVIOUS
<1> DEFINE n == k + 1
<1> HIDE DEF n
<1>2. \A j : Opened(evs, a, k, j) => Opened(evs, a, n, j)
  <2> SUFFICES ASSUME NEW j, Opened(evs, a, k, j) PROVE Opened(evs, a, n, j)
    OBVIOUS
  <2>1. j \in 1 .. n /\ OfAgent(evs, a, "message_start", j)
    BY <1>1 DEF Opened, n
  <2>2. \A x \in 1 .. n : OfAgent(evs, a, "message_end", x) => x < j
    BY <1>1 DEF Opened, n
  <2>3. \A y \in 1 .. n : OfAgent(evs, a, "message_start", y) /\ y < j =>
          \E x \in 1 .. n : OfAgent(evs, a, "message_end", x) /\ y < x
    BY <1>1 DEF Opened, n
  <2>4. QED
    BY <2>1, <2>2, <2>3 DEF Opened
<1>3. ASSUME Unopened(evs, a, k), ~OfAgent(evs, a, "message_start", n) PROVE Unopened(evs, a, n)
  BY <1>1, <1>3 DEF Unopened, n
<1>4. ASSUME Unopened(evs, a, k), OfAgent(evs, a, "message_start", n) PROVE Opened(evs, a, n, n)
  BY <1>1, <1>4 DEF Unopened, Opened, n
<1>5. QED
  BY <1>2, <1>3, <1>4 DEF n

\* An end leaves none open.
LEMMA EndLeavesNone ==
  ASSUME NEW evs, NEW a, NEW k \in Nat, OfAgent(evs, a, "message_end", k + 1)
  PROVE  Unopened(evs, a, k + 1)
<1>1. k + 1 \in 1 .. k + 1 /\ \A j \in 1 .. k + 1 : j = k + 1 \/ j < k + 1
  OBVIOUS
<1>2. ~OfAgent(evs, a, "message_start", k + 1)
  BY DEF OfAgent
<1>3. QED
  BY <1>1, <1>2 DEF Unopened

\* One more event of a list with all its payloads.
LEMMA StepMessages ==
  ASSUME NEW evs \in Seq(Event), \A i \in DOMAIN evs : evs[i].data,
         \A i \in DOMAIN evs : evs[i].kind = "message_start" => evs[i].text = <<>>,
         NEW now, NEW k \in 0 .. Len(evs), k + 1 <= Len(evs), NEW c \in Build, MessagesTo(evs, k, c)
  PROVE  MessagesTo(evs, k + 1, BuildStep(c, evs[k + 1], now))
<1> DEFINE n == k + 1
           ev == evs[n]
           d == BuildStep(c, ev, now)
           old == BufferOf(c.msgs, ev.agent)
<1>1. n \in DOMAIN evs /\ k \in Nat /\ ev \in Event /\ ev.data /\ ev.agent \in Agents /\ ev.text \in Seq(Nat) /\ ~c.thrown
      /\ c.msgs \in SUBSET Buffer
  <2>1. n \in DOMAIN evs /\ k \in Nat /\ ev \in Event
    OBVIOUS
  <2>2. QED
    BY <2>1 DEF Event, Build, MessagesTo
<1>2. /\ 1 .. k \subseteq 1 .. n /\ n \in 1 .. n /\ n - 1 = k
      /\ \A j \in 1 .. n : j = n \/ j \in 1 .. k
      /\ \A j \in 1 .. k : j < n /\ j # n /\ j \in DOMAIN evs
  <2>1. n - 1 = k /\ \A j \in 1 .. k : j \in DOMAIN evs
    BY <1>1
  <2>2. QED
    BY <1>1, <2>1, OneMore
<1>3. /\ \A a : ~OfAgent(evs, a, "message_end", n) =>
           /\ \A j : Opened(evs, a, k, j) => Opened(evs, a, n, j)
           /\ ~OfAgent(evs, a, "message_start", n) => (Unopened(evs, a, k) => Unopened(evs, a, n))
           /\ Unopened(evs, a, k) /\ OfAgent(evs, a, "message_start", n) => Opened(evs, a, n, n)
      /\ \A a : OfAgent(evs, a, "message_end", n) => Unopened(evs, a, n)
  BY <1>1, OpenedStays, EndLeavesNone
<1>4. ev = evs[n]
  OBVIOUS
<1> HIDE DEF n, ev, d
\* A buffer of an agent that ends no message,
<1>5. ASSUME NEW m \in c.msgs, ~OfAgent(evs, m.agent, "message_end", n)
       PROVE  /\ m.text = <<>> /\ m.thinking = <<>>
              /\ \E j \in 1 .. n : Opened(evs, m.agent, n, j) /\ m.start = evs[j].n /\ m.time = evs[j].time
  <2>1. PICK j \in 1 .. k : Opened(evs, m.agent, k, j) /\ m.start = evs[j].n /\ m.time = evs[j].time
    BY DEF MessagesTo
  <2>2. Opened(evs, m.agent, n, j)
    BY <1>3, <1>5, <2>1
  <2>3. QED
    BY <1>2, <2>1, <2>2 DEF MessagesTo
\* and a build with the same ends among its items, after an event that is none.
<1>6. ASSUME c.items \subseteq d.items, \A it \in d.items : it \in c.items \/ ~OfEnd(it), ev.kind # "message_end"
      PROVE  /\ \A it \in d.items : OfEnd(it) => \E i \in 1 .. n : EndItem(evs, i, it)
             /\ \A i \in 1 .. n : Shown(evs, i) => \E it \in d.items : OfEnd(it) /\ EndItem(evs, i, it)
  <2>1. ~Shown(evs, n)
    BY <1>4, <1>6 DEF Shown
  <2>2. QED
    BY <1>2, <1>6, <2>1 DEF MessagesTo
<1>7. CASE ev.kind = "message_start" /\ old # {}
  <2> DEFINE more == Flushed(old, ev, now)
  <2>1. ~d.thrown /\ d.msgs = c.msgs /\ d.items = c.items \cup more
    BY <1>1, <1>7, StartFlushes DEF d
  <2>2. \A it \in more : ~OfEnd(it)
    BY FlushedItems DEF OfEnd
  <2> HIDE DEF more
  <2>3. \A a : ~OfAgent(evs, a, "message_end", n)
    BY <1>4, <1>7 DEF OfAgent
  <2>4. \A m \in d.msgs : /\ m.text = <<>> /\ m.thinking = <<>>
                          /\ \E j \in 1 .. n : Opened(evs, m.agent, n, j) /\ m.start = evs[j].n /\ m.time = evs[j].time
    BY <1>5, <2>1, <2>3
  <2>5. ASSUME NEW a \in Agents, BufferOf(d.msgs, a) = {} PROVE Unopened(evs, a, n)
    <3>1. Unopened(evs, a, k)
      BY <2>1, <2>5 DEF MessagesTo
    <3>2. ~OfAgent(evs, a, "message_start", n)
      BY <1>4, <1>7, <2>1, <2>5 DEF OfAgent
    <3>3. QED
      BY <1>3, <2>3, <3>1, <3>2
  <2>6. QED
    BY <1>6, <1>7, <2>1, <2>2, <2>4, <2>5 DEF MessagesTo, d, ev, n
<1>8. CASE ev.kind = "message_start" /\ old = {}
  <2> DEFINE new == [agent |-> ev.agent, role |-> ev.role, text |-> ev.text, thinking |-> <<>>,
                     time |-> ev.time, start |-> ev.n]
  <2>1. ~d.thrown /\ d.msgs = c.msgs \cup {new} /\ d.items = c.items
    BY <1>1, <1>8, StartOpens DEF d
  <2>2. new.agent = ev.agent /\ new.text = <<>> /\ new.thinking = <<>> /\ new.time = ev.time /\ new.start = ev.n
    BY <1>1, <1>4, <1>8
  <2> HIDE DEF new
  <2>3. \A a : ~OfAgent(evs, a, "message_end", n)
    BY <1>4, <1>8 DEF OfAgent
  <2>4. Opened(evs, ev.agent, n, n)
    <3>1. Unopened(evs, ev.agent, k)
      BY <1>1, <1>8 DEF MessagesTo
    <3>2. OfAgent(evs, ev.agent, "message_start", n)
      BY <1>4, <1>8 DEF OfAgent
    <3>3. QED
      BY <1>3, <2>3, <3>1, <3>2
  <2>5. \A m \in d.msgs : /\ m.text = <<>> /\ m.thinking = <<>>
                          /\ \E j \in 1 .. n : Opened(evs, m.agent, n, j) /\ m.start = evs[j].n /\ m.time = evs[j].time
    <3>1. \A m \in c.msgs : /\ m.text = <<>> /\ m.thinking = <<>>
                            /\ \E j \in 1 .. n : Opened(evs, m.agent, n, j) /\ m.start = evs[j].n /\ m.time = evs[j].time
      BY <1>5, <2>3
    <3>2. QED
      BY <1>2, <1>4, <2>1, <2>2, <2>4, <3>1
  <2>6. ASSUME NEW a \in Agents, BufferOf(d.msgs, a) = {} PROVE Unopened(evs, a, n)
    <3>1. BufferOf(c.msgs, a) = {} /\ a # ev.agent
      BY <2>1, <2>2, <2>6 DEF BufferOf
    <3>2. ~OfAgent(evs, a, "message_start", n)
      BY <1>4, <3>1 DEF OfAgent
    <3>3. QED
      BY <1>3, <2>3, <3>1, <3>2 DEF MessagesTo
  <2>7. QED
    BY <1>6, <1>8, <2>1, <2>5, <2>6 DEF MessagesTo, d, ev, n
<1>9. CASE ev.kind = "message_end"
  <2> DEFINE item(m) == Message(<<"event", ev.n>>, m, "message_merged", ev.role, EndText(m, ev), ev.time > m.time)
             whole == {item(m) : m \in old}
             alone == Plain(ev, "message_merged", [n |-> 0, time |-> ev.time])
             more == IF old # {} THEN {i \in whole : i.text # <<>> \/ i.slow}
                     ELSE IF ev.text # <<>> THEN {alone} ELSE {}
  <2>1. ~d.thrown /\ d.msgs = c.msgs \ old /\ d.items = c.items \cup more
    BY <1>1, <1>9, EndOfMessage DEF d
  <2>2. \A m \in old : /\ OfEnd(item(m)) /\ item(m).id = <<"event", ev.n>> /\ item(m).from = m.start
                       /\ item(m).text = ev.text /\ item(m).slow = (ev.time > m.time)
    <3> SUFFICES ASSUME NEW m \in old
                 PROVE  /\ OfEnd(item(m)) /\ item(m).id = <<"event", ev.n>> /\ item(m).from = m.start
                        /\ item(m).text = ev.text /\ item(m).slow = (ev.time > m.time)
      OBVIOUS
    <3>1. m.text = <<>> /\ m.thinking = <<>>
      BY DEF BufferOf, MessagesTo
    <3>2. EndText(m, ev) = ev.text
      BY <1>1, <3>1 DEF EndText
    <3>3. QED
      BY <3>2 DEF Message, OfEnd
  <2>3. OfEnd(alone) /\ alone.id = <<"event", ev.n>> /\ alone.from = 0 /\ alone.text = ev.text
    BY DEF Plain, OfEnd
  <2>4. \A it \in more : \/ old # {} /\ \E m \in old : it = item(m) /\ (it.text # <<>> \/ it.slow)
                         \/ old = {} /\ it = alone /\ ev.text # <<>>
    <3> HIDE DEF item, alone, old
    <3>1. QED
      OBVIOUS
  <2>5. /\ \A m \in old : item(m).text # <<>> \/ item(m).slow => item(m) \in more
        /\ old = {} /\ ev.text # <<>> => alone \in more
    <3> HIDE DEF item, alone, old
    <3>1. QED
      OBVIOUS
  <2> HIDE DEF item, whole, alone, more
  <2>6. \A m \in old : \E j \in 1 .. k : Opened(evs, ev.agent, k, j) /\ m.start = evs[j].n /\ m.time = evs[j].time
    BY DEF BufferOf, MessagesTo
  <2>7. old = {} => Unopened(evs, ev.agent, k)
    BY <1>1 DEF MessagesTo
  <2>8. \A it \in more : OfEnd(it) /\ EndItem(evs, n, it)
    <3> SUFFICES ASSUME NEW it \in more PROVE OfEnd(it) /\ EndItem(evs, n, it)
      OBVIOUS
    <3>1. CASE \E m \in old : it = item(m) /\ (it.text # <<>> \/ it.slow)
      <4>1. PICK m \in old : it = item(m) /\ (it.text # <<>> \/ it.slow)
        BY <3>1
      <4>2. PICK j \in 1 .. k : Opened(evs, ev.agent, k, j) /\ m.start = evs[j].n /\ m.time = evs[j].time
        BY <2>6
      <4>3. OfEnd(it) /\ it.id = <<"event", ev.n>> /\ it.text = ev.text /\ it.from = evs[j].n
            /\ (ev.text # <<>> \/ ev.time > evs[j].time)
        BY <2>2, <4>1, <4>2
      <4>4. QED
        BY <1>2, <1>4, <1>9, <4>2, <4>3 DEF EndItem
    <3>2. CASE old = {} /\ it = alone /\ ev.text # <<>>
      BY <1>2, <1>4, <1>9, <2>3, <2>7, <3>2 DEF EndItem
    <3>3. QED
      BY <2>4, <3>1, <3>2
  <2>9. Shown(evs, n) => more # {}
    <3> SUFFICES ASSUME Shown(evs, n) PROVE more # {}
      OBVIOUS
    <3>1. CASE old = {}
      <4>1. ~ \E j \in 1 .. k : Opened(evs, ev.agent, k, j)
        <5> SUFFICES ASSUME NEW j \in 1 .. k, Opened(evs, ev.agent, k, j) PROVE FALSE
          OBVIOUS
        <5>1. PICK x \in 1 .. k : OfAgent(evs, ev.agent, "message_end", x) /\ j < x
          BY <2>7, <3>1 DEF Unopened, Opened
        <5>2. x < j
          BY <5>1 DEF Opened
        <5>3. QED
          BY <5>1, <5>2
      <4>2. ev.text # <<>>
        BY <1>2, <1>4, <4>1 DEF Shown
      <4>3. QED
        BY <2>5, <3>1, <4>2
    <3>2. CASE old # {}
      <4>1. PICK m \in old : TRUE
        BY <3>2
      <4>2. PICK j \in 1 .. k : Opened(evs, ev.agent, k, j) /\ m.start = evs[j].n /\ m.time = evs[j].time
        BY <2>6
      <4>3. \A i \in 1 .. k : Opened(evs, ev.agent, k, i) => i = j
        <5> SUFFICES ASSUME NEW i \in 1 .. k, Opened(evs, ev.agent, k, i), i # j PROVE FALSE
          OBVIOUS
        <5>1. i < j \/ j < i
          OBVIOUS
        <5>2. \/ \E x \in 1 .. k : OfAgent(evs, ev.agent, "message_end", x) /\ i < x
              \/ \E x \in 1 .. k : OfAgent(evs, ev.agent, "message_end", x) /\ j < x
          BY <4>2, <5>1 DEF Opened
        <5>3. \A x \in 1 .. k : OfAgent(evs, ev.agent, "message_end", x) => x < i /\ x < j
          BY <4>2 DEF Opened
        <5>4. QED
          BY <5>2, <5>3
      <4>4. ev.text # <<>> \/ ev.time > m.time
        BY <1>2, <1>4, <4>2, <4>3 DEF Shown
      <4>5. QED
        BY <2>2, <2>5, <4>1, <4>4
    <3>3. QED
      BY <3>1, <3>2
  <2>10. /\ \A it \in d.items : OfEnd(it) => \E i \in 1 .. n : EndItem(evs, i, it)
         /\ \A i \in 1 .. n : Shown(evs, i) => \E it \in d.items : OfEnd(it) /\ EndItem(evs, i, it)
    BY <1>2, <2>1, <2>8, <2>9 DEF MessagesTo
  <2>11. ASSUME NEW m \in d.msgs
         PROVE  /\ m.text = <<>> /\ m.thinking = <<>>
                /\ \E j \in 1 .. n : Opened(evs, m.agent, n, j) /\ m.start = evs[j].n /\ m.time = evs[j].time
    <3>1. m \in c.msgs /\ m.agent # ev.agent
      BY <2>1, <2>11 DEF BufferOf
    <3>2. ~OfAgent(evs, m.agent, "message_end", n)
      BY <1>4, <3>1 DEF OfAgent
    <3>3. QED
      BY <1>5, <3>1, <3>2
  <2>12. ASSUME NEW a \in Agents, BufferOf(d.msgs, a) = {} PROVE Unopened(evs, a, n)
    <3>1. CASE a = ev.agent
      <4>1. OfAgent(evs, a, "message_end", n)
        BY <1>4, <1>9, <3>1 DEF OfAgent
      <4>2. QED
        BY <1>3, <4>1
    <3>2. CASE a # ev.agent
      <4>1. BufferOf(c.msgs, a) = {}
        BY <2>1, <2>12, <3>2 DEF BufferOf
      <4>2. ~OfAgent(evs, a, "message_end", n) /\ ~OfAgent(evs, a, "message_start", n)
        BY <1>4, <3>2 DEF OfAgent
      <4>3. QED
        BY <1>3, <4>1, <4>2 DEF MessagesTo
    <3>3. QED
      BY <3>1, <3>2
  <2>13. QED
    BY <2>1, <2>10, <2>11, <2>12 DEF MessagesTo, d, ev, n
<1>10. CASE ev.kind \notin {"message_start", "message_end"}
  <2>1. ~d.thrown /\ d.msgs = c.msgs /\ c.items \subseteq d.items /\ \A it \in d.items : it \in c.items \/ ~OfEnd(it)
    <3>1. CASE ev.kind = "tool_execution_start"
      BY <1>1, <3>1, StartOfCall DEF d
    <3>2. CASE ev.kind = "tool_execution_end"
      <4> DEFINE starts == StartsOf(c.tools, ev)
                 more == IF starts = {} THEN {Plain(ev, "tool_merged", [n |-> 0, time |-> ev.time])}
                         ELSE {Plain(ev, "tool_merged", s) : s \in starts}
      <4>1. ~d.thrown /\ d.msgs = c.msgs /\ d.items = c.items \cup more
        BY <1>1, <3>2, EndOfCall DEF d
      <4>2. \A s : ~OfEnd(Plain(ev, "tool_merged", s))
        BY DEF Plain, OfEnd
      <4> HIDE DEF starts
      <4>3. \A it \in more : ~OfEnd(it)
        BY <4>2
      <4> HIDE DEF more
      <4>4. QED
        BY <4>1, <4>3
    <3>3. CASE ev.kind \notin {"tool_execution_start", "tool_execution_end"}
      <4>1. \A it : it.kind \in Markers => ~OfEnd(it)
        BY DEF Markers, OfEnd
      <4>2. QED
        BY <1>1, <1>10, <3>3, <4>1, OtherKind DEF d
    <3>4. QED
      BY <3>1, <3>2, <3>3
  <2>2. \A a : ~OfAgent(evs, a, "message_end", n) /\ ~OfAgent(evs, a, "message_start", n)
    BY <1>4, <1>10 DEF OfAgent
  <2>3. \A m \in d.msgs : /\ m.text = <<>> /\ m.thinking = <<>>
                          /\ \E j \in 1 .. n : Opened(evs, m.agent, n, j) /\ m.start = evs[j].n /\ m.time = evs[j].time
    BY <1>5, <2>1, <2>2
  <2>4. \A a \in Agents : BufferOf(d.msgs, a) = {} => Unopened(evs, a, n)
    BY <1>3, <2>1, <2>2 DEF MessagesTo
  <2>5. QED
    BY <1>6, <1>10, <2>1, <2>3, <2>4 DEF MessagesTo, d, ev, n
<1>11. QED
  BY <1>7, <1>8, <1>9, <1>10

\* Messages among the items of a build that begins with empty maps.
LEMMA MessagesOfBuild ==
  ASSUME NEW evs \in Seq(Event), \A i \in DOMAIN evs : evs[i].data,
         \A i \in DOMAIN evs : evs[i].kind = "message_start" => evs[i].text = <<>>, NEW now \in Nat
  PROVE  LET built == BuildTimelineItems(evs, {}, {}, now) IN
           /\ \A it \in built.items : OfEnd(it) => \E i \in DOMAIN evs : EndItem(evs, i, it)
           /\ \A i \in DOMAIN evs : Shown(evs, i) => \E it \in built.items : OfEnd(it) /\ EndItem(evs, i, it)
<1> DEFINE b == Building(evs, {}, {}, now)
           n == Len(evs)
           T == {k \in 0 .. n : MessagesTo(evs, k, b[k])}
           c == b[n]
           built == BuildTimelineItems(evs, {}, {}, now)
<1>1. n \in Nat /\ DOMAIN evs = 1 .. n /\ b[0] = Before({}, {}) /\ \A k \in 1 .. n : b[k] = BuildStep(b[k - 1], evs[k], now)
  BY BuildingUnfolds
<1>2. \A k \in 0 .. n : b[k] \in Build
  <2>1. OneEach({})
    BY DEF OneEach
  <2>2. QED
    BY <2>1, BuildIsTypical DEF Typical
<1>3. built = Finished(c, now)
  BY DEF BuildTimelineItems
<1> HIDE DEF b, built
<1>4. MessagesTo(evs, 0, b[0])
  <2>1. ~b[0].thrown /\ b[0].msgs = {} /\ b[0].items = {}
    BY <1>1 DEF Before
  <2>2. 1 .. 0 = {}
    OBVIOUS
  <2>3. QED
    BY <2>1, <2>2 DEF MessagesTo, Unopened
<1>5. ASSUME NEW k \in 0 .. n, MessagesTo(evs, k, b[k]), k + 1 <= n PROVE MessagesTo(evs, k + 1, b[k + 1])
  <2>1. k + 1 \in 1 .. n /\ (k + 1) - 1 = k
    BY <1>1, <1>5
  <2>2. b[k + 1] = BuildStep(b[k], evs[k + 1], now) /\ b[k] \in Build
    BY <1>1, <1>2, <2>1
  <2>3. QED
    BY <1>5, <2>2, StepMessages
<1>6. 0 .. n \subseteq T
  <2>1. 0 \in T /\ \A k \in 0 .. n : k \in T /\ k + 1 <= n => k + 1 \in T
    BY <1>1, <1>4, <1>5
  <2> HIDE DEF T, n
  <2>2. QED
    BY <1>1, <2>1, UpTo
<1>7. MessagesTo(evs, n, c) /\ c \in Build
  BY <1>1, <1>2, <1>6
<1> HIDE DEF c, n
<1> DEFINE more == InProgress(c, now)
<1>8. built.items = c.items \cup more
  <2>1. built = Shows(c, more)
    BY <1>3, <1>7 DEF Finished, MessagesTo
  <2> HIDE DEF more
  <2>2. QED
    BY <1>7, <2>1 DEF Shows, Build
<1>9. \A it \in more : ~OfEnd(it)
  <2>1. /\ \A s : ~OfEnd([Plain(s, "tool_running", s) EXCEPT !.id = <<"running", s.n>>])
        /\ \A m : ~OfEnd(Message(<<"running", m.start>>, m, "message_merged", m.role, m.thinking \o m.text, now > m.time))
    BY DEF Plain, Message, OfEnd
  <2>2. QED
    BY <2>1 DEF InProgress
<1> HIDE DEF more
<1>10. QED
  BY <1>1, <1>7, <1>8, <1>9 DEF MessagesTo, built
=============================================================================
