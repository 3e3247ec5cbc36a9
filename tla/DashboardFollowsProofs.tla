----------------------- MODULE DashboardFollowsProofs -----------------------
(***************************************************************************)
(* DashboardFollows, for any agents, hosts, requests and capacity of the   *)
(* wire: the causes that Dashboard names are the only ones that leave a    *)
(* page wrong.  The invariant behind it foresees what the page will show   *)
(* of an agent once the list has been merged and every frame received.     *)
(***************************************************************************)
EXTENDS DashboardProofs

\* Frame k of w tells the status of i to whoever gets it; agent_status does so
\* only to a page that knows the agent.
Firm(w, i, k) == k \in DOMAIN w /\ w[k].id = i /\ w[k].kind # "agent_status"

\* k is the last such frame; 0 when there is none.
LastFirm(w, i, k) ==
  /\ k = 0 \/ Firm(w, i, k)
  /\ \A l \in DOMAIN w : l > k => ~Firm(w, i, l)

Later(w, i, k) == \E l \in DOMAIN w : l > k /\ w[l].id = i

\* A page that shows i as base will show it as st when it has received w.
Heading(w, i, base, st) ==
  \E k \in {0} \cup DOMAIN w :
    /\ LastFirm(w, i, k)
    /\ LET from == IF k = 0 THEN base ELSE w[k].status IN
         st = IF from # "absent" /\ Later(w, i, k) THEN "offline" ELSE from

\* What the page will have of i from the list of agents: the status the
\* orchestrator has at the answer, the one in the answer, or what it shows.
Base(i) ==
  IF page.fetch = "asked" /\ Exists(i) THEN status[i]
  ELSE IF page.list[i] # "absent" THEN page.list[i] ELSE shown[i]

\* Request h has yet to publish an event about i.
DueBy(h, i) ==
  \/ handler[h].pc = "copy" /\ handler[h].id = i
  \/ handler[h].pc = "refetch" /\ handler[h].id = i /\ Exists(i)
  \/ handler[h].pc = "publish" /\ handler[h].event.id = i

Due(i) == \E h \in Handlers : DueBy(h, i)

OfflineDue(i) == watcher.at = "publish" /\ watcher.id = i

\* The page will show i if and only if it is registered, and with its status
\* unless something else is going to tell that, or nothing ever will.
Foreseen(i) ==
  \E st \in Status :
    /\ Heading(wire, i, Base(i), st)
    /\ st = "absent" <=> ~Exists(i)
    /\ <<i, "status">> \in untold \/ OfflineDue(i) \/ st = status[i]

Accounted(i) == <<i, "entry">> \in untold \/ Due(i) \/ Foreseen(i)

FollowInv == ~astray => \A i \in Ids : Accounted(i)

\* What kinds of events are where, and that a page that is not connected has no
\* frames on their way.
PathInv ==
  /\ \A h \in Handlers : handler[h].pc = "publish" => handler[h].event.kind # "agent_status"
  /\ \A k \in DOMAIN wire : wire[k].kind = "agent_status" => wire[k].status = "offline"
  /\ ~Open => wire = <<>>
  /\ page.fetch # "answered" => page.list = Nobody

-----------------------------------------------------------------------------
(* Where the frames on the wire lead.                                      *)

\* Without frames a page stays as it is.
LEMMA HeadingOfNothing == ASSUME NEW i, NEW base PROVE Heading(<<>>, i, base, base)
BY DEF Heading, LastFirm, Firm, Later

\* One more frame.
LEMMA Appended ==
  ASSUME NEW w \in Seq(Event), NEW e \in Event
  PROVE  /\ Len(w) \in Nat /\ DOMAIN w = 1 .. Len(w) /\ DOMAIN Append(w, e) = 1 .. Len(w) + 1
         /\ Append(w, e)[Len(w) + 1] = e
         /\ \A k \in DOMAIN w : k \in DOMAIN Append(w, e) /\ Append(w, e)[k] = w[k] /\ k # Len(w) + 1
         /\ \A k \in DOMAIN Append(w, e) : k = Len(w) + 1 \/ k \in DOMAIN w
OBVIOUS

\* A frame that tells the status ends the question.
LEMMA FirmEvent ==
  ASSUME NEW w \in Seq(Event), NEW e \in Event, e.kind # "agent_status", NEW base
  PROVE  Heading(Append(w, e), e.id, base, e.status)
<1> DEFINE v == Append(w, e)
           n == Len(w) + 1
<1>1. n \in Nat \ {0} /\ DOMAIN v = 1 .. n /\ v[n] = e
  BY Appended
<1> HIDE DEF v, n
<1>2. n \in DOMAIN v /\ LastFirm(v, e.id, n) /\ ~Later(v, e.id, n)
  BY <1>1 DEF LastFirm, Firm, Later
<1>3. QED
  BY <1>1, <1>2 DEF Heading, v

\* agent_status tells a page that knows the agent.
LEMMA StatusEvent ==
  ASSUME NEW w \in Seq(Event), NEW e \in Event, e.kind = "agent_status", NEW base, NEW st,
         Heading(w, e.id, base, st)
  PROVE  Heading(Append(w, e), e.id, base, IF st = "absent" THEN "absent" ELSE "offline")
<1> DEFINE v == Append(w, e)
           n == Len(w) + 1
<1>1. /\ n \in Nat \ {0} /\ v[n] = e /\ n \in DOMAIN v
      /\ \A k \in DOMAIN w : k \in DOMAIN v /\ v[k] = w[k] /\ k < n /\ k # 0
      /\ \A k \in DOMAIN v : k = n \/ k \in DOMAIN w
  BY Appended
<1> HIDE DEF v, n
<1>2. PICK k \in {0} \cup DOMAIN w :
        /\ LastFirm(w, e.id, k)
        /\ LET from == IF k = 0 THEN base ELSE w[k].status IN
             st = IF from # "absent" /\ Later(w, e.id, k) THEN "offline" ELSE from
  BY DEF Heading
<1>3. LastFirm(v, e.id, k) /\ Later(v, e.id, k) /\ k \in {0} \cup DOMAIN v
  BY <1>1, <1>2 DEF LastFirm, Firm, Later
<1>4. (IF k = 0 THEN base ELSE v[k].status) = (IF k = 0 THEN base ELSE w[k].status)
  BY <1>1, <1>2
<1>5. QED
  BY <1>2, <1>3, <1>4 DEF Heading, v

\* A frame about another agent says nothing.
LEMMA OtherEvent ==
  ASSUME NEW w \in Seq(Event), NEW e \in Event, NEW i, e.id # i, NEW base, NEW st,
         Heading(w, i, base, st)
  PROVE  Heading(Append(w, e), i, base, st)
<1> DEFINE v == Append(w, e)
           n == Len(w) + 1
<1>1. /\ n \in Nat \ {0} /\ v[n] = e
      /\ \A k \in DOMAIN w : k \in DOMAIN v /\ v[k] = w[k] /\ k # 0
      /\ \A k \in DOMAIN v : k = n \/ k \in DOMAIN w
  BY Appended
<1> HIDE DEF v, n
<1>2. PICK k \in {0} \cup DOMAIN w :
        /\ LastFirm(w, i, k)
        /\ LET from == IF k = 0 THEN base ELSE w[k].status IN
             st = IF from # "absent" /\ Later(w, i, k) THEN "offline" ELSE from
  BY DEF Heading
<1>3. LastFirm(v, i, k) /\ (Later(v, i, k) <=> Later(w, i, k)) /\ k \in {0} \cup DOMAIN v
  BY <1>1, <1>2 DEF LastFirm, Firm, Later
<1>4. (IF k = 0 THEN base ELSE v[k].status) = (IF k = 0 THEN base ELSE w[k].status)
  BY <1>1, <1>2
<1>5. QED
  BY <1>2, <1>3, <1>4 DEF Heading, v

\* A page that knows the agent from elsewhere is heading for the same, or at
\* least for knowing it.
LEMMA OtherBase ==
  ASSUME NEW w \in Seq(Event), NEW i, NEW base, NEW st \in Status \ {"absent"}, Heading(w, i, base, st),
         NEW new \in Status \ {"absent"}
  PROVE  /\ new = st => Heading(w, i, new, st)
         /\ \E other \in Status \ {"absent"} : Heading(w, i, new, other)
<1>1. PICK k \in {0} \cup DOMAIN w :
        /\ LastFirm(w, i, k)
        /\ LET from == IF k = 0 THEN base ELSE w[k].status IN
             st = IF from # "absent" /\ Later(w, i, k) THEN "offline" ELSE from
  BY DEF Heading
<1>2. CASE k = 0
  <2>1. base # "absent" /\ (st = IF Later(w, i, 0) THEN "offline" ELSE base)
    BY <1>1, <1>2
  <2>2. Heading(w, i, new, IF Later(w, i, 0) THEN "offline" ELSE new)
    BY <1>1, <1>2 DEF Heading
  <2>3. QED
    BY <2>1, <2>2 DEF Status
<1>3. CASE k # 0
  <2>1. Heading(w, i, new, st)
    BY <1>1, <1>3 DEF Heading
  <2>2. QED
    BY <2>1
<1>4. QED
  BY <1>2, <1>3

\* Receiving the first frame leads to the same.
LEMMA FirstEvent ==
  ASSUME NEW w \in Seq(Event), w # <<>>, NEW i, NEW base, NEW st, Heading(w, i, base, st),
         Head(w).kind = "agent_status" => Head(w).status = "offline"
  PROVE  LET e == Head(w)
             new == IF e.id # i \/ (e.kind = "agent_status" /\ base = "absent") THEN base ELSE e.status
         IN  Heading(Tail(w), i, new, st)
<1> DEFINE e == Head(w)
           v == Tail(w)
           new == IF e.id # i \/ (e.kind = "agent_status" /\ base = "absent") THEN base ELSE e.status
<1>1. /\ DOMAIN w \subseteq Nat \ {0} /\ 1 \in DOMAIN w /\ w[1] = e
      /\ \A k \in DOMAIN v : k \in Nat /\ k > 0 /\ k + 1 \in DOMAIN w /\ v[k] = w[k + 1]
      /\ \A k \in DOMAIN w : k = 1 \/ (k - 1 \in DOMAIN v /\ v[k - 1] = w[k])
  OBVIOUS
<1> HIDE DEF v
<1>2. PICK k \in {0} \cup DOMAIN w :
        /\ LastFirm(w, i, k)
        /\ LET from == IF k = 0 THEN base ELSE w[k].status IN
             st = IF from # "absent" /\ Later(w, i, k) THEN "offline" ELSE from
  BY DEF Heading
<1>3. e.kind = "agent_status" => e.status = "offline"
  OBVIOUS
<1> HIDE DEF e
<1>4. CASE k = 0
  <2>1. LastFirm(v, i, 0) /\ ~Firm(w, i, 1)
    BY <1>1, <1>2, <1>4 DEF LastFirm, Firm
  <2>2. CASE e.id = i
    <3>1. e.kind = "agent_status" /\ Later(w, i, 0)
      BY <1>1, <2>1, <2>2 DEF Firm, Later
    <3>2. st = IF base = "absent" THEN "absent" ELSE "offline"
      BY <1>2, <1>4, <3>1
    <3>3. new = st
      BY <1>3, <2>2, <3>1, <3>2
    <3>4. st = IF new # "absent" /\ Later(v, i, 0) THEN "offline" ELSE new
      BY <3>2, <3>3
    <3>5. QED
      BY <2>1, <3>4 DEF Heading, e, v
  <2>3. CASE e.id # i
    <3>1. Later(v, i, 0) <=> Later(w, i, 0)
      BY <1>1, <2>3 DEF Later
    <3>2. new = base
      BY <2>3
    <3>3. QED
      BY <1>2, <1>4, <2>1, <3>1, <3>2 DEF Heading, e, v
  <2>4. QED
    BY <2>2, <2>3
<1>5. CASE k = 1
  <2>1. e.id = i /\ e.kind # "agent_status"
    BY <1>1, <1>2, <1>5 DEF LastFirm, Firm
  <2>2. LastFirm(v, i, 0)
    BY <1>1, <1>2, <1>5 DEF LastFirm, Firm
  <2>3. Later(v, i, 0) <=> Later(w, i, 1)
    BY <1>1 DEF Later
  <2>4. new = w[1].status
    BY <1>1, <2>1
  <2>5. QED
    BY <1>2, <1>5, <2>2, <2>3, <2>4 DEF Heading, e, v
<1>6. CASE k # 0 /\ k # 1
  <2> DEFINE j == k - 1
  <2>1. j \in DOMAIN v /\ j # 0 /\ v[j] = w[k] /\ j \in Nat /\ k = j + 1
    <3>1. k \in DOMAIN w /\ k \in Nat
      BY <1>1, <1>2, <1>6
    <3>2. QED
      BY <1>1, <1>6, <3>1
  <2> HIDE DEF j
  <2>2. /\ k \in Nat /\ \A l \in DOMAIN v : l \in Nat /\ (l > j <=> l + 1 > k)
        /\ \A l \in DOMAIN w : l > k => l # 1 /\ l \in Nat /\ l - 1 \in Nat /\ l - 1 + 1 = l
    <3>1. DOMAIN v \subseteq Nat /\ DOMAIN w \subseteq Nat /\ k \in Nat /\ j \in Nat /\ k = j + 1 /\ j # 0
      BY <1>1, <2>1
    <3>2. QED
      BY <3>1
  <2>3. LastFirm(v, i, j)
    <3>1. Firm(v, i, j)
      BY <1>2, <1>6, <2>1 DEF LastFirm, Firm
    <3>2. ASSUME NEW l \in DOMAIN v, l > j PROVE ~Firm(v, i, l)
      <4>1. l + 1 \in DOMAIN w /\ v[l] = w[l + 1] /\ l + 1 > k
        BY <1>1, <2>2, <3>2
      <4>2. ~Firm(w, i, l + 1)
        BY <1>2, <4>1 DEF LastFirm
      <4>3. QED
        BY <4>1, <4>2 DEF Firm
    <3>3. QED
      BY <3>1, <3>2 DEF LastFirm
  <2>4. Later(v, i, j) <=> Later(w, i, k)
    <3>1. ASSUME NEW l \in DOMAIN v, l > j, v[l].id = i PROVE Later(w, i, k)
      BY <1>1, <2>2, <3>1 DEF Later
    <3>2. ASSUME NEW l \in DOMAIN w, l > k, w[l].id = i PROVE Later(v, i, j)
      <4>1. l - 1 \in DOMAIN v /\ v[l - 1] = w[l] /\ l - 1 > j
        BY <1>1, <2>2, <3>2
      <4>2. QED
        BY <3>2, <4>1 DEF Later
    <3>3. QED
      BY <3>1, <3>2 DEF Later
  <2>5. st = IF v[j].status # "absent" /\ Later(v, i, j) THEN "offline" ELSE v[j].status
    BY <1>2, <1>6, <2>1, <2>4
  <2>6. \A x : Heading(v, i, x, st)
    BY <2>1, <2>3, <2>5 DEF Heading
  <2>7. QED
    BY <2>6 DEF e, v
<1>7. QED
  BY <1>4, <1>5, <1>6
-----------------------------------------------------------------------------
(* What kinds of events are where.                                         *)

\* A step that leaves the wire and the page alone, and prepares no agent_status.
LEMMA PathAside ==
  ASSUME PathInv, UNCHANGED <<wire, page>>,
         \A h \in Handlers : \/ handler'[h] = handler[h]
                            \/ handler'[h].pc # "publish"
                            \/ handler'[h].event.kind # "agent_status"
  PROVE  PathInv'
BY DEF PathInv, Open

\* One request takes a step.
LEMMA PathWork ==
  ASSUME PathInv, UNCHANGED <<wire, page>>, ServerTyped, NEW h \in Handlers, NEW next,
         handler' = [handler EXCEPT ![h] = next], next.pc # "publish" \/ next.event.kind # "agent_status"
  PROVE  PathInv'
BY PathAside DEF ServerTyped

\* A publication.
LEMMA PathSend ==
  ASSUME PathInv, PageTyped, NEW e \in Event, Send(e), e.kind = "agent_status" => e.status = "offline",
         page' = page, \A h \in Handlers : handler'[h] = handler[h] \/ handler'[h] = Idle
  PROVE  PathInv'
<1>1. \A h \in Handlers : handler'[h].pc = "publish" => handler'[h].event.kind # "agent_status"
  BY DEF PathInv, Idle
<1>2. \A k \in DOMAIN wire' : wire'[k].kind = "agent_status" => wire'[k].status = "offline"
  <2>1. CASE wire' = wire
    BY <2>1 DEF PathInv
  <2>2. CASE wire' = Append(wire, e)
    <3>1. \A k \in DOMAIN wire' : wire'[k] = e \/ (k \in DOMAIN wire /\ wire'[k] = wire[k])
      BY <2>2, Appended DEF PageTyped
    <3>2. QED
      BY <3>1 DEF PathInv
  <2>3. QED
    BY <2>1, <2>2 DEF Send
<1>3. ~Open' => wire' = <<>>
  BY DEF Send, PathInv, Open
<1>4. QED
  BY <1>1, <1>2, <1>3 DEF PathInv

\* What the page does.
LEMMA PathOfPage == ASSUME PathInv, PageTyped, PageStep PROVE PathInv'
<1>1. UNCHANGED handler
  BY DEF PageStep, OpenStream, LoseStream, Ask, Answer, FetchFails, Merge, Receive, Reload
<1>2. \A h \in Handlers : handler'[h].pc = "publish" => handler'[h].event.kind # "agent_status"
  BY <1>1 DEF PathInv
<1>3. CASE Receive
  <2>1. \A k \in DOMAIN wire' : k + 1 \in DOMAIN wire /\ wire'[k] = wire[k + 1]
    BY <1>3 DEF Receive, PageTyped
  <2>2. page' = page /\ wire # <<>>
    BY <1>3 DEF Receive
  <2>3. QED
    BY <1>2, <2>1, <2>2 DEF PathInv, Open
<1>4. CASE LoseStream \/ Reload
  BY <1>2, <1>4 DEF LoseStream, Reload, Loading, PathInv, PageTyped
<1>5. CASE OpenStream \/ Ask \/ Answer \/ FetchFails \/ Merge
  <2>1. wire' = wire /\ (~Open' => ~Open) /\ (page'.fetch # "answered" => page'.list = Nobody)
    BY <1>5 DEF OpenStream, Ask, Answer, FetchFails, Merge, PathInv, PageTyped, Open
  <2>2. QED
    BY <1>2, <2>1 DEF PathInv
<1>6. QED
  BY <1>3, <1>4, <1>5 DEF PageStep

\* Every step keeps PathInv.
LEMMA PathKept == ServerTyped /\ PageTyped /\ PathInv /\ [Next]_vars => PathInv'
<1> SUFFICES ASSUME ServerTyped, PageTyped, PathInv, [Next]_vars PROVE PathInv'
  OBVIOUS
<1>1. Idle.pc = "idle"
  BY DEF Idle
<1>2. ASSUME NEW h \in Handlers, Request(h) PROVE PathInv'
  <2>1. UNCHANGED <<wire, page>>
    BY <1>2 DEF Request, Register, Unregister, Update
  <2>2. ASSUME NEW k \in Handlers
        PROVE  \/ handler'[k] = handler[k]
               \/ handler'[k].pc # "publish"
               \/ handler'[k].event.kind # "agent_status"
    BY <1>2 DEF Request, Register, Unregister, Update, Detached, Publishing, Copying, Refetching, Idle, About,
                ServerTyped
  <2>3. QED
    BY <2>1, <2>2, PathAside
<1>3. ASSUME NEW h \in Handlers, Copy(h) PROVE PathInv'
  BY <1>3, PathWork DEF Copy, Publishing, About
<1>4. ASSUME NEW h \in Handlers, Refetch(h) PROVE PathInv'
  BY <1>1, <1>4, PathWork DEF Refetch, Publishing, About
<1>5. ASSUME NEW h \in Handlers, Publish(h) PROVE PathInv'
  <2>1. handler[h].event \in Event /\ handler[h].event.kind # "agent_status"
    BY <1>1, <1>5 DEF Publish, ServerTyped, Working, PathInv
  <2>2. Send(handler[h].event) /\ page' = page
    BY <1>5 DEF Publish
  <2>3. \A k \in Handlers : handler'[k] = handler[k] \/ handler'[k] = Idle
    BY <1>5 DEF Publish, Return, ServerTyped
  <2>4. QED
    BY <2>1, <2>2, <2>3, PathSend
<1>6. CASE PublishOffline
  <2> DEFINE e == About("agent_status", watcher.id, "offline")
  <2>1. e \in Event
    BY <1>6, AboutIsEvent DEF PublishOffline, ServerTyped, Status
  <2>2. e.status = "offline"
    BY DEF About
  <2>3. Send(e) /\ page' = page /\ handler' = handler
    BY <1>6 DEF PublishOffline
  <2> HIDE DEF e
  <2>4. QED
    BY <2>1, <2>2, <2>3, PathSend
<1>7. ASSUME NEW i \in Ids, Touch(i) \/ Mark(i) PROVE PathInv'
  BY <1>7, PathAside DEF Touch, Mark
<1>8. ASSUME NEW stale \in SUBSET Ids, Tick(stale) PROVE PathInv'
  BY <1>8, PathAside DEF Tick
<1>9. CASE UNCHANGED vars
  BY <1>9, PathAside DEF vars
<1>10. CASE Next
  BY <1>2, <1>3, <1>4, <1>5, <1>6, <1>7, <1>8, <1>10, PathOfPage DEF Next, Watch
<1>11. QED
  BY <1>9, <1>10

-----------------------------------------------------------------------------
(* What the page will show of one agent.                                   *)

\* How to foresee after a step.
LEMMA Foreseeing ==
  ASSUME NEW i \in Ids, NEW st \in Status, NEW base, base = Base(i)', Heading(wire', i, base, st),
         (st = "absent") <=> (status'[i] = "absent"),
         <<i, "status">> \in untold' \/ OfflineDue(i)' \/ st = status'[i]
  PROVE  Foreseen(i)'
BY DEF Foreseen, Exists

\* A step that does not concern i.
LEMMA Undisturbed ==
  ASSUME NEW i \in Ids, Foreseen(i), status'[i] = status[i], wire' = wire, Base(i)' = Base(i),
         <<i, "status">> \in untold => <<i, "status">> \in untold',
         OfflineDue(i) => OfflineDue(i)' \/ <<i, "status">> \in untold'
  PROVE  Foreseen(i)'
<1>1. PICK st \in Status :
        /\ Heading(wire, i, Base(i), st)
        /\ (st = "absent") <=> ~Exists(i)
        /\ <<i, "status">> \in untold \/ OfflineDue(i) \/ st = status[i]
  BY DEF Foreseen
<1> DEFINE base == Base(i)
<1>2. base = Base(i)' /\ Heading(wire', i, base, st)
  BY <1>1
<1> HIDE DEF base
<1>3. QED
  BY <1>1, <1>2, Foreseeing DEF Exists

\* The base depends on the status of i, the page and what it shows of i.
LEMMA SameBase ==
  ASSUME NEW i \in Ids, status'[i] = status[i], UNCHANGED <<page, shown>>
  PROVE  Base(i)' = Base(i)
BY DEF Base, Exists

\* A page that has, or will have, i in its list with the present status.
LEMMA Anchored ==
  ASSUME NEW i \in Ids, NEW w \in Seq(Event), NEW base, NEW st \in Status \ {"absent"}, Heading(w, i, base, st),
         w = wire', Base(i)' = status'[i], status'[i] \in Status \ {"absent"},
         <<i, "status">> \in untold' \/ OfflineDue(i)' \/ st = status'[i]
  PROVE  Foreseen(i)'
<1> DEFINE new == status'[i]
<1>1. /\ new = st => Heading(w, i, new, st)
      /\ \E other \in Status \ {"absent"} : Heading(w, i, new, other)
  <2> HIDE DEF new
  <2>1. new \in Status \ {"absent"}
    BY DEF new
  <2>2. QED
    BY <2>1, OtherBase
<1>2. CASE st = new
  BY <1>1, <1>2, Foreseeing
<1>3. CASE st # new
  <2>1. PICK other \in Status \ {"absent"} : Heading(w, i, new, other)
    BY <1>1
  <2>2. QED
    BY <1>3, <2>1, Foreseeing
<1>4. QED
  BY <1>2, <1>3

\* An agent changes its status, which some event will tell or none ever will.
LEMMA StatusMoves ==
  ASSUME PageTyped, status \in Statuses, NEW i \in Ids, Exists(i), Foreseen(i), status'[i] \in Status \ {"absent"},
         UNCHANGED <<wire, page, shown>>, <<i, "status">> \in untold' \/ OfflineDue(i)'
  PROVE  Foreseen(i)'
<1>1. PICK st \in Status \ {"absent"} : Heading(wire, i, Base(i), st)
  BY DEF Foreseen
<1> DEFINE base == Base(i)
<1>2. Heading(wire, i, base, st) /\ wire \in Seq(Event) /\ wire' = wire
  BY <1>1 DEF PageTyped
<1>3. CASE page.fetch = "asked"
  <2>1. Base(i)' = status'[i]
    BY <1>3 DEF Base, Exists
  <2> HIDE DEF base
  <2>2. QED
    BY <1>2, <2>1, Anchored
<1>4. CASE page.fetch # "asked"
  <2>1. base = Base(i)'
    BY <1>4 DEF Base
  <2> HIDE DEF base
  <2>2. QED
    BY <1>2, <2>1, Foreseeing
<1>5. QED
  BY <1>3, <1>4

-----------------------------------------------------------------------------
(* Requests that change an agent or prepare an event.                      *)

\* A step of one request, that may take agents from others which then have the
\* event ready, keeps what the others owe to an agent it leaves alone.
LEMMA StillDue ==
  ASSUME NEW h \in Handlers, NEW i \in Ids, status'[i] = status[i],
         ~DueBy(h, i) \/ DueBy(h, i)',
         \A k \in Handlers \ {h} :
            \/ handler'[k] = handler[k]
            \/ /\ handler[k].pc = "copy"
               /\ handler'[k] = Publishing(About("agent_registered", handler[k].id, status[handler[k].id])),
         Due(i)
  PROVE  Due(i)'
<1>1. PICK k \in Handlers : DueBy(k, i)
  BY DEF Due
<1>2. CASE k = h
  BY <1>1, <1>2 DEF Due
<1>3. CASE k # h /\ handler'[k] = handler[k]
  <2>1. DueBy(k, i)'
    BY <1>1, <1>3 DEF DueBy, Exists
  <2>2. QED
    BY <2>1 DEF Due
<1>4. CASE /\ k # h /\ handler[k].pc = "copy"
           /\ handler'[k] = Publishing(About("agent_registered", handler[k].id, status[handler[k].id]))
  <2>1. handler[k].id = i
    BY <1>1, <1>4 DEF DueBy
  <2>2. handler'[k].pc = "publish" /\ handler'[k].event.id = i
    BY <1>4, <2>1 DEF Publishing, About
  <2>3. QED
    BY <2>2 DEF Due, DueBy
<1>5. QED
  BY <1>2, <1>3, <1>4

\* What such a step does for an agent it leaves alone.
LEMMA AsideOfRequest ==
  ASSUME NEW h \in Handlers, NEW i \in Ids, status'[i] = status[i],
         UNCHANGED <<watcher, wire, page, shown>>, untold \subseteq untold',
         ~DueBy(h, i) \/ DueBy(h, i)',
         \A k \in Handlers \ {h} :
            \/ handler'[k] = handler[k]
            \/ /\ handler[k].pc = "copy"
               /\ handler'[k] = Publishing(About("agent_registered", handler[k].id, status[handler[k].id])),
         Accounted(i)
  PROVE  Accounted(i)'
<1>1. CASE <<i, "entry">> \in untold
  BY <1>1 DEF Accounted
<1>2. CASE Due(i)
  BY <1>2, StillDue DEF Accounted
<1>3. CASE Foreseen(i)
  <2>1. Base(i)' = Base(i)
    BY SameBase
  <2>2. Foreseen(i)'
    BY <1>3, <2>1, Undisturbed DEF OfflineDue
  <2>3. QED
    BY <2>2 DEF Accounted
<1>4. QED
  BY <1>1, <1>2, <1>3 DEF Accounted

\* A registration owes the dashboard the agents that it replaced, and its own
\* entry until the event with the copy is on its way.
LEMMA RegisterAccounts ==
  ASSUME ServerTyped, NEW h \in Handlers, NEW i \in Ids, NEW saved \in BOOLEAN, Register(h, i, saved),
         NEW j \in Ids, Accounted(j)
  PROVE  Accounted(j)'
<1> DEFINE next == IF saved THEN Copying(i) ELSE Idle
<1>1. /\ handler[h].pc = "idle" /\ handler' = Detached(h, next, Rivals(i) \cup {i})
      /\ untold' = untold \cup (Rivals(i) \cup IF saved THEN {} ELSE {i}) \X {"entry"}
      /\ UNCHANGED <<watcher, wire, page, shown>>
  BY DEF Register
<1>2. handler'[h] = next
  BY <1>1 DEF Detached
<1>3. CASE j = i /\ saved
  <2>1. DueBy(h, j)'
    BY <1>2, <1>3 DEF DueBy, Copying
  <2>2. QED
    BY <2>1 DEF Accounted, Due
<1>4. CASE (j = i /\ ~saved) \/ j \in Rivals(i)
  BY <1>1, <1>4 DEF Accounted
<1>5. CASE j # i /\ j \notin Rivals(i)
  <2>1. status'[j] = status[j]
    BY <1>5 DEF Register
  <2>2. ~DueBy(h, j)
    BY <1>1 DEF DueBy
  <2>3. untold \subseteq untold'
    BY <1>1
  <2> HIDE DEF next
  <2>4. ASSUME NEW k \in Handlers \ {h}
        PROVE  \/ handler'[k] = handler[k]
               \/ /\ handler[k].pc = "copy"
                  /\ handler'[k] = Publishing(About("agent_registered", handler[k].id, status[handler[k].id]))
    BY <1>1 DEF Detached
  <2>5. QED
    BY <1>1, <2>1, <2>2, <2>3, <2>4, AsideOfRequest
<1>6. QED
  BY <1>3, <1>4, <1>5

\* An unregistration owes the dashboard the entry until its event is on its way.
LEMMA UnregisterAccounts ==
  ASSUME ServerTyped, NEW h \in Handlers, NEW i \in Ids, NEW saved \in BOOLEAN, Unregister(h, i, saved),
         NEW j \in Ids, Accounted(j)
  PROVE  Accounted(j)'
<1> DEFINE gone == About("agent_unregistered", i, "absent")
           next == IF saved THEN Publishing(gone) ELSE Idle
<1>1. /\ handler[h].pc = "idle" /\ handler' = Detached(h, next, {i})
      /\ untold' = IF saved THEN untold ELSE untold \cup {<<i, "entry">>}
      /\ UNCHANGED <<watcher, wire, page, shown>>
  BY DEF Unregister
<1>2. handler'[h] = next
  BY <1>1 DEF Detached
<1>3. CASE j = i /\ saved
  <2>1. gone.id = i
    BY DEF About
  <2>2. DueBy(h, j)'
    BY <1>2, <1>3, <2>1 DEF DueBy, Publishing
  <2>3. QED
    BY <2>2 DEF Accounted, Due
<1>4. CASE j = i /\ ~saved
  BY <1>1, <1>4 DEF Accounted
<1>5. CASE j # i
  <2>1. status'[j] = status[j] /\ ~DueBy(h, j) /\ untold \subseteq untold'
    BY <1>1, <1>5 DEF Unregister, DueBy, ServerTyped, Statuses
  <2> HIDE DEF next
  <2>2. ASSUME NEW k \in Handlers \ {h}
        PROVE  \/ handler'[k] = handler[k]
               \/ /\ handler[k].pc = "copy"
                  /\ handler'[k] = Publishing(About("agent_registered", handler[k].id, status[handler[k].id]))
    BY <1>1 DEF Detached
  <2>3. QED
    BY <1>1, <2>1, <2>2, AsideOfRequest
<1>6. QED
  BY <1>3, <1>4, <1>5

\* An update owes the dashboard the copy that it still has to make.
LEMMA UpdateAccounts ==
  ASSUME ServerTyped, NEW h \in Handlers, NEW i \in Ids, NEW st \in {"idle", "offline"}, Update(h, i, st),
         NEW j \in Ids, Accounted(j)
  PROVE  Accounted(j)'
<1>1. /\ handler[h].pc = "idle" /\ handler' = [handler EXCEPT ![h] = Refetching(i)]
      /\ status' = [status EXCEPT ![i] = st]
      /\ UNCHANGED <<watcher, wire, page, shown, untold>>
  BY DEF Update
<1>2. \A k \in Handlers : handler'[k] = IF k = h THEN Refetching(i) ELSE handler[k]
  BY <1>1 DEF ServerTyped
<1>3. CASE j = i
  <2>1. status'[j] = st
    BY <1>1, <1>3 DEF ServerTyped, Statuses
  <2>2. DueBy(h, j)'
    BY <1>2, <1>3, <2>1 DEF DueBy, Refetching, Exists
  <2>3. QED
    BY <2>2 DEF Accounted, Due
<1>4. CASE j # i
  <2>1. status'[j] = status[j] /\ ~DueBy(h, j) /\ untold \subseteq untold'
    BY <1>1, <1>4 DEF DueBy, ServerTyped, Statuses
  <2>2. QED
    BY <1>1, <1>2, <2>1, AsideOfRequest
<1>5. QED
  BY <1>3, <1>4

\* The event that a request prepares is about the agent it was working for; only
\* an agent that is gone has none.
LEMMA PreparingAccounts ==
  ASSUME ServerTyped, NEW h \in Handlers, Copy(h) \/ Refetch(h), NEW j \in Ids, Accounted(j)
  PROVE  Accounted(j)'
<1> DEFINE i == handler[h].id
<1>1. UNCHANGED <<status, watcher, wire, page, shown, untold>>
  BY DEF Copy, Refetch
<1>2. /\ \A k \in Handlers \ {h} : handler'[k] = handler[k]
      /\ \/ handler[h].pc = "copy" /\ handler'[h] = Publishing(About("agent_registered", i, status[i]))
         \/ /\ handler[h].pc = "refetch"
            /\ Exists(i) => handler'[h] = Publishing(About("agent_updated", i, status[i]))
  BY DEF Copy, Refetch, ServerTyped
<1>3. ~DueBy(h, j) \/ DueBy(h, j)'
  <2>1. SUFFICES ASSUME DueBy(h, j) PROVE DueBy(h, j)'
    OBVIOUS
  <2>2. i = j
    BY <1>2, <2>1 DEF DueBy
  <2>3. handler'[h].pc = "publish" /\ handler'[h].event.id = i
    BY <1>2, <2>1, <2>2 DEF DueBy, Publishing, About
  <2>4. QED
    BY <2>2, <2>3 DEF DueBy
<1>4. QED
  BY <1>1, <1>2, <1>3, AsideOfRequest

-----------------------------------------------------------------------------
(* Publication.                                                            *)

\* The histories after a publication.
LEMMA SendTells ==
  ASSUME NEW e, Send(e), NEW i \in Ids
  PROVE  /\ ~astray' => ~astray
         /\ i # e.id => (<<i, "entry">> \in untold <=> <<i, "entry">> \in untold')
                     /\ (<<i, "status">> \in untold <=> <<i, "status">> \in untold')
         /\ e.kind = "agent_status" => (<<i, "entry">> \in untold <=> <<i, "entry">> \in untold')
BY DEF Send, Told

\* A publication about another agent.
LEMMA AsideOfSend ==
  ASSUME PageTyped, NEW e \in Event, Send(e), NEW i \in Ids, i # e.id, UNCHANGED <<status, page, shown>>,
         OfflineDue(i) => OfflineDue(i)', Foreseen(i)
  PROVE  Foreseen(i)'
<1>1. PICK st \in Status :
        /\ Heading(wire, i, Base(i), st)
        /\ (st = "absent") <=> ~Exists(i)
        /\ <<i, "status">> \in untold \/ OfflineDue(i) \/ st = status[i]
  BY DEF Foreseen
<1> DEFINE base == Base(i)
<1>2. base = Base(i)' /\ Heading(wire, i, base, st)
  BY <1>1, SameBase
<1> HIDE DEF base
<1>3. Heading(wire', i, base, st)
  <2>1. wire \in Seq(Event) /\ (wire' = wire \/ wire' = Append(wire, e))
    BY DEF PageTyped, Send
  <2>2. QED
    BY <1>2, <2>1, OtherEvent
<1>4. <<i, "status">> \in untold => <<i, "status">> \in untold'
  BY SendTells
<1>5. QED
  BY <1>1, <1>2, <1>3, <1>4, Foreseeing DEF Exists

\* A page without agents that is not connected gets everything from the list.
LEMMA FreshPage ==
  ASSUME PathInv, ServerTyped, ~Open, Blank, NEW i \in Ids, UNCHANGED <<status, wire, page, shown>>
  PROVE  Foreseen(i)'
<1>1. wire' = <<>> /\ page'.fetch = "asked" /\ page'.list[i] = "absent" /\ shown'[i] = "absent"
  BY DEF PathInv, Blank, Nobody
<1> DEFINE st == status'[i]
<1>2. st = Base(i)' /\ st \in Status
  BY <1>1 DEF Base, Exists, ServerTyped, Statuses
<1> HIDE DEF st
<1>3. Heading(wire', i, st, st)
  BY <1>1, HeadingOfNothing
<1>4. QED
  BY <1>2, <1>3, Foreseeing DEF st

\* An event that a handler publishes takes over what the handler owed: it joins
\* the wire, or it is told nobody and the page has gone astray.
LEMMA PublishAccounts ==
  ASSUME ServerTyped, PageTyped, PathInv, NEW h \in Handlers, Publish(h), ~astray',
         NEW i \in Ids, ~astray => Accounted(i)
  PROVE  Accounted(i)'
<1> DEFINE e == handler[h].event
<1>1. /\ Idle.pc = "idle" /\ handler[h].pc = "publish" /\ handler'[h] = Idle
      /\ \A k \in Handlers \ {h} : handler'[k] = handler[k]
      /\ Send(e) /\ UNCHANGED <<status, watcher, page, shown>>
  BY DEF Publish, Return, ServerTyped, Idle
<1>2. e \in Event /\ e.kind # "agent_status"
  BY <1>1 DEF ServerTyped, Working, PathInv
<1>3. e.id \in Ids
  BY <1>2 DEF Event
<1>4. Accounted(i)
  BY <1>1, SendTells
<1>5. CASE i # e.id
  <2>1. CASE <<i, "entry">> \in untold
    BY <1>1, <1>5, <2>1, SendTells DEF Accounted
  <2>2. CASE Due(i)
    <3>1. ~DueBy(h, i)
      BY <1>1, <1>5 DEF DueBy
    <3>2. Due(i)'
      BY <1>1, <2>2, <3>1, StillDue
    <3>3. QED
      BY <3>2 DEF Accounted
  <2>3. CASE Foreseen(i)
    <3> HIDE DEF e
    <3>1. Foreseen(i)'
      BY <1>1, <1>2, <1>5, <2>3, AsideOfSend DEF OfflineDue
    <3>2. QED
      BY <3>1 DEF Accounted
  <2>4. QED
    BY <1>4, <2>1, <2>2, <2>3 DEF Accounted
<1>6. CASE i = e.id
  <2>1. CASE Followed(e)
    <3>1. PICK k \in Handlers :
            \/ handler[k].pc = "copy" /\ handler[k].id = e.id
            \/ handler[k].pc = "refetch" /\ handler[k].id = e.id /\ Exists(e.id)
            \/ handler[k].pc = "publish" /\ handler[k].event.id = e.id /\ handler[k].event # e
      BY <2>1 DEF Followed
    <3>2. k # h
      BY <1>1, <3>1
    <3>3. DueBy(k, i)'
      BY <1>1, <1>6, <3>1, <3>2 DEF DueBy, Exists
    <3>4. QED
      BY <3>3 DEF Accounted, Due
  <2>2. CASE ~Followed(e) /\ Open /\ wire' = Append(wire, e) /\ astray' = (astray \/ Crossed(e))
    <3> HIDE DEF e
    <3>1. status'[i] = e.status /\ e.status \in Status
      BY <1>1, <1>2, <1>6, <2>2 DEF Crossed, Event
    <3>2. ASSUME NEW base PROVE Heading(wire', i, base, e.status)
      BY <1>2, <1>6, <2>2, FirmEvent DEF PageTyped
    <3>3. Foreseen(i)'
      BY <3>1, <3>2, Foreseeing
    <3>4. QED
      BY <3>3 DEF Accounted
  <2>3. CASE ~Open /\ wire' = wire /\ astray' = (astray \/ ~Blank)
    <3>1. Foreseen(i)'
      BY <1>1, <2>3, FreshPage
    <3>2. QED
      BY <3>1 DEF Accounted
  <2>4. QED
    BY <1>1, <2>1, <2>2, <2>3 DEF Send
<1>7. QED
  BY <1>5, <1>6

\* So does the event of the watcher.
LEMMA PublishOfflineAccounts ==
  ASSUME ServerTyped, PageTyped, PathInv, PublishOffline, ~astray',
         NEW i \in Ids, ~astray => Accounted(i)
  PROVE  Accounted(i)'
<1> DEFINE e == About("agent_status", watcher.id, "offline")
<1>1. /\ watcher.at = "publish" /\ Send(e) /\ UNCHANGED <<status, handler, page, shown>>
      /\ e.id = watcher.id /\ e.kind = "agent_status" /\ e.status = "offline"
  BY DEF PublishOffline, About
<1>2. e \in Event
  BY <1>1, AboutIsEvent DEF ServerTyped, Status
<1> HIDE DEF e
<1>3. Accounted(i)
  BY <1>1, SendTells
<1>4. CASE <<i, "entry">> \in untold
  BY <1>1, <1>4, SendTells DEF Accounted
<1>5. CASE Due(i)
  BY <1>1, <1>5 DEF Accounted, Due, DueBy, Exists
<1>6. CASE Foreseen(i) /\ ~Due(i)
  <2>1. CASE i # e.id
    <3>1. Foreseen(i)'
      BY <1>1, <1>2, <1>6, <2>1, AsideOfSend DEF OfflineDue
    <3>2. QED
      BY <3>1 DEF Accounted
  <2>2. CASE i = e.id /\ Open /\ wire' = Append(wire, e) /\ astray' = (astray \/ Crossed(e))
    <3>1. PICK st \in Status : Heading(wire, i, Base(i), st) /\ ((st = "absent") <=> ~Exists(i))
      BY <1>6 DEF Foreseen
    <3> DEFINE new == IF st = "absent" THEN "absent" ELSE "offline"
               base == Base(i)
    <3>2. base = Base(i)' /\ Heading(wire, i, base, st)
      BY <1>1, <3>1, SameBase
    <3> HIDE DEF base
    <3>3. Heading(wire', i, base, new)
      BY <1>1, <1>2, <2>2, <3>2, StatusEvent DEF PageTyped
    <3>4. ~Followed(e)
      BY <1>6, <2>2 DEF Followed, Due, DueBy
    <3>5. status'[i] = new /\ new \in Status
      BY <1>1, <2>2, <3>1, <3>4 DEF Crossed, Exists, Status
    <3> HIDE DEF new
    <3>6. (new = "absent") <=> (status'[i] = "absent")
      BY <3>5
    <3>7. Foreseen(i)'
      BY <3>2, <3>3, <3>5, <3>6, Foreseeing
    <3>8. QED
      BY <3>7 DEF Accounted
  <2>3. CASE ~Open /\ wire' = wire /\ astray' = (astray \/ ~Blank)
    <3>1. Foreseen(i)'
      BY <1>1, <2>3, FreshPage
    <3>2. QED
      BY <3>1 DEF Accounted
  <2>4. QED
    BY <1>1, <2>1, <2>2, <2>3 DEF Send
<1>7. QED
  BY <1>3, <1>4, <1>5, <1>6 DEF Accounted

-----------------------------------------------------------------------------
(* Heartbeats and silence.                                                 *)

\* What the others do not touch is still due.
LEMMA WatchAccounts ==
  ASSUME ServerTyped, PageTyped, (\E i \in Ids : Touch(i) \/ Mark(i)) \/ \E stale \in SUBSET Ids : Tick(stale),
         NEW j \in Ids, Accounted(j)
  PROVE  Accounted(j)'
<1>1. UNCHANGED <<handler, wire, page, shown>> /\ untold \subseteq untold' /\ (Exists(j) => Exists(j)')
  BY DEF Touch, Mark, Tick, Exists, ServerTyped, Statuses
<1>2. CASE <<j, "entry">> \in untold
  BY <1>1, <1>2 DEF Accounted
<1>3. CASE Due(j)
  BY <1>1, <1>3 DEF Accounted, Due, DueBy
<1>4. CASE Foreseen(j)
  <2>1. CASE status'[j] = status[j] /\ (OfflineDue(j) => OfflineDue(j)' \/ <<j, "status">> \in untold')
    <3>1. Base(j)' = Base(j)
      BY <1>1, <2>1, SameBase
    <3>2. Foreseen(j)'
      BY <1>1, <1>4, <2>1, <3>1, Undisturbed
    <3>3. QED
      BY <3>2 DEF Accounted
  <2>2. CASE Exists(j) /\ status'[j] \in {"idle", "offline"} /\ (<<j, "status">> \in untold' \/ OfflineDue(j)')
    <3>1. status'[j] \in Status \ {"absent"} /\ status \in Statuses
      BY <2>2 DEF Status, ServerTyped
    <3>2. Foreseen(j)'
      BY <1>1, <1>4, <2>2, <3>1, StatusMoves
    <3>3. QED
      BY <3>2 DEF Accounted
  <2>3. ASSUME NEW i \in Ids, Touch(i) PROVE Accounted(j)'
    <3>1. CASE i = j
      BY <2>2, <2>3, <3>1 DEF Touch, Exists, ServerTyped, Statuses
    <3>2. CASE i # j
      BY <2>1, <2>3, <3>2 DEF Touch, OfflineDue, ServerTyped, Statuses
    <3>3. QED
      BY <3>1, <3>2
  <2>4. ASSUME NEW i \in Ids, Mark(i) PROVE Accounted(j)'
    <3>1. ~OfflineDue(j)
      BY <2>4 DEF Mark, OfflineDue
    <3>2. CASE i = j /\ Exists(i)
      BY <2>2, <2>4, <3>2 DEF Mark, OfflineDue, ServerTyped, Statuses
    <3>3. CASE i # j \/ ~Exists(i)
      BY <2>1, <2>4, <3>1, <3>3 DEF Mark, Exists, ServerTyped, Statuses
    <3>4. QED
      BY <3>2, <3>3
  <2>5. ASSUME NEW stale \in SUBSET Ids, Tick(stale) PROVE Accounted(j)'
    BY <2>1, <2>5 DEF Tick, OfflineDue
  <2>6. QED
    BY <2>3, <2>4, <2>5
<1>5. QED
  BY <1>2, <1>3, <1>4 DEF Accounted

-----------------------------------------------------------------------------
(* The page.                                                               *)

\* The stream, the list and its merge move what the page is heading for only
\* towards the registry.
LEMMA ListAccounts ==
  ASSUME ServerTyped, PageTyped, PathInv, OpenStream \/ LoseStream \/ Ask \/ Answer \/ Merge, ~astray',
         NEW i \in Ids, Foreseen(i)
  PROVE  Foreseen(i)'
<1>1. /\ UNCHANGED <<status, handler, watcher, untold>> /\ wire' = wire
      /\ status[i] \in Status
  BY DEF OpenStream, LoseStream, Ask, Answer, Merge, ServerTyped, Statuses
<1>2. CASE Ask /\ Exists(i)
  <2>1. PICK st \in Status :
          /\ Heading(wire, i, Base(i), st)
          /\ (st = "absent") <=> ~Exists(i)
          /\ <<i, "status">> \in untold \/ OfflineDue(i) \/ st = status[i]
    BY DEF Foreseen
  <2>2. Base(i)' = status'[i] /\ status'[i] \in Status \ {"absent"}
    BY <1>1, <1>2 DEF Ask, Base, Exists, PageTyped
  <2> DEFINE base == Base(i)
  <2>3. Heading(wire, i, base, st) /\ st # "absent"
    BY <1>2, <2>1
  <2> HIDE DEF base
  <2>4. <<i, "status">> \in untold' \/ OfflineDue(i)' \/ st = status'[i]
    BY <1>1, <2>1 DEF OfflineDue
  <2>5. QED
    BY <1>1, <2>2, <2>3, <2>4, Anchored DEF PageTyped
<1>3. CASE ~(Ask /\ Exists(i))
  <2>1. Base(i)' = Base(i)
    <3>1. CASE OpenStream \/ LoseStream
      BY <3>1 DEF OpenStream, LoseStream, Base, Exists, PageTyped
    <3>2. CASE Ask
      BY <1>3, <3>2 DEF Ask, Base, Exists, PageTyped, PathInv, Nobody
    <3>3. CASE Answer
      BY <3>3 DEF Answer, Base, Exists, PageTyped, PathInv, Nobody
    <3>4. CASE Merge
      BY <3>4 DEF Merge, Base, Exists, PageTyped, PathInv, Nobody
    <3>5. QED
      BY <3>1, <3>2, <3>3, <3>4
  <2>2. QED
    BY <1>1, <2>1, Undisturbed DEF OfflineDue
<1>4. QED
  BY <1>2, <1>3

\* Receiving a frame leads where the frame was leading.
LEMMA ReceiveAccounts ==
  ASSUME ServerTyped, PageTyped, PathInv, Receive, ~astray', NEW i \in Ids, Foreseen(i)
  PROVE  Foreseen(i)'
<1> DEFINE e == Head(wire)
           base == Base(i)
           new == IF e.id # i \/ (e.kind = "agent_status" /\ base = "absent") THEN base ELSE e.status
<1>1. /\ wire \in Seq(Event) /\ wire # <<>> /\ wire' = Tail(wire) /\ wire' \in Seq(Event)
      /\ UNCHANGED <<status, handler, watcher, page, untold>>
      /\ status[i] \in Status /\ page.list \in Statuses
  BY DEF Receive, ServerTyped, PageTyped, Statuses
<1>2. /\ shown' = [shown EXCEPT ![e.id] = ShownAfter(e)] /\ shown \in Statuses
      /\ page.list[e.id] \in {"absent", ShownAfter(e)}
      /\ e.kind = "agent_status" => e.status = "offline"
  <2>1. 1 \in DOMAIN wire /\ e = wire[1]
    BY <1>1
  <2>2. QED
    BY <2>1 DEF Receive, PageTyped, PathInv
<1>3. PICK st \in Status :
        /\ Heading(wire, i, base, st)
        /\ (st = "absent") <=> ~Exists(i)
        /\ <<i, "status">> \in untold \/ OfflineDue(i) \/ st = status[i]
  BY DEF Foreseen
<1>4. Heading(wire', i, new, st)
  <2> HIDE DEF base
  <2>1. Heading(Tail(wire), i, new, st)
    BY ONLY <1>1, <1>2, <1>3, FirstEvent
  <2>2. QED
    BY <1>1, <2>1
<1>5. <<i, "status">> \in untold' \/ OfflineDue(i)' \/ st = status'[i]
  BY <1>1, <1>3 DEF OfflineDue
<1>6. CASE page.fetch = "asked" /\ Exists(i)
  <2>1. Base(i)' = status'[i] /\ status'[i] \in Status \ {"absent"} /\ st # "absent"
    BY <1>1, <1>3, <1>6 DEF Base, Exists
  <2> HIDE DEF new
  <2>2. QED
    BY <1>1, <1>4, <1>5, <2>1, Anchored
<1>7. CASE ~(page.fetch = "asked" /\ Exists(i))
  <2>1. /\ base = IF page.list[i] # "absent" THEN page.list[i] ELSE shown[i]
        /\ Base(i)' = IF page.list[i] # "absent" THEN page.list[i] ELSE shown'[i]
    BY <1>1, <1>7 DEF Base, Exists
  <2> HIDE DEF base, e
  <2>2. new = Base(i)'
    <3>1. CASE e.id # i
      <4>1. shown'[i] = shown[i]
        BY <1>2, <3>1 DEF Statuses
      <4>2. QED
        BY <2>1, <3>1, <4>1
    <3>2. CASE e.id = i /\ page.list[i] = "absent"
      <4>1. shown'[i] = ShownAfter(e)
        BY <1>2, <3>2 DEF Statuses
      <4>2. QED
        BY <2>1, <3>2, <4>1 DEF ShownAfter
    <3>3. CASE e.id = i /\ page.list[i] # "absent"
      <4>1. page.list[i] = ShownAfter(e)
        BY <1>2, <3>3
      <4>2. ShownAfter(e) = e.status
        BY <3>3, <4>1 DEF ShownAfter
      <4>3. QED
        BY <2>1, <3>3, <4>1, <4>2
    <3>4. QED
      BY <3>1, <3>2, <3>3
  <2> HIDE DEF new
  <2>3. (st = "absent") <=> (status'[i] = "absent")
    BY <1>1, <1>3 DEF Exists
  <2>4. QED
    BY <1>4, <1>5, <2>2, <2>3, Foreseeing
<1>8. QED
  BY <1>6, <1>7

\* A page that is loaded gets everything from the list.
LEMMA LoadedPage ==
  ASSUME NEW i \in Ids, status[i] \in Status, page = Loading, wire = <<>>, shown = Nobody
  PROVE  Foreseen(i)
<1>1. Base(i) = status[i]
  BY DEF Base, Loading, Nobody, Exists
<1> DEFINE st == status[i]
<1>2. Heading(wire, i, st, st) /\ st \in Status
  BY HeadingOfNothing
<1>3. QED
  BY <1>1, <1>2 DEF Foreseen, Exists

\* A step of the page pays what was due, or starts again with a reload.
LEMMA PageAccounts ==
  ASSUME ServerTyped, PageTyped, PathInv, PageStep, ~astray', NEW i \in Ids, ~astray => Accounted(i),
         ServerTyped'
  PROVE  Accounted(i)'
<1>1. CASE Reload
  <2>1. page' = Loading /\ wire' = <<>> /\ shown' = Nobody /\ status'[i] \in Status
    BY <1>1 DEF Reload, ServerTyped, Statuses
  <2> DEFINE st == status'[i]
  <2>2. st = Base(i)'
    BY <2>1 DEF Base, Loading, Nobody, Exists
  <2>3. Heading(wire', i, st, st)
    BY <2>1, HeadingOfNothing
  <2>4. Foreseen(i)'
    BY <2>1, <2>2, <2>3, Foreseeing
  <2>5. QED
    BY <2>4 DEF Accounted
<1>2. CASE ~Reload
  <2>1. UNCHANGED <<status, handler, watcher, untold>> /\ ~astray /\ ~FetchFails
    <3>1. ~FetchFails
      BY DEF FetchFails
    <3>2. UNCHANGED <<status, handler, watcher, untold>>
      BY <1>2, <3>1 DEF PageStep, OpenStream, LoseStream, Ask, Answer, Merge, Receive
    <3>3. ~astray
      BY <1>2, <3>1 DEF PageStep, OpenStream, LoseStream, Ask, Answer, Merge, Receive
    <3>4. QED
      BY <3>1, <3>2, <3>3
  <2>2. CASE <<i, "entry">> \in untold
    BY <2>1, <2>2 DEF Accounted
  <2>3. CASE Due(i)
    BY <2>1, <2>3 DEF Accounted, Due, DueBy, Exists
  <2>4. CASE Foreseen(i)
    <3>1. Foreseen(i)'
      BY <1>2, <2>1, <2>4, ListAccounts, ReceiveAccounts DEF PageStep
    <3>2. QED
      BY <3>1 DEF Accounted
  <2>5. QED
    BY <2>1, <2>2, <2>3, <2>4 DEF Accounted
<1>3. QED
  BY <1>1, <1>2

-----------------------------------------------------------------------------
(* The invariant.                                                          *)

\* Every step keeps what the page shows accounted for.
LEMMA FollowKept ==
  ServerTyped /\ PageTyped /\ PathInv /\ FollowInv /\ [Next]_vars => FollowInv'
<1> SUFFICES ASSUME ServerTyped, PageTyped, PathInv, FollowInv, [Next]_vars, ~astray', NEW i \in Ids
             PROVE  Accounted(i)'
  BY DEF FollowInv
<1>1. ServerTyped' /\ (~astray => Accounted(i))
  BY TypesKept DEF FollowInv
<1>2. ASSUME NEW h \in Handlers, Request(h) PROVE Accounted(i)'
  <2>1. ~astray
    BY <1>2 DEF Request, Register, Unregister, Update
  <2>2. QED
    BY <1>1, <1>2, <2>1, RegisterAccounts, UnregisterAccounts, UpdateAccounts DEF Request
<1>3. ASSUME NEW h \in Handlers, Copy(h) \/ Refetch(h) PROVE Accounted(i)'
  <2>1. ~astray
    BY <1>3 DEF Copy, Refetch
  <2>2. QED
    BY <1>1, <1>3, <2>1, PreparingAccounts
<1>4. ASSUME NEW h \in Handlers, Publish(h) PROVE Accounted(i)'
  BY <1>1, <1>4, PublishAccounts
<1>5. CASE PublishOffline
  BY <1>1, <1>5, PublishOfflineAccounts
<1>6. CASE (\E j \in Ids : Touch(j) \/ Mark(j)) \/ \E stale \in SUBSET Ids : Tick(stale)
  <2>1. ~astray
    BY <1>6 DEF Touch, Mark, Tick
  <2>2. QED
    BY <1>1, <1>6, <2>1, WatchAccounts
<1>7. CASE PageStep
  BY <1>1, <1>7, PageAccounts
<1>8. CASE UNCHANGED vars
  <2>1. Accounted(i)
    BY <1>1, <1>8 DEF vars
  <2>2. QED
    BY <1>8, <2>1 DEF vars, Accounted, Due, DueBy, Foreseen, OfflineDue, Base, Exists
<1>9. CASE Next
  BY <1>2, <1>3, <1>4, <1>5, <1>6, <1>7, <1>9 DEF Next, Watch
<1>10. QED
  BY <1>8, <1>9

\* The page agrees with the registry once everything has arrived, except about
\* agents whose replacement, return or unsaved change nobody published, unless
\* it lost something or met it out of order: for any number of agents, of
\* requests, and of frames on their way.
THEOREM DashboardsFollow == Spec => []DashboardFollows
<1> DEFINE Inv == ServerTyped /\ PageTyped /\ PathInv /\ FollowInv
<1>1. Init => Inv
  <2> SUFFICES ASSUME Init PROVE Inv
    OBVIOUS
  <2>1. ServerTyped /\ PageTyped
    BY TypedAtFirst
  <2>2. PathInv
    BY DEF Init, PathInv, Idle, Loading
  <2>3. ASSUME NEW i \in Ids PROVE Accounted(i)
    BY <2>3, LoadedPage DEF Init, Accounted, Statuses
  <2>4. QED
    BY <2>1, <2>2, <2>3 DEF FollowInv
<1>2. Inv /\ [Next]_vars => Inv'
  BY TypesKept, PathKept, FollowKept
<1>3. Inv => DashboardFollows
  <2> SUFFICES ASSUME Inv, Settled, ~astray, NEW i \in Ids, <<i, "entry">> \notin untold, <<i, "status">> \notin untold
               PROVE  shown[i] = status[i]
    BY DEF DashboardFollows
  <2>1. Foreseen(i) /\ ~OfflineDue(i) /\ wire = <<>>
    BY DEF FollowInv, Accounted, Due, DueBy, OfflineDue, Settled
  <2>2. Base(i) = shown[i]
    BY DEF Settled, Base, PathInv, Nobody
  <2>3. QED
    BY <2>1, <2>2 DEF Foreseen, Heading, LastFirm, Firm, Later
<1>4. QED
  BY <1>1, <1>2, <1>3, PTL DEF Spec
=============================================================================
