------------------------- MODULE AgentServerProofs --------------------------
(***************************************************************************)
(* Proofs about AgentServer for any number of agents, hosts, requests in   *)
(* progress and consumers.                                                 *)
(***************************************************************************)
EXTENDS AgentServer, TLAPS

\* The map of cancel functions and the consumers agree: a kept function
\* belongs to a consumer of that host, a goroutine that has not run yet has
\* none, and after a panic there is nothing left of either.
CancelInv ==
  /\ LiveConsumerIsCancellable
  /\ \A c \in Consumers : consumer[c].pc = "pending" =>
       ~consumer[c].cancelled /\ \A u \in Urls : cancels[u] # c
  /\ \A c \in Consumers, u \in Urls :
       cancels[u] = c => consumer[c].pc = "done" \/ consumer[c].url = u
  /\ \A c \in Consumers : consumer[c].pc # "done" => consumer[c].url \in Urls
  /\ \A h \in Handlers :
       handler[h].pc \in {"register", "cancel", "probe", "add"} => handler[h].url \in Urls
  /\ crashed =>
       /\ \A u \in Urls : cancels[u] = NoConsumer
       /\ \A h \in Handlers : handler[h].pc = "idle" /\ enricher[h].pc = "idle"
       /\ \A c \in Consumers : consumer[c].pc = "done"

\* A host has at most one consumer that nobody has cancelled.
OneStreamPerHost ==
  \A c, d \in Consumers :
    /\ Running(c) /\ ~consumer[c].cancelled
    /\ Running(d) /\ ~consumer[d].cancelled
    /\ consumer[c].url = consumer[d].url
    => c = d

-----------------------------------------------------------------------------
(* Types.                                                                  *)

\* A request at work is a handler.
LEMMA DoingType ==
  ASSUME NEW pc \in {"idle", "register", "cancel", "unregister", "probe", "add"},
         NEW id \in Ids \cup {NoId}, NEW url \in Urls \cup {NoUrl}
  PROVE  Doing(pc, id, url) \in Handler
  <1>1. <<>> \in Seq(Ids)
    OBVIOUS
  <1>2. QED
    BY <1>1 DEF Doing, Handler

\* The values of what is not at work have their types.
LEMMA Blanks == Done \in Consumer /\ Idle \in Handler /\ NoEnricher \in Enricher
  BY DoingType DEF Done, Consumer, Idle, NoEnricher, Enricher

\* Cancelling a host's consumer keeps the consumers' type,
LEMMA CancelledAtType ==
  ASSUME TypeOK, NEW url PROVE CancelledAt(url) \in [Consumers -> Consumer]
  BY ZenonT(40) DEF CancelledAt, TypeOK, Consumer

\* and so does cancelConsumer as a whole.
LEMMA CancelConsumerType ==
  ASSUME TypeOK, NEW url, CancelConsumer(url)
  PROVE  consumer' \in [Consumers -> Consumer] /\ cancels' \in [Urls -> Consumers \cup {NoConsumer}]
  BY CancelledAtType DEF CancelConsumer, TypeOK

\* A new consumer is a consumer.
LEMMA SpawnType ==
  ASSUME TypeOK, NEW id \in Ids \cup {NoId}, NEW url \in Urls \cup {NoUrl}, Spawn(id, url)
  PROVE  consumer' \in [Consumers -> Consumer]
  BY DEF Spawn, TypeOK, Consumer

\* Registering yields a registry.
LEMMA RegisteredType ==
  ASSUME TypeOK, NEW id, NEW url \in Urls \cup {NoUrl}
  PROVE  Registered(id, url) \in [Ids -> Urls \cup {NoUrl}]
  BY DEF Registered, TypeOK

\* An answered request leaves an idle handler.
LEMMA ReturnType ==
  ASSUME TypeOK, NEW h \in Handlers, Return(h) PROVE handler' \in [Handlers -> Handler]
  BY Blanks DEF Return, TypeOK

\* The fields of a handler.
LEMMA HandlerFields ==
  ASSUME TypeOK, NEW h \in Handlers
  PROVE  handler[h].id \in Ids \cup {NoId} /\ handler[h].url \in Urls \cup {NoUrl}
         /\ handler[h].rest \in Seq(Ids)
  BY DEF TypeOK, Handler

\* An arriving request keeps the types,
LEMMA RequestType ==
  ASSUME TypeOK, NEW h \in Handlers, Request(h) PROVE TypeOK'
  <1>1. ASSUME NEW p \in Placements, BeginRegister(h, p[1], p[2]) PROVE TypeOK'
    <2>1. p[1] \in Ids /\ p[2] \in Urls
      BY ServerAssumption
    <2>2. handler' \in [Handlers -> Handler]
      BY <1>1, <2>1, DoingType DEF BeginRegister, TypeOK
    <2>3. QED
      BY <1>1, <2>2, CancelConsumerType DEF BeginRegister, TypeOK
  <1>2. ASSUME NEW id \in Ids, BeginRemoval(h, id) PROVE TypeOK'
    BY <1>2, DoingType DEF BeginRemoval, TypeOK
  <1>3. ASSUME NEW id \in Ids, BeginUnregisterUnknown(h, id) PROVE TypeOK'
    BY <1>3, DoingType DEF BeginUnregisterUnknown, TypeOK
  <1>4. ASSUME NEW a \in Additions, BeginAdd(h, a[1], a[2]) PROVE TypeOK'
    <2>1. a[1] \in Seq(Ids) /\ a[1] # <<>> /\ a[2] \in Urls
      BY ServerAssumption
    <2>2. Head(a[1]) \in Ids /\ Tail(a[1]) \in Seq(Ids)
      BY <2>1
    <2>3. QED
      BY <1>4, <2>1, <2>2 DEF BeginAdd, TypeOK, Handler
  <1>5. QED
    BY <1>1, <1>2, <1>3, <1>4 DEF Request

\* and so does each of its steps.
LEMMA HandlerStepType ==
  ASSUME TypeOK, NEW h \in Handlers, HandlerStep(h) PROVE TypeOK'
  <1> USE HandlerFields
  <1>1. CASE Register(h)
    BY <1>1, RegisteredType, SpawnType, ReturnType DEF Register, TypeOK
  <1>2. CASE Add(h)
    <2>1. enricher' \in [Handlers -> Enricher]
      BY <1>2 DEF Add, TypeOK, Enricher
    <2>2. QED
      BY <1>2, <2>1, RegisteredType, SpawnType, ReturnType DEF Add, TypeOK
  <1>3. CASE RegisterNotSaved(h)
    <2>1. saveFailures' \in 0 .. MaxSaveFailures
      BY <1>3, ServerAssumption DEF RegisterNotSaved, SaveFails, TypeOK
    <2>2. QED
      BY <1>3, <2>1, RegisteredType, ReturnType DEF RegisterNotSaved, TypeOK
  <1>4. CASE CancelBeforeRemoval(h)
    <2>1. handler' \in [Handlers -> Handler]
      BY SMTT(30), <1>4 DEF CancelBeforeRemoval, Goto, TypeOK, Handler
    <2>2. QED
      BY <1>4, <2>1, CancelConsumerType DEF CancelBeforeRemoval, TypeOK
  <1>5. CASE Unregister(h)
    BY <1>5, ReturnType DEF Unregister, TypeOK
  <1>6. CASE UnregisterNotSaved(h)
    <2>1. saveFailures' \in 0 .. MaxSaveFailures
      BY <1>6, ServerAssumption DEF UnregisterNotSaved, SaveFails, TypeOK
    <2>2. QED
      BY <1>6, <2>1, ReturnType DEF UnregisterNotSaved, TypeOK
  <1>7. CASE Probe(h)
    <2>1. CASE Exists(handler[h].id)
      <3>1. Head(handler[h].rest) \in Ids /\ Tail(handler[h].rest) \in Seq(Ids)
        BY <1>7, <2>1 DEF Probe
      <3>2. QED
        BY <1>7, <2>1, <3>1 DEF Probe, TypeOK, Handler
    <2>2. CASE ~Exists(handler[h].id)
      <3>1. Doing("add", handler[h].id, handler[h].url) \in Handler
        BY DoingType
      <3>2. handler' \in [Handlers -> Handler]
        BY <1>7, <2>2, <3>1 DEF Probe, TypeOK
      <3>3. QED
        BY <1>7, <3>2 DEF Probe, TypeOK
    <2>3. QED
      BY <2>1, <2>2
  <1>8. QED
    BY <1>1, <1>2, <1>3, <1>4, <1>5, <1>6, <1>7 DEF HandlerStep

\* Every step keeps the types,
LEMMA TypeStep == TypeOK /\ [Next]_vars => TypeOK'
  <1> SUFFICES ASSUME TypeOK, [Next]_vars PROVE TypeOK'
    OBVIOUS
  <1>1. ASSUME NEW h \in Handlers, Request(h) PROVE TypeOK'
    BY <1>1, RequestType
  <1>2. ASSUME NEW h \in Handlers, HandlerStep(h) PROVE TypeOK'
    BY <1>2, HandlerStepType
  <1>3. ASSUME NEW h \in Handlers, EnricherStep(h) PROVE TypeOK'
    <2>1. CASE Panic(h)
      BY <2>1, Blanks DEF Panic, TypeOK
    <2>2. ASSUME EnrichRead(h) \/ EnrichFetch(h) \/ EnrichFinish(h) PROVE TypeOK'
      <3>1. enricher' \in [Handlers -> Enricher]
        BY <2>2, Blanks DEF EnrichRead, EnrichFetch, EnrichFinish, EnricherGoto, EnricherReturn,
                            TypeOK, Enricher
      <3>2. QED
        BY <2>2, <3>1 DEF EnrichRead, EnrichFetch, EnrichFinish, TypeOK
    <2>3. QED
      BY <1>3, <2>1, <2>2 DEF EnricherStep
  <1>4. ASSUME NEW c \in Consumers, ConsumerStep(c) PROVE TypeOK'
    <2>1. CASE Start(c)
      <3>1. consumer' \in [Consumers -> Consumer]
        BY <2>1, CancelledAtType DEF Start, Consumer
      <3>2. QED
        BY <2>1, <3>1 DEF Start, TypeOK
    <2>2. ASSUME LoopTop(c) \/ StreamEnds(c) PROVE TypeOK'
      BY SMTT(30), <2>2, Blanks DEF LoopTop, StreamEnds, ConsumerGoto, TypeOK, Consumer
    <2>3. QED
      BY <1>4, <2>1, <2>2 DEF ConsumerStep
  <1>5. CASE Shutdown
    BY <1>5 DEF Shutdown, TypeOK
  <1>6. CASE Restart
    <2>1. \A i \in Ids : PendingFor(i) \in Consumer
      BY DEF PendingFor, Consumer, TypeOK
    <2>2. consumer' \in [Consumers -> Consumer]
      BY <1>6, <2>1, Blanks DEF Restart, Reconnected
    <2>3. QED
      BY <1>6, <2>2 DEF Restart, TypeOK
  <1>7. CASE UNCHANGED vars
    BY <1>7 DEF vars, TypeOK
  <1>8. QED
    BY <1>1, <1>2, <1>3, <1>4, <1>5, <1>6, <1>7 DEF Next

\* which hold at the start.
LEMMA InitType == Init => TypeOK
  <1> SUFFICES ASSUME Init PROVE TypeOK
    OBVIOUS
  <1>1. \A i \in Ids : PendingFor(i) \in Consumer
    BY DEF PendingFor, Consumer, Init
  <1>2. consumer \in [Consumers -> Consumer]
    BY <1>1, Blanks DEF Init, Reconnected
  <1>3. 0 \in 0 .. MaxSaveFailures
    BY ServerAssumption
  <1>4. QED
    BY <1>2, <1>3, Blanks DEF Init, TypeOK

\* Every variable keeps its type.
THEOREM TypeCorrect == Spec => []TypeOK
  BY InitType, TypeStep, PTL DEF Spec

-----------------------------------------------------------------------------
(* No consumer that is still wanted is ever out of reach.                  *)

\* What calling the cancel function of a host does to each consumer.
LEMMA CancelledAtFacts ==
  ASSUME TypeOK, NEW url \in Urls, NEW d \in Consumers
  PROVE  /\ CancelledAt(url)[d].pc = consumer[d].pc
         /\ CancelledAt(url)[d].url = consumer[d].url
         /\ CancelledAt(url)[d].id = consumer[d].id
         /\ ~CancelledAt(url)[d].cancelled =>
              ~consumer[d].cancelled /\ (cancels[url] = d => consumer[d].pc = "done")
         /\ cancels[url] # d => CancelledAt(url)[d].cancelled = consumer[d].cancelled
  <1>1. consumer[d] \in Consumer
    BY DEF TypeOK
  <1>2. CASE cancels[url] = d /\ consumer[d].pc # "done"
    <2>1. CancelledAt(url)[d] = [consumer[d] EXCEPT !.cancelled = TRUE]
      BY <1>2 DEF CancelledAt
    <2>2. /\ CancelledAt(url)[d].pc = consumer[d].pc
          /\ CancelledAt(url)[d].url = consumer[d].url
          /\ CancelledAt(url)[d].id = consumer[d].id
          /\ CancelledAt(url)[d].cancelled = TRUE
      BY <1>1, <2>1 DEF Consumer
    <2>3. QED
      BY <1>2, <2>2
  <1>3. CASE ~(cancels[url] = d /\ consumer[d].pc # "done")
    <2>1. CancelledAt(url)[d] = consumer[d]
      BY <1>3 DEF CancelledAt
    <2>2. QED
      BY <1>3, <2>1
  <1>4. QED
    BY <1>2, <1>3

\* The conjuncts of CancelInv that relate the map and the consumers.
MapInv ==
  /\ LiveConsumerIsCancellable
  /\ \A c \in Consumers : consumer[c].pc = "pending" =>
       ~consumer[c].cancelled /\ \A u \in Urls : cancels[u] # c
  /\ \A c \in Consumers, u \in Urls :
       cancels[u] = c => consumer[c].pc = "done" \/ consumer[c].url = u
  /\ \A c \in Consumers : consumer[c].pc # "done" => consumer[c].url \in Urls

\* cancelConsumer keeps the map and the consumers in agreement.
LEMMA CancelConsumerKeeps ==
  ASSUME TypeOK, MapInv, NEW url \in Urls, CancelConsumer(url)
  PROVE  MapInv'
  <1>1. \A d \in Consumers :
          /\ consumer'[d].pc = consumer[d].pc /\ consumer'[d].url = consumer[d].url
          /\ ~consumer'[d].cancelled =>
               ~consumer[d].cancelled /\ (cancels[url] = d => consumer[d].pc = "done")
          /\ cancels[url] # d => consumer'[d].cancelled = consumer[d].cancelled
    BY CancelledAtFacts DEF CancelConsumer
  <1>2. \A w \in Urls : cancels'[w] = IF w = url THEN NoConsumer ELSE cancels[w]
    BY DEF CancelConsumer, TypeOK
  <1>3. LiveConsumerIsCancellable'
    BY <1>1, <1>2 DEF MapInv, LiveConsumerIsCancellable, Running
  <1>4. \A c \in Consumers : consumer'[c].pc = "pending" =>
          ~consumer'[c].cancelled /\ \A u \in Urls : cancels'[u] # c
    BY <1>1, <1>2, ServerAssumption DEF MapInv
  <1>5. \A c \in Consumers, u \in Urls :
          cancels'[u] = c => consumer'[c].pc = "done" \/ consumer'[c].url = u
    BY <1>1, <1>2, ServerAssumption DEF MapInv
  <1>6. QED
    BY <1>1, <1>3, <1>4, <1>5 DEF MapInv

\* A goroutine that has not run yet does not disturb it.
LEMMA SpawnKeeps ==
  ASSUME TypeOK, MapInv, NEW id, NEW url \in Urls, Spawn(id, url), UNCHANGED cancels
  PROVE  MapInv'
  BY DEF MapInv, LiveConsumerIsCancellable, Spawn, Free, Running, TypeOK, Consumer

\* A consumer that starts cancels the one before it at its host.
LEMMA StartKeeps ==
  ASSUME TypeOK, MapInv, NEW c \in Consumers, Start(c)
  PROVE  MapInv'
  <1> DEFINE url == consumer[c].url
  <1>1. /\ url \in Urls
        /\ \A w \in Urls : cancels[w] # c
        /\ ~consumer[c].cancelled
    BY DEF Start, MapInv
  <1>2. /\ consumer'[c].pc = "check" /\ consumer'[c].url = url /\ ~consumer'[c].cancelled
    BY <1>1 DEF Start, CancelledAt, TypeOK, Consumer
  <1>3. \A d \in Consumers \ {c} : consumer'[d] = CancelledAt(url)[d]
    BY DEF Start, CancelledAt
  <1>4. \A w \in Urls : cancels'[w] = IF w = url THEN c ELSE cancels[w]
    BY DEF Start, TypeOK
  <1> HIDE DEF url
  <1>5. \A d \in Consumers \ {c} :
          /\ consumer'[d].pc = consumer[d].pc /\ consumer'[d].url = consumer[d].url
          /\ ~consumer'[d].cancelled =>
               ~consumer[d].cancelled /\ (cancels[url] = d => consumer[d].pc = "done")
          /\ cancels[url] # d => consumer'[d].cancelled = consumer[d].cancelled
    BY <1>1, <1>3, CancelledAtFacts
  <1>6. LiveConsumerIsCancellable'
    <2> SUFFICES ASSUME NEW d \in Consumers, Running(d)', ~consumer'[d].cancelled
                 PROVE  cancels'[consumer'[d].url] = d
      BY DEF LiveConsumerIsCancellable
    <2>1. CASE d = c
      BY <1>1, <1>2, <1>4, <2>1
    <2>2. CASE d # c
      <3>1. Running(d) /\ ~consumer[d].cancelled /\ consumer[d].pc # "done" /\ cancels[url] # d
        BY <1>5, <2>2 DEF Running
      <3>2. cancels[consumer[d].url] = d /\ consumer[d].url \in Urls
        BY <3>1 DEF MapInv, LiveConsumerIsCancellable
      <3>3. QED
        BY <1>4, <1>5, <2>2, <3>1, <3>2
    <2>3. QED
      BY <2>1, <2>2
  <1>7. \A d \in Consumers : consumer'[d].pc = "pending" =>
          ~consumer'[d].cancelled /\ \A w \in Urls : cancels'[w] # d
    <2> SUFFICES ASSUME NEW d \in Consumers, consumer'[d].pc = "pending"
                 PROVE  ~consumer'[d].cancelled /\ \A w \in Urls : cancels'[w] # d
      OBVIOUS
    <2>1. d # c
      BY <1>2
    <2>2. consumer[d].pc = "pending"
      BY <1>5, <2>1
    <2>3. ~consumer[d].cancelled /\ \A w \in Urls : cancels[w] # d
      BY <2>2 DEF MapInv
    <2>4. QED
      BY <1>1, <1>4, <1>5, <2>1, <2>3
  <1>8. \A d \in Consumers, w \in Urls :
          cancels'[w] = d => consumer'[d].pc = "done" \/ consumer'[d].url = w
    <2> SUFFICES ASSUME NEW d \in Consumers, NEW w \in Urls, cancels'[w] = d
                 PROVE  consumer'[d].pc = "done" \/ consumer'[d].url = w
      OBVIOUS
    <2>1. CASE w = url
      BY <1>2, <1>4, <2>1
    <2>2. CASE w # url
      <3>1. cancels[w] = d /\ d # c
        BY <1>1, <1>4, <2>2
      <3>2. QED
        BY <1>5, <3>1 DEF MapInv
    <2>3. QED
      BY <2>1, <2>2
  <1>9. \A d \in Consumers : consumer'[d].pc # "done" => consumer'[d].url \in Urls
    BY <1>1, <1>2, <1>5 DEF MapInv
  <1>10. QED
    BY <1>6, <1>7, <1>8, <1>9 DEF MapInv

\* The remaining conjuncts of CancelInv: which hosts the handlers work on, and
\* that a dead process has no activity.
ActorInv ==
  /\ \A h \in Handlers :
       handler[h].pc \in {"register", "cancel", "probe", "add"} => handler[h].url \in Urls
  /\ crashed =>
       /\ \A u \in Urls : cancels[u] = NoConsumer
       /\ \A h \in Handlers : handler[h].pc = "idle" /\ enricher[h].pc = "idle"
       /\ \A c \in Consumers : consumer[c].pc = "done"

\* The two halves of CancelInv.
LEMMA Split == CancelInv <=> MapInv /\ ActorInv
  BY DEF CancelInv, MapInv, ActorInv

\* An arriving request keeps both halves,
LEMMA RequestKeeps ==
  ASSUME TypeOK, MapInv, ActorInv, NEW h \in Handlers, Request(h)
  PROVE  MapInv' /\ ActorInv'
  <1>1. ~crashed /\ crashed' = crashed
    BY DEF Request, BeginRegister, BeginRemoval, BeginUnregisterUnknown, BeginAdd, Accept
  <1>2. ASSUME NEW p \in Placements, BeginRegister(h, p[1], p[2]) PROVE MapInv' /\ ActorInv'
    <2>1. p[2] \in Urls
      BY ServerAssumption
    <2>2. MapInv'
      BY <1>2, <2>1, CancelConsumerKeeps DEF BeginRegister
    <2>3. QED
      BY <1>1, <1>2, <2>1, <2>2 DEF BeginRegister, ActorInv, Doing, TypeOK
  <1>3. ASSUME NEW id \in Ids, BeginRemoval(h, id) PROVE MapInv' /\ ActorInv'
    <2>1. agents[id] \in Urls
      BY <1>3 DEF BeginRemoval, Exists, TypeOK
    <2>2. QED
      BY <1>1, <1>3, <2>1 DEF BeginRemoval, ActorInv, Doing, TypeOK, MapInv, LiveConsumerIsCancellable, Running
  <1>4. ASSUME NEW id \in Ids, BeginUnregisterUnknown(h, id) PROVE MapInv' /\ ActorInv'
    BY <1>1, <1>4 DEF BeginUnregisterUnknown, ActorInv, Doing, TypeOK, MapInv, LiveConsumerIsCancellable, Running
  <1>5. ASSUME NEW a \in Additions, BeginAdd(h, a[1], a[2]) PROVE MapInv' /\ ActorInv'
    <2>1. a[2] \in Urls
      BY ServerAssumption
    <2>2. QED
      BY <1>1, <1>5, <2>1 DEF BeginAdd, ActorInv, TypeOK, MapInv, LiveConsumerIsCancellable, Running
  <1>6. QED
    BY <1>2, <1>3, <1>4, <1>5 DEF Request

\* and so does each of its steps,
LEMMA HandlerStepKeeps ==
  ASSUME TypeOK, MapInv, ActorInv, NEW h \in Handlers, HandlerStep(h)
  PROVE  MapInv' /\ ActorInv'
  <1>1. ~crashed /\ crashed' = crashed
    BY DEF HandlerStep, Register, Add, RegisterNotSaved, CancelBeforeRemoval, Unregister,
           UnregisterNotSaved, Probe, ActorInv
  <1>2. handler[h].pc \in {"register", "cancel", "probe", "add"} => handler[h].url \in Urls
    BY DEF ActorInv
  <1>3. CASE Register(h)
    BY <1>1, <1>2, <1>3, SpawnKeeps DEF Register, Return, Idle, Doing, ActorInv, TypeOK
  <1>4. CASE Add(h)
    BY <1>1, <1>2, <1>4, SpawnKeeps DEF Add, Return, Idle, Doing, ActorInv, TypeOK
  <1>5. CASE CancelBeforeRemoval(h)
    <2>1. MapInv'
      BY <1>2, <1>5, CancelConsumerKeeps DEF CancelBeforeRemoval
    <2>2. QED
      BY <1>1, <1>5, <2>1 DEF CancelBeforeRemoval, Goto, ActorInv, TypeOK, Handler
  <1>6. ASSUME RegisterNotSaved(h) \/ Unregister(h) \/ UnregisterNotSaved(h)
        PROVE  MapInv' /\ ActorInv'
    BY <1>1, <1>6 DEF RegisterNotSaved, Unregister, UnregisterNotSaved, Return, Idle, Doing,
                      ActorInv, TypeOK, MapInv, LiveConsumerIsCancellable, Running
  <1>7. CASE Probe(h)
    <2>1. MapInv'
      BY <1>7 DEF Probe, MapInv, LiveConsumerIsCancellable, Running
    <2>2. handler'[h].url = handler[h].url /\ \A g \in Handlers \ {h} : handler'[g] = handler[g]
      BY <1>7 DEF Probe, Doing, TypeOK, Handler
    <2>3. \A g \in Handlers :
            handler'[g].pc \in {"register", "cancel", "probe", "add"} => handler'[g].url \in Urls
      BY <1>2, <1>7, <2>2 DEF Probe, ActorInv
    <2>4. QED
      BY <1>1, <2>1, <2>3 DEF ActorInv
  <1>8. QED
    BY <1>3, <1>4, <1>5, <1>6, <1>7 DEF HandlerStep

\* the enrichment, also when it panics,
LEMMA EnricherStepKeeps ==
  ASSUME TypeOK, MapInv, ActorInv, NEW h \in Handlers, EnricherStep(h)
  PROVE  MapInv' /\ ActorInv'
  <1>1. ~crashed
    BY DEF EnricherStep, EnrichRead, EnrichFetch, EnrichFinish, Panic, ActorInv
  <1>2. CASE Panic(h)
    BY <1>2, ServerAssumption
       DEF Panic, Done, Idle, Doing, NoEnricher, ActorInv, MapInv, LiveConsumerIsCancellable, Running
  <1>3. ASSUME EnrichRead(h) \/ EnrichFetch(h) \/ EnrichFinish(h) PROVE MapInv' /\ ActorInv'
    <2>1. UNCHANGED <<cancels, consumer, handler, crashed>>
      BY <1>3 DEF EnrichRead, EnrichFetch, EnrichFinish
    <2>2. QED
      BY <1>1, <2>1 DEF ActorInv, MapInv, LiveConsumerIsCancellable, Running
  <1>4. QED
    BY <1>2, <1>3 DEF EnricherStep

\* and the consumers' own steps.
LEMMA ConsumerStepKeeps ==
  ASSUME TypeOK, MapInv, ActorInv, NEW c \in Consumers, ConsumerStep(c)
  PROVE  MapInv' /\ ActorInv'
  <1>1. ~crashed /\ crashed' = crashed /\ handler' = handler
    BY DEF ConsumerStep, Start, LoopTop, StreamEnds, ConsumerGoto, ActorInv
  <1>2. ActorInv'
    BY <1>1 DEF ActorInv
  <1>3. CASE Start(c)
    BY <1>2, <1>3, StartKeeps
  <1>4. ASSUME LoopTop(c) \/ StreamEnds(c) PROVE MapInv'
    <2>1. /\ UNCHANGED cancels
          /\ consumer[c].pc \in {"check", "reading"}
          /\ \/ consumer' = [consumer EXCEPT ![c] = Done]
             \/ consumer' = [consumer EXCEPT ![c].pc = "reading"]
             \/ consumer' = [consumer EXCEPT ![c].pc = "check"]
      BY <1>4 DEF LoopTop, StreamEnds, ConsumerGoto
    <2>2. QED
      BY <2>1 DEF MapInv, LiveConsumerIsCancellable, Running, Done, TypeOK, Consumer
  <1>5. QED
    BY <1>2, <1>3, <1>4 DEF ConsumerStep

\* After a restart the consumers are new, and none has run yet.
LEMMA ReconnectedFacts ==
  ASSUME TypeOK, NEW cs \in Reconnected, NEW c \in Consumers
  PROVE  /\ cs[c].pc \in {"done", "pending"}
         /\ cs[c].pc = "pending" => cs[c].url \in Urls /\ ~cs[c].cancelled
  BY DEF Reconnected, PendingFor, Done, Exists, TypeOK

\* Every step keeps CancelInv,
LEMMA CancelStep == TypeOK /\ CancelInv /\ [Next]_vars => CancelInv'
  <1> SUFFICES ASSUME TypeOK, MapInv, ActorInv, [Next]_vars PROVE MapInv' /\ ActorInv'
    BY Split DEF CancelInv, MapInv, ActorInv
  <1>1. ASSUME NEW h \in Handlers, Request(h) \/ HandlerStep(h) \/ EnricherStep(h)
        PROVE  MapInv' /\ ActorInv'
    BY <1>1, RequestKeeps, HandlerStepKeeps, EnricherStepKeeps
  <1>2. ASSUME NEW c \in Consumers, ConsumerStep(c) PROVE MapInv' /\ ActorInv'
    BY <1>2, ConsumerStepKeeps
  <1>3. CASE Shutdown
    BY <1>3 DEF Shutdown, ActorInv, MapInv, LiveConsumerIsCancellable, Running
  <1>4. CASE Restart
    <2>1. \A c \in Consumers :
            /\ consumer'[c].pc \in {"done", "pending"}
            /\ consumer'[c].pc = "pending" => consumer'[c].url \in Urls /\ ~consumer'[c].cancelled
      BY <1>4, ReconnectedFacts DEF Restart
    <2>2. \A u \in Urls : cancels'[u] = NoConsumer
      BY <1>4 DEF Restart, ActorInv
    <2>3. MapInv'
      BY <2>1, <2>2, ServerAssumption DEF MapInv, LiveConsumerIsCancellable, Running
    <2>4. QED
      BY <1>4, <2>3 DEF Restart, ActorInv
  <1>5. CASE UNCHANGED vars
    BY <1>5 DEF vars, ActorInv, MapInv, LiveConsumerIsCancellable, Running
  <1>6. QED
    BY <1>1, <1>2, <1>3, <1>4, <1>5 DEF Next

\* which holds at the start.
LEMMA InitCancelInv == Init => CancelInv
  <1> SUFFICES ASSUME Init PROVE MapInv /\ ActorInv
    BY Split
  <1>1. \A c \in Consumers :
          /\ consumer[c].pc \in {"done", "pending"}
          /\ consumer[c].pc = "pending" => consumer[c].url \in Urls /\ ~consumer[c].cancelled
    BY InitType, ReconnectedFacts DEF Init
  <1>2. QED
    BY <1>1, ServerAssumption DEF Init, MapInv, ActorInv, LiveConsumerIsCancellable, Running, Idle, Doing

\* cancelConsumer and startSSEConsumer never lose track of a consumer that has
\* not been told to stop.
THEOREM ConsumersStayCancellable == Spec => []LiveConsumerIsCancellable
  <1>1. Spec => []CancelInv
    BY InitCancelInv, CancelStep, TypeCorrect, PTL DEF Spec
  <1>2. CancelInv => LiveConsumerIsCancellable
    BY DEF CancelInv
  <1>3. QED
    BY <1>1, <1>2, PTL

\* So no host is ever read twice on the orchestrator's own account.
THEOREM StreamsAreNotDoubled == Spec => []OneStreamPerHost
  <1>1. LiveConsumerIsCancellable => OneStreamPerHost
    BY DEF LiveConsumerIsCancellable, OneStreamPerHost
  <1>2. QED
    BY <1>1, ConsumersStayCancellable, PTL

-----------------------------------------------------------------------------
(* ReplacedIsSilent is not true of every AgentServer: an agent that moves, *)
(* or a save that fails, leaves a consumer nobody replaces.  So the agents *)
(* are assumed to keep to one host each, which several of them may share.  *)

\* Whoever asks for agent i names the host Home[i], and every save succeeds.
Steady(Home) ==
  /\ \A p \in Placements : p[2] = Home[p[1]]
  /\ \A a \in Additions : \A k \in DOMAIN a[1] : Home[a[1][k]] = a[2]
  /\ MaxSaveFailures = 0

\* So do the agents that were stored before the process started.
StoredAtHome(Home) == \A i \in Ids : Exists(i) => agents[i] = Home[i]

\* The requests and consumers agree with it.
AtHome(Home) ==
  /\ StoredAtHome(Home)
  /\ \A c \in Consumers : consumer[c].pc # "done" =>
       consumer[c].id \in Ids /\ consumer[c].url = Home[consumer[c].id]
  /\ \A h \in Handlers : handler[h].pc \in {"register", "probe", "add"} =>
       handler[h].id \in Ids /\ handler[h].url = Home[handler[h].id]
  /\ \A h \in Handlers : handler[h].pc = "probe" =>
       \A k \in DOMAIN handler[h].rest : Home[handler[h].rest[k]] = handler[h].url

\* A consumer that still reads for an agent whose host another one has taken
\* is about to be cancelled: a goroutine that has not run yet will do it.
Relieved ==
  \A c \in Consumers, i \in Ids :
    /\ consumer[c].pc = "reading" /\ ~consumer[c].cancelled
    /\ Exists(i) /\ agents[i] = consumer[c].url /\ i # consumer[c].id
    => \E d \in Consumers : consumer[d].pc = "pending" /\ consumer[d].url = consumer[c].url

HomeInv(Home) == HostsUnique /\ AtHome(Home) /\ Relieved

-----------------------------------------------------------------------------
(* Parts of a step.                                                        *)

\* cancelConsumer, and anything else that only cancels consumers.
LEMMA CancellingKeepsHomes ==
  ASSUME NEW Home, HomeInv(Home), UNCHANGED agents,
         \A d \in Consumers :
           /\ consumer'[d].pc = consumer[d].pc /\ consumer'[d].url = consumer[d].url
           /\ consumer'[d].id = consumer[d].id
           /\ ~consumer'[d].cancelled => ~consumer[d].cancelled
  PROVE  /\ HostsUnique' /\ Relieved' /\ StoredAtHome(Home)'
         /\ \A c \in Consumers : consumer'[c].pc # "done" =>
              consumer'[c].id \in Ids /\ consumer'[c].url = Home[consumer'[c].id]
BY DEF HomeInv, HostsUnique, AtHome, StoredAtHome, Relieved, Exists

\* Register takes the host from whoever had it, and the new goroutine will
\* cancel whoever reads from it.
LEMMA RegisteringKeepsHomes ==
  ASSUME TypeOK, NEW Home \in [Ids -> Urls], HomeInv(Home), NEW i \in Ids, NEW url \in Urls, url = Home[i],
         agents' = Registered(i, url), Spawn(i, url)
  PROVE  /\ HostsUnique' /\ Relieved' /\ StoredAtHome(Home)'
         /\ \A c \in Consumers : consumer'[c].pc # "done" =>
              consumer'[c].id \in Ids /\ consumer'[c].url = Home[consumer'[c].id]
<1> PICK d \in Consumers :
      /\ Free(d)
      /\ consumer' = [consumer EXCEPT ![d] = [pc |-> "pending", id |-> i, url |-> url, cancelled |-> FALSE]]
  BY DEF Spawn
<1>1. /\ consumer'[d].pc = "pending" /\ consumer'[d].id = i /\ consumer'[d].url = url
      /\ \A c \in Consumers \ {d} : consumer'[c] = consumer[c]
  BY DEF TypeOK
<1>2. \A j \in Ids : agents'[j] = IF j = i THEN url ELSE IF agents[j] = url THEN NoUrl ELSE agents[j]
  BY DEF Registered
<1>3. NoUrl # url
  BY ServerAssumption
<1>4. HostsUnique'
  BY <1>2, <1>3 DEF HomeInv, HostsUnique, Exists
<1>5. StoredAtHome(Home)'
  BY <1>2 DEF HomeInv, AtHome, StoredAtHome, Exists
<1>6. Relieved'
  <2> SUFFICES ASSUME NEW c \in Consumers, NEW j \in Ids,
                      consumer'[c].pc = "reading", ~consumer'[c].cancelled,
                      Exists(j)', agents'[j] = consumer'[c].url, j # consumer'[c].id
               PROVE  \E e \in Consumers : consumer'[e].pc = "pending" /\ consumer'[e].url = consumer'[c].url
    BY DEF Relieved
  <2>1. c # d /\ consumer'[c] = consumer[c]
    BY <1>1
  <2>2. CASE consumer[c].url = url
    BY <1>1, <2>1, <2>2
  <2>3. CASE consumer[c].url # url
    <3>1. j # i /\ agents'[j] = agents[j] /\ Exists(j)
      BY <1>2, <2>1, <2>3 DEF Exists
    <3>2. PICK e \in Consumers : consumer[e].pc = "pending" /\ consumer[e].url = consumer[c].url
      BY <2>1, <3>1 DEF HomeInv, Relieved
    <3>3. e # d
      BY <3>2 DEF Free
    <3>4. QED
      BY <1>1, <2>1, <3>2, <3>3
  <2>4. QED
    BY <2>2, <2>3
<1>7. QED
  BY <1>1, <1>4, <1>5, <1>6 DEF HomeInv, AtHome

\* An agent that goes makes nobody's host be shared.
LEMMA RemovingKeepsHomes ==
  ASSUME TypeOK, NEW Home, HomeInv(Home), NEW i, agents' = [agents EXCEPT ![i] = NoUrl], UNCHANGED consumer
  PROVE  /\ HostsUnique' /\ Relieved' /\ StoredAtHome(Home)'
         /\ \A c \in Consumers : consumer'[c].pc # "done" =>
              consumer'[c].id \in Ids /\ consumer'[c].url = Home[consumer'[c].id]
<1>1. \A j \in Ids : agents'[j] = agents[j] \/ agents'[j] = NoUrl
  BY DEF TypeOK
<1>2. QED
  BY <1>1 DEF HomeInv, HostsUnique, AtHome, StoredAtHome, Relieved, Exists

-----------------------------------------------------------------------------
(* The steps.                                                              *)

\* An arriving request names an agent and its host.
LEMMA RequestKeepsHomes ==
  ASSUME TypeOK, NEW Home \in [Ids -> Urls], Steady(Home), HomeInv(Home), NEW h \in Handlers, Request(h)
  PROVE  HomeInv(Home)'
<1>1. ASSUME NEW p \in Placements, BeginRegister(h, p[1], p[2]) PROVE HomeInv(Home)'
  <2>1. p[1] \in Ids /\ p[2] \in Urls /\ p[2] = Home[p[1]]
    BY ServerAssumption DEF Steady
  <2>2. \A d \in Consumers :
          /\ consumer'[d].pc = consumer[d].pc /\ consumer'[d].url = consumer[d].url
          /\ consumer'[d].id = consumer[d].id
          /\ ~consumer'[d].cancelled => ~consumer[d].cancelled
    BY <1>1, <2>1, CancelledAtFacts DEF BeginRegister, CancelConsumer
  <2>3. UNCHANGED agents
    BY <1>1 DEF BeginRegister
  <2>4. handler' = [handler EXCEPT ![h] = Doing("register", p[1], p[2])]
    BY <1>1 DEF BeginRegister
  <2>5. /\ handler'[h].pc = "register" /\ handler'[h].id = p[1] /\ handler'[h].url = p[2]
        /\ \A g \in Handlers \ {h} : handler'[g] = handler[g]
    BY <2>4 DEF Doing, TypeOK
  <2>6. /\ HostsUnique' /\ Relieved' /\ StoredAtHome(Home)'
        /\ \A c \in Consumers : consumer'[c].pc # "done" =>
             consumer'[c].id \in Ids /\ consumer'[c].url = Home[consumer'[c].id]
    BY <2>2, <2>3, CancellingKeepsHomes
  <2>7. QED
    BY <2>1, <2>5, <2>6 DEF HomeInv, AtHome
<1>2. ASSUME NEW id \in Ids, BeginRemoval(h, id) \/ BeginUnregisterUnknown(h, id) PROVE HomeInv(Home)'
  <2>1. /\ UNCHANGED <<agents, consumer>> /\ handler'[h].pc \in {"cancel", "unregister"}
        /\ \A g \in Handlers \ {h} : handler'[g] = handler[g]
    BY <1>2 DEF BeginRemoval, BeginUnregisterUnknown, Doing, TypeOK
  <2>2. QED
    BY <2>1, CancellingKeepsHomes DEF HomeInv, AtHome
<1>3. ASSUME NEW a \in Additions, BeginAdd(h, a[1], a[2]) PROVE HomeInv(Home)'
  <2>1. a[1] \in Seq(Ids) /\ a[1] # <<>> /\ \A k \in DOMAIN a[1] : Home[a[1][k]] = a[2]
    BY ServerAssumption DEF Steady
  <2>2. /\ Head(a[1]) \in Ids /\ Home[Head(a[1])] = a[2]
        /\ \A k \in DOMAIN Tail(a[1]) : Home[Tail(a[1])[k]] = a[2]
    <3>1. 1 \in DOMAIN a[1] /\ Head(a[1]) = a[1][1] /\ Head(a[1]) \in Ids
      BY <2>1
    <3>2. \A k \in DOMAIN Tail(a[1]) : k + 1 \in DOMAIN a[1] /\ Tail(a[1])[k] = a[1][k + 1]
      BY <2>1
    <3>3. QED
      BY <2>1, <3>1, <3>2
  <2>3. /\ UNCHANGED <<agents, consumer>>
        /\ handler'[h] = [pc |-> "probe", id |-> Head(a[1]), url |-> a[2], rest |-> Tail(a[1])]
        /\ \A g \in Handlers \ {h} : handler'[g] = handler[g]
    BY <1>3 DEF BeginAdd, TypeOK
  <2>4. /\ handler'[h].pc = "probe"
        /\ handler'[h].id \in Ids /\ handler'[h].url = Home[handler'[h].id]
        /\ \A k \in DOMAIN handler'[h].rest : Home[handler'[h].rest[k]] = handler'[h].url
    <3>1. handler'[h].pc = "probe" /\ handler'[h].id = Head(a[1]) /\ handler'[h].url = a[2]
          /\ handler'[h].rest = Tail(a[1])
      BY <2>3
    <3>2. QED
      BY <2>2, <3>1
  <2>5. /\ HostsUnique' /\ Relieved' /\ StoredAtHome(Home)'
        /\ \A c \in Consumers : consumer'[c].pc # "done" =>
             consumer'[c].id \in Ids /\ consumer'[c].url = Home[consumer'[c].id]
    BY <2>3, CancellingKeepsHomes
  <2>6. \A g \in Handlers \ {h} : handler'[g] = handler[g]
    BY <2>3
  <2>7. QED
    BY <2>4, <2>5, <2>6 DEF HomeInv, AtHome
<1>4. QED
  BY <1>1, <1>2, <1>3 DEF Request

\* A handler acts on the agent and the host it was given.
LEMMA HandlerStepKeepsHomes ==
  ASSUME TypeOK, ActorInv, NEW Home \in [Ids -> Urls], Steady(Home), HomeInv(Home),
         NEW h \in Handlers, HandlerStep(h)
  PROVE  HomeInv(Home)'
<1>1. ASSUME \A g \in Handlers \ {h} : handler'[g] = handler[g], handler'[h].pc \in {"idle", "unregister"},
             HostsUnique', Relieved', StoredAtHome(Home)',
             \A c \in Consumers : consumer'[c].pc # "done" =>
               consumer'[c].id \in Ids /\ consumer'[c].url = Home[consumer'[c].id]
      PROVE  HomeInv(Home)'
  BY <1>1 DEF HomeInv, AtHome
<1>2. ~SaveFails
  <2>1. MaxSaveFailures = 0 /\ saveFailures \in 0 .. 0
    BY DEF Steady, TypeOK
  <2>2. QED
    BY <2>1 DEF SaveFails
<1>3. CASE Register(h) \/ Add(h)
  <2>1. handler[h].id \in Ids /\ handler[h].url = Home[handler[h].id] /\ handler[h].url \in Urls
    BY <1>3 DEF Register, Add, HomeInv, AtHome
  <2>2. agents' = Registered(handler[h].id, handler[h].url) /\ Spawn(handler[h].id, handler[h].url)
    BY <1>3 DEF Register, Add
  <2>3. /\ \A g \in Handlers \ {h} : handler'[g] = handler[g]
        /\ handler'[h].pc = "idle"
    BY <1>3 DEF Register, Add, Return, Idle, Doing, TypeOK
  <2>4. QED
    BY <1>1, <2>1, <2>2, <2>3, RegisteringKeepsHomes
<1>4. CASE CancelBeforeRemoval(h)
  <2>1. /\ \A g \in Handlers \ {h} : handler'[g] = handler[g]
        /\ handler'[h].pc = "unregister" /\ UNCHANGED agents
    BY <1>4 DEF CancelBeforeRemoval, Goto, TypeOK, Handler
  <2>2. \A d \in Consumers :
          /\ consumer'[d].pc = consumer[d].pc /\ consumer'[d].url = consumer[d].url
          /\ consumer'[d].id = consumer[d].id
          /\ ~consumer'[d].cancelled => ~consumer[d].cancelled
    BY <1>4, CancelledAtFacts DEF CancelBeforeRemoval, CancelConsumer, ActorInv
  <2>3. QED
    BY <1>1, <2>1, <2>2, CancellingKeepsHomes
<1>5. CASE Unregister(h)
  <2>1. /\ \A g \in Handlers \ {h} : handler'[g] = handler[g]
        /\ handler'[h].pc = "idle"
        /\ agents' = [agents EXCEPT ![handler[h].id] = NoUrl] /\ UNCHANGED consumer
    BY <1>5 DEF Unregister, Return, Idle, Doing, TypeOK
  <2>2. QED
    BY <1>1, <2>1, RemovingKeepsHomes
<1>6. CASE RegisterNotSaved(h) \/ UnregisterNotSaved(h)
  BY <1>2, <1>6 DEF RegisterNotSaved, UnregisterNotSaved
<1>7. CASE Probe(h)
  <2>1. UNCHANGED <<agents, consumer>> /\ \A g \in Handlers \ {h} : handler'[g] = handler[g]
    BY <1>7 DEF Probe, TypeOK
  <2>2. /\ handler[h].pc = "probe" /\ handler[h].id \in Ids /\ handler[h].url = Home[handler[h].id]
        /\ handler[h].rest \in Seq(Ids)
        /\ \A k \in DOMAIN handler[h].rest : Home[handler[h].rest[k]] = handler[h].url
    BY <1>7, HandlerFields DEF Probe, HomeInv, AtHome
  <2>3. /\ handler'[h].pc \in {"probe", "add"}
        /\ handler'[h].id \in Ids /\ handler'[h].url = Home[handler'[h].id]
        /\ handler'[h].pc = "probe" => \A k \in DOMAIN handler'[h].rest : Home[handler'[h].rest[k]] = handler'[h].url
    <3>1. CASE Exists(handler[h].id)
      <4>1. /\ handler[h].rest # <<>> /\ handler'[h].pc = "probe" /\ handler'[h].id = Head(handler[h].rest)
            /\ handler'[h].url = handler[h].url /\ handler'[h].rest = Tail(handler[h].rest)
        <5>1. /\ handler[h].rest # <<>>
              /\ handler'[h] = [handler[h] EXCEPT !.id = Head(handler[h].rest), !.rest = Tail(handler[h].rest)]
          BY <1>7, <3>1 DEF Probe, TypeOK
        <5>2. handler[h] \in Handler
          BY DEF TypeOK
        <5>3. QED
          BY <2>2, <5>1, <5>2 DEF Handler
      <4>2. 1 \in DOMAIN handler[h].rest /\ Head(handler[h].rest) = handler[h].rest[1]
            /\ Head(handler[h].rest) \in Ids
        BY <2>2, <4>1
      <4>3. \A k \in DOMAIN Tail(handler[h].rest) :
              k + 1 \in DOMAIN handler[h].rest /\ Tail(handler[h].rest)[k] = handler[h].rest[k + 1]
        BY <2>2, <4>1
      <4>4. QED
        BY <2>2, <4>1, <4>2, <4>3
    <3>2. CASE ~Exists(handler[h].id)
      <4>1. handler'[h] = Doing("add", handler[h].id, handler[h].url)
        BY <1>7, <3>2 DEF Probe, TypeOK
      <4>2. QED
        BY <2>2, <4>1 DEF Doing
    <3>3. QED
      BY <3>1, <3>2
  <2>4. QED
    BY <2>1, <2>3, CancellingKeepsHomes DEF HomeInv, AtHome
<1>8. QED
  BY <1>3, <1>4, <1>5, <1>6, <1>7 DEF HandlerStep

\* A consumer that starts cancels whoever reads from its host, and one that
\* begins to read has found its agent at that host.
LEMMA ConsumerStepKeepsHomes ==
  ASSUME TypeOK, MapInv, NEW Home \in [Ids -> Urls], HomeInv(Home), NEW c \in Consumers, ConsumerStep(c)
  PROVE  HomeInv(Home)'
<1>1. UNCHANGED <<agents, handler>>
  BY DEF ConsumerStep, Start, LoopTop, StreamEnds, ConsumerGoto
<1>2. HostsUnique' /\ StoredAtHome(Home)'
  BY <1>1 DEF HomeInv, HostsUnique, AtHome, StoredAtHome, Exists
<1>3. ASSUME Relieved',
             \A d \in Consumers : consumer'[d].pc # "done" =>
               consumer[d].pc # "done" /\ consumer'[d].id = consumer[d].id /\ consumer'[d].url = consumer[d].url
      PROVE  HomeInv(Home)'
  BY <1>1, <1>2, <1>3 DEF HomeInv, AtHome
<1>4. CASE Start(c)
  <2> DEFINE url == consumer[c].url
  <2>1. /\ url \in Urls /\ consumer[c].pc = "pending"
        /\ \A w \in Urls : cancels[w] # c
    BY <1>4 DEF Start, MapInv
  <2>2. \A d \in Consumers \ {c} : consumer'[d] = CancelledAt(url)[d]
    BY <1>4 DEF Start, CancelledAt
  <2>3. /\ consumer'[c].pc = "check" /\ consumer'[c].url = url /\ consumer'[c].id = consumer[c].id
    BY <1>4, <2>1 DEF Start, CancelledAt, TypeOK, Consumer
  <2> HIDE DEF url
  <2>4. \A d \in Consumers \ {c} :
          /\ consumer'[d].pc = consumer[d].pc /\ consumer'[d].url = consumer[d].url
          /\ consumer'[d].id = consumer[d].id
          /\ ~consumer'[d].cancelled => ~consumer[d].cancelled /\ (cancels[url] = d => consumer[d].pc = "done")
    BY <2>1, <2>2, CancelledAtFacts
  <2>5. Relieved'
    <3> SUFFICES ASSUME NEW d \in Consumers, NEW i \in Ids,
                        consumer'[d].pc = "reading", ~consumer'[d].cancelled,
                        Exists(i)', agents'[i] = consumer'[d].url, i # consumer'[d].id
                 PROVE  \E e \in Consumers : consumer'[e].pc = "pending" /\ consumer'[e].url = consumer'[d].url
      BY DEF Relieved
    <3>1. /\ d # c /\ consumer[d].pc = "reading" /\ ~consumer[d].cancelled /\ cancels[url] # d
          /\ consumer'[d].url = consumer[d].url /\ consumer'[d].id = consumer[d].id
      BY <2>3, <2>4
    <3>2. cancels[consumer[d].url] = d
      BY <3>1 DEF MapInv, LiveConsumerIsCancellable, Running
    <3>3. PICK e \in Consumers : consumer[e].pc = "pending" /\ consumer[e].url = consumer[d].url
      BY <1>1, <3>1 DEF HomeInv, Relieved, Exists
    <3>4. e # c
      BY <3>1, <3>2, <3>3 DEF url
    <3>5. QED
      BY <2>4, <3>1, <3>3, <3>4
  <2>6. ASSUME NEW d \in Consumers, consumer'[d].pc # "done"
        PROVE  consumer[d].pc # "done" /\ consumer'[d].id = consumer[d].id /\ consumer'[d].url = consumer[d].url
    <3>1. CASE d = c
      BY <2>1, <2>3, <3>1 DEF url
    <3>2. CASE d # c
      BY <2>4, <2>6, <3>2
    <3>3. QED
      BY <3>1, <3>2
  <2>7. QED
    BY <1>3, <2>5, <2>6
<1>5. ASSUME LoopTop(c) \/ StreamEnds(c) PROVE HomeInv(Home)'
  <2>1. \A d \in Consumers \ {c} : consumer'[d] = consumer[d]
    BY <1>5 DEF LoopTop, StreamEnds, ConsumerGoto, TypeOK
  <2>2. consumer[c].pc \in {"check", "reading"}
    BY <1>5 DEF LoopTop, StreamEnds
  <2>3. \/ consumer'[c].pc = "done"
        \/ /\ consumer'[c].pc = "check"
           /\ consumer'[c].id = consumer[c].id /\ consumer'[c].url = consumer[c].url
        \/ /\ consumer'[c].pc = "reading" /\ Exists(consumer[c].id)
           /\ consumer'[c].id = consumer[c].id /\ consumer'[c].url = consumer[c].url
    <3>1. \/ consumer'[c] = Done
          \/ consumer'[c] = [consumer[c] EXCEPT !.pc = "check"]
          \/ consumer'[c] = [consumer[c] EXCEPT !.pc = "reading"] /\ Exists(consumer[c].id)
      BY <1>5 DEF LoopTop, StreamEnds, ConsumerGoto, MayGoOn, TypeOK
    <3>2. consumer[c] \in Consumer
      BY DEF TypeOK
    <3>3. QED
      BY <3>1, <3>2 DEF Done, Consumer
  <2>4. Relieved'
    <3> SUFFICES ASSUME NEW d \in Consumers, NEW i \in Ids,
                        consumer'[d].pc = "reading", ~consumer'[d].cancelled,
                        Exists(i)', agents'[i] = consumer'[d].url, i # consumer'[d].id
                 PROVE  \E e \in Consumers : consumer'[e].pc = "pending" /\ consumer'[e].url = consumer'[d].url
      BY DEF Relieved
    <3>1. agents[i] = agents'[i] /\ Exists(i)
      BY <1>1 DEF Exists
    <3>2. CASE d = c
      <4>1. Exists(consumer[c].id) /\ consumer'[c].id = consumer[c].id /\ consumer'[c].url = consumer[c].url
        BY <2>3, <3>2
      <4>2. consumer[c].id \in Ids /\ agents[consumer[c].id] = consumer[c].url
        BY <2>2, <4>1 DEF HomeInv, AtHome, StoredAtHome
      <4>3. QED
        BY <3>1, <3>2, <4>1, <4>2 DEF HomeInv, HostsUnique
    <3>3. CASE d # c
      <4>1. consumer'[d] = consumer[d]
        BY <2>1, <3>3
      <4>2. PICK e \in Consumers : consumer[e].pc = "pending" /\ consumer[e].url = consumer[d].url
        BY <3>1, <4>1 DEF HomeInv, Relieved
      <4>3. e # c
        BY <2>2, <4>2
      <4>4. QED
        BY <2>1, <4>1, <4>2, <4>3
    <3>4. QED
      BY <3>2, <3>3
  <2>5. QED
    BY <1>3, <2>1, <2>2, <2>3, <2>4
<1>6. QED
  BY <1>4, <1>5 DEF ConsumerStep

\* A restart gives every stored agent a consumer for its host.
LEMMA ReconnectedHomes ==
  ASSUME NEW Home, StoredAtHome(Home), NEW cs \in Reconnected, NEW c \in Consumers
  PROVE  /\ cs[c].pc \in {"done", "pending"}
         /\ cs[c].pc # "done" => cs[c].id \in Ids /\ cs[c].url = Home[cs[c].id]
BY DEF Reconnected, PendingFor, Done, StoredAtHome

\* Every step keeps HomeInv.
LEMMA HomeStep ==
  ASSUME TypeOK, CancelInv, NEW Home \in [Ids -> Urls], Steady(Home), HomeInv(Home), [Next]_vars
  PROVE  HomeInv(Home)'
<1>1. MapInv /\ ActorInv
  BY Split
<1>2. ASSUME NEW h \in Handlers, Request(h) \/ HandlerStep(h) PROVE HomeInv(Home)'
  BY <1>1, <1>2, RequestKeepsHomes, HandlerStepKeepsHomes
<1>3. ASSUME NEW h \in Handlers, EnricherStep(h) PROVE HomeInv(Home)'
  <2>1. CASE Panic(h)
    <3>1. /\ \A c \in Consumers : consumer'[c].pc = "done"
          /\ \A g \in Handlers : handler'[g].pc = "idle"
          /\ UNCHANGED agents
      BY <2>1 DEF Panic, Done, Idle, Doing
    <3>2. QED
      BY <3>1 DEF HomeInv, HostsUnique, AtHome, StoredAtHome, Relieved, Exists
  <2>2. CASE EnrichRead(h) \/ EnrichFetch(h) \/ EnrichFinish(h)
    <3>1. UNCHANGED <<agents, consumer, handler>>
      BY <2>2 DEF EnrichRead, EnrichFetch, EnrichFinish
    <3>2. QED
      BY <3>1 DEF HomeInv, HostsUnique, AtHome, StoredAtHome, Relieved, Exists
  <2>3. QED
    BY <1>3, <2>1, <2>2 DEF EnricherStep
<1>4. ASSUME NEW c \in Consumers, ConsumerStep(c) PROVE HomeInv(Home)'
  BY <1>1, <1>4, ConsumerStepKeepsHomes
<1>5. CASE Restart
  <2>1. UNCHANGED <<agents, handler>> /\ consumer' \in Reconnected
    BY <1>5 DEF Restart
  <2>2. \A c \in Consumers :
          /\ consumer'[c].pc \in {"done", "pending"}
          /\ consumer'[c].pc # "done" => consumer'[c].id \in Ids /\ consumer'[c].url = Home[consumer'[c].id]
    BY <2>1, ReconnectedHomes DEF HomeInv, AtHome
  <2>3. QED
    BY <2>1, <2>2 DEF HomeInv, HostsUnique, AtHome, StoredAtHome, Relieved, Exists
<1>6. CASE Shutdown \/ UNCHANGED vars
  <2>1. UNCHANGED <<agents, consumer, handler>>
    BY <1>6 DEF Shutdown, vars
  <2>2. QED
    BY <2>1 DEF HomeInv, HostsUnique, AtHome, StoredAtHome, Relieved, Exists
<1>7. QED
  BY <1>2, <1>3, <1>4, <1>5, <1>6 DEF Next

\* Where agents keep to their hosts and saves succeed, nobody keeps publishing
\* under the name of an agent whose host another one has taken over.
THEOREM ReplacedStaysSilent ==
  ASSUME NEW Home \in [Ids -> Urls], Steady(Home)
  PROVE  StoredAtHome(Home) /\ Spec => []ReplacedIsSilent
<1>1. StoredAtHome(Home) /\ Init => HomeInv(Home)
  <2> SUFFICES ASSUME StoredAtHome(Home), Init PROVE HomeInv(Home)
    OBVIOUS
  <2>1. \A c \in Consumers :
          /\ consumer[c].pc \in {"done", "pending"}
          /\ consumer[c].pc # "done" => consumer[c].id \in Ids /\ consumer[c].url = Home[consumer[c].id]
    BY ReconnectedHomes DEF Init
  <2>2. QED
    BY <2>1 DEF Init, HomeInv, AtHome, Relieved, Idle, Doing
<1>2. TypeOK /\ CancelInv /\ HomeInv(Home) /\ [Next]_vars => HomeInv(Home)'
  BY HomeStep
<1>3. HomeInv(Home) => ReplacedIsSilent
  BY DEF HomeInv, Relieved, ReplacedIsSilent, Quiet, Cancelled
<1>4. Spec => []CancelInv
  BY InitCancelInv, CancelStep, TypeCorrect, PTL DEF Spec
<1>5. QED
  BY <1>1, <1>2, <1>3, <1>4, TypeCorrect, PTL DEF Spec
=============================================================================
