---------------------------- MODULE AgentServer -----------------------------
(***************************************************************************)
(* The HTTP handlers that register and remove agents                       *)
(* (internal/server/handlers_registration.go and handlers_agents.go), the  *)
(* map of cancel functions in Server, the life of the SSE consumers they   *)
(* start and stop (SSEConsumer.Run in internal/agents/sse_consumer.go),    *)
(* and the restart of the process (ReconnectToStoredAgents).               *)
(*                                                                         *)
(* A handler is a process whose steps are its critical sections: a call of *)
(* the registry holds AgentRegistry.mu, a change of consumerCancels holds  *)
(* consumerMu, and between two of them any other goroutine may run.  The   *)
(* registry is its map from agents to hosts here; module AgentStore opens  *)
(* it up.  The events the handlers publish at their end are not part of    *)
(* this module: nothing here reads them.                                   *)
(***************************************************************************)
EXTENDS Naturals, Sequences

CONSTANTS
  Ids,              \* agent identifiers
  Urls,             \* host addresses
  Placements,       \* <<identifier, host>>: the registrations agents ask for
  Additions,        \* <<identifiers, host>>: the additions users ask for, with
                    \* the identifiers to try in turn for the name they give
  Handlers,         \* requests that can be in progress at the same time
  Consumers,        \* bound on consumer goroutines that exist at the same time
  NoUrl, NoId, NoConsumer,
  MaxSaveFailures   \* bound on registry saves that fail

ASSUME ServerAssumption ==
  /\ NoUrl \notin Urls
  /\ NoId \notin Ids
  /\ NoConsumer \notin Consumers
  /\ Placements \subseteq Ids \X Urls
  /\ Additions \subseteq (Seq(Ids) \ {<<>>}) \X Urls
  /\ MaxSaveFailures \in Nat

VARIABLES
  agents,        \* the registry: the host of each agent
  cancels,       \* Server.consumerCancels: whose cancel function is kept for a host
  consumer,      \* the consumer goroutines
  handler,       \* the requests in progress
  enricher,      \* the enrichAgentFromRole goroutine each handler may have started
  stopping,      \* the shutdown context is cancelled
  crashed,       \* an unrecovered panic ended the process
  saveFailures   \* registry saves that failed so far

vars == <<agents, cancels, consumer, handler, enricher, stopping, crashed, saveFailures>>

Consumer == [pc        : {"done", "pending", "check", "reading"},
             id        : Ids \cup {NoId},
             url       : Urls \cup {NoUrl},
             cancelled : BOOLEAN]
Done == [pc |-> "done", id |-> NoId, url |-> NoUrl, cancelled |-> FALSE]

Handler == [pc   : {"idle", "register", "cancel", "unregister", "probe", "add"},
            id   : Ids \cup {NoId},
            url  : Urls \cup {NoUrl},
            rest : Seq(Ids)]          \* identifiers an add may still try
Doing(pc, id, url) == [pc |-> pc, id |-> id, url |-> url, rest |-> <<>>]
Idle == Doing("idle", NoId, NoUrl)

Enricher == [pc : {"idle", "read", "fetch", "reread"}, id : Ids \cup {NoId}]
NoEnricher == [pc |-> "idle", id |-> NoId]

TypeOK ==
  /\ agents \in [Ids -> Urls \cup {NoUrl}]
  /\ cancels \in [Urls -> Consumers \cup {NoConsumer}]
  /\ consumer \in [Consumers -> Consumer]
  /\ handler \in [Handlers -> Handler]
  /\ enricher \in [Handlers -> Enricher]
  /\ stopping \in BOOLEAN
  /\ crashed \in BOOLEAN
  /\ saveFailures \in 0 .. MaxSaveFailures

Exists(id) == agents[id] # NoUrl                \* the second result of registry.Get
Running(c) == consumer[c].pc \in {"check", "reading"}
\* Mutant: a consumer's context does not derive from the shutdown context.
CancelledAlone(c) == consumer[c].cancelled

Cancelled(c) == consumer[c].cancelled \/ stopping

\* A goroutine slot nobody refers to any more.
Free(c) == consumer[c].pc = "done" /\ \A u \in Urls : cancels[u] # c

-----------------------------------------------------------------------------
(* Helpers of the handlers.                                                *)

\* consumer after Server.cancelConsumer, or the prevCancel of startSSEConsumer.
CancelledAt(url) ==
  [c \in Consumers |-> IF cancels[url] = c /\ consumer[c].pc # "done"
                         THEN [consumer[c] EXCEPT !.cancelled = TRUE]
                         ELSE consumer[c]]

\* Mutant: the entry is deleted without a call of its cancel function.
CancelConsumerForgets(url) ==
  /\ consumer' = consumer
  /\ cancels' = [cancels EXCEPT ![url] = NoConsumer]

CancelConsumer(url) ==
  /\ consumer' = CancelledAt(url)
  /\ cancels' = [cancels EXCEPT ![url] = NoConsumer]

\* go s.startSSEConsumer(agent): the goroutine exists, and has not run yet.
Spawn(id, url) ==
  \E c \in Consumers :
    /\ Free(c)
    /\ consumer' = [consumer EXCEPT ![c] = [pc |-> "pending", id |-> id, url |-> url, cancelled |-> FALSE]]

\* Mutant: the registry is filled under the host.
RegisteredByHost(id, url) ==
  [i \in Ids \cup {url} |-> IF i = url THEN url ELSE agents[i]]

\* registry.Register: replace the agent at the same host, then add this one.
Registered(id, url) ==
  [i \in Ids |-> IF i = id THEN url
                 ELSE IF agents[i] = url THEN NoUrl
                 ELSE agents[i]]

Goto(h, pc) == handler' = [handler EXCEPT ![h].pc = pc]
Return(h) == handler' = [handler EXCEPT ![h] = Idle]
SaveFails == saveFailures < MaxSaveFailures /\ saveFailures' = saveFailures + 1

\* http.Server.Shutdown stops accepting requests.
Accept(h) == handler[h].pc = "idle" /\ ~stopping /\ ~crashed

-----------------------------------------------------------------------------
(* POST /register: cancelConsumer, Register, go startSSEConsumer.          *)

BeginRegister(h, id, url) ==
  /\ Accept(h)
  /\ CancelConsumer(url)
  /\ handler' = [handler EXCEPT ![h] = Doing("register", id, url)]
  /\ UNCHANGED <<agents, enricher, stopping, crashed, saveFailures>>

Register(h) ==
  /\ handler[h].pc = "register"
  /\ agents' = Registered(handler[h].id, handler[h].url)
  /\ Spawn(handler[h].id, handler[h].url)
  /\ Return(h)
  /\ UNCHANGED <<cancels, enricher, stopping, crashed, saveFailures>>

\* The save inside Register or Unregister fails.  Memory has changed; the
\* handler answers with an error and starts nothing.
RegisterNotSaved(h) ==
  /\ handler[h].pc \in {"register", "add"}
  /\ SaveFails
  /\ agents' = Registered(handler[h].id, handler[h].url)
  /\ Return(h)
  /\ UNCHANGED <<cancels, consumer, enricher, stopping, crashed>>

-----------------------------------------------------------------------------
(* POST /unregister and DELETE /agents/{id}: Get, cancelConsumer,          *)
(* Unregister.                                                             *)

\* The copy of the agent tells which host's consumer to cancel.
BeginRemoval(h, id) ==
  /\ Accept(h)
  /\ Exists(id)
  /\ handler' = [handler EXCEPT ![h] = Doing("cancel", id, agents[id])]
  /\ UNCHANGED <<agents, cancels, consumer, enricher, stopping, crashed, saveFailures>>

\* handleUnregister does not return when Get finds nothing; handleDeleteAgent does.
BeginUnregisterUnknown(h, id) ==
  /\ Accept(h)
  /\ ~Exists(id)
  /\ handler' = [handler EXCEPT ![h] = Doing("unregister", id, NoUrl)]
  /\ UNCHANGED <<agents, cancels, consumer, enricher, stopping, crashed, saveFailures>>

CancelBeforeRemoval(h) ==
  /\ handler[h].pc = "cancel"
  /\ CancelConsumer(handler[h].url)
  /\ Goto(h, "unregister")
  /\ UNCHANGED <<agents, enricher, stopping, crashed, saveFailures>>

Unregister(h) ==
  /\ handler[h].pc = "unregister"
  /\ agents' = [agents EXCEPT ![handler[h].id] = NoUrl]
  /\ Return(h)
  /\ UNCHANGED <<cancels, consumer, enricher, stopping, crashed, saveFailures>>

UnregisterNotSaved(h) ==
  /\ handler[h].pc = "unregister"
  /\ Exists(handler[h].id)
  /\ SaveFails
  /\ agents' = [agents EXCEPT ![handler[h].id] = NoUrl]
  /\ Return(h)
  /\ UNCHANGED <<cancels, consumer, enricher, stopping, crashed>>

-----------------------------------------------------------------------------
(* POST /agents: look for a free identifier, Register, start the consumer  *)
(* and the enrichment.                                                     *)

BeginAdd(h, slug, url) ==
  /\ Accept(h)
  /\ enricher[h].pc = "idle"
  /\ handler' = [handler EXCEPT ![h] = [pc |-> "probe", id |-> Head(slug), url |-> url, rest |-> Tail(slug)]]
  /\ UNCHANGED <<agents, cancels, consumer, enricher, stopping, crashed, saveFailures>>

\* One turn of the loop: registry.Get tells whether the identifier is taken.
Probe(h) ==
  /\ handler[h].pc = "probe"
  /\ IF Exists(handler[h].id)
       THEN /\ handler[h].rest # <<>>
            /\ handler' = [handler EXCEPT ![h].id = Head(handler[h].rest),
                                          ![h].rest = Tail(handler[h].rest)]
       ELSE handler' = [handler EXCEPT ![h] = Doing("add", @.id, @.url)]
  /\ UNCHANGED <<agents, cancels, consumer, enricher, stopping, crashed, saveFailures>>

\* No cancelConsumer here: startSSEConsumer will cancel what runs at the host.
Add(h) ==
  /\ handler[h].pc = "add"
  /\ agents' = Registered(handler[h].id, handler[h].url)
  /\ Spawn(handler[h].id, handler[h].url)
  /\ enricher' = [enricher EXCEPT ![h] = [pc |-> "read", id |-> handler[h].id]]
  /\ Return(h)
  /\ UNCHANGED <<cancels, stopping, crashed, saveFailures>>

-----------------------------------------------------------------------------
(* enrichAgentFromRole, a goroutine without a recover.                     *)

EnricherGoto(h, pc) == enricher' = [enricher EXCEPT ![h].pc = pc]
EnricherReturn(h) == enricher' = [enricher EXCEPT ![h] = NoEnricher]

EnrichRead(h) ==
  /\ enricher[h].pc = "read"
  /\ IF Exists(enricher[h].id) THEN EnricherGoto(h, "fetch") ELSE EnricherReturn(h)
  /\ UNCHANGED <<agents, cancels, consumer, handler, stopping, crashed, saveFailures>>

\* GetRole fails or its answer has nothing to add; otherwise UpdateAgent edits
\* the agent, or nothing if it is gone.
EnrichFetch(h) ==
  /\ enricher[h].pc = "fetch"
  /\ EnricherReturn(h) \/ EnricherGoto(h, "reread")
  /\ UNCHANGED <<agents, cancels, consumer, handler, stopping, crashed, saveFailures>>

\* The second Get finds the agent; what is left is saving and publishing.
EnrichFinish(h) ==
  /\ enricher[h].pc = "reread"
  /\ Exists(enricher[h].id)
  /\ EnricherReturn(h)
  /\ UNCHANGED <<agents, cancels, consumer, handler, stopping, crashed, saveFailures>>

\* The second Get returns nil, and reading a field of nil ends the process:
\* every goroutine is gone, the registry is what was saved.
Panic(h) ==
  /\ enricher[h].pc = "reread"
  /\ ~Exists(enricher[h].id)
  /\ crashed' = TRUE
  /\ consumer' = [c \in Consumers |-> Done]
  /\ cancels' = [u \in Urls |-> NoConsumer]
  /\ handler' = [g \in Handlers |-> Idle]
  /\ enricher' = [g \in Handlers |-> NoEnricher]
  /\ UNCHANGED <<agents, stopping, saveFailures>>

-----------------------------------------------------------------------------
(* A consumer: startSSEConsumer, then SSEConsumer.Run.                     *)

\* Mutant: the previous cancel function is overwritten without being called.
StartWithoutCancel(c) ==
  /\ consumer[c].pc = "pending"
  /\ consumer' = [consumer EXCEPT ![c].pc = "check"]
  /\ cancels' = [cancels EXCEPT ![consumer[c].url] = c]
  /\ UNCHANGED <<agents, handler, enricher, stopping, crashed, saveFailures>>

\* The critical section of startSSEConsumer.
Start(c) ==
  /\ consumer[c].pc = "pending"
  /\ consumer' = [CancelledAt(consumer[c].url) EXCEPT ![c].pc = "check"]
  /\ cancels' = [cancels EXCEPT ![consumer[c].url] = c]
  /\ UNCHANGED <<agents, handler, enricher, stopping, crashed, saveFailures>>

\* Mutants: one of the two tests is missing.
MayGoOnUnregistered(c) == ~Cancelled(c)
MayGoOnCancelled(c) == Exists(consumer[c].id)

\* Both tests of Run: the agent is still registered, the context still alive.
MayGoOn(c) == Exists(consumer[c].id) /\ ~Cancelled(c)

ConsumerGoto(c, pc) ==
  /\ consumer' = [consumer EXCEPT ![c] = IF pc = "done" THEN Done ELSE [@ EXCEPT !.pc = pc]]
  /\ UNCHANGED <<agents, cancels, handler, enricher, stopping, crashed, saveFailures>>

\* The top of the loop, reached at the start and after a backoff.  A backoff
\* ends when its timer fires or the context is cancelled; either way the
\* outcome is that of the tests here.
LoopTop(c) ==
  /\ consumer[c].pc = "check"
  /\ ConsumerGoto(c, IF MayGoOn(c) THEN "reading" ELSE "done")

\* The stream ends: refused, closed, broken, or aborted by the context.
StreamEnds(c) ==
  /\ consumer[c].pc = "reading"
  /\ ConsumerGoto(c, IF MayGoOn(c) THEN "check" ELSE "done")

-----------------------------------------------------------------------------
(* The process.                                                            *)

\* SIGINT or SIGTERM cancels the context every consumer's context derives from.
Shutdown ==
  /\ ~stopping /\ ~crashed
  /\ stopping' = TRUE
  /\ UNCHANGED <<agents, cancels, consumer, handler, enricher, crashed, saveFailures>>

\* ReconnectToStoredAgents: one new goroutine for every stored agent.
PendingFor(i) == [pc |-> "pending", id |-> i, url |-> agents[i], cancelled |-> FALSE]

Reconnected ==
  {cs \in [Consumers -> {Done} \cup {PendingFor(i) : i \in {j \in Ids : Exists(j)}}] :
     \A i \in Ids : Exists(i) => \E c \in Consumers : \A d \in Consumers : cs[d] = PendingFor(i) <=> d = c}

\* main starts again, unless it was told to stop, and loads the registry.
Restart ==
  /\ crashed /\ ~stopping
  /\ crashed' = FALSE
  /\ consumer' \in Reconnected
  /\ UNCHANGED <<agents, cancels, handler, enricher, stopping, saveFailures>>

HostsUnique == \A i, j \in Ids : Exists(i) /\ agents[i] = agents[j] => i = j

\* main after Load: any registry that OneAgentPerHost of AgentStore allows.
Init ==
  /\ agents \in [Ids -> Urls \cup {NoUrl}]
  /\ HostsUnique
  /\ consumer \in Reconnected
  /\ cancels = [u \in Urls |-> NoConsumer]
  /\ handler = [h \in Handlers |-> Idle]
  /\ enricher = [h \in Handlers |-> NoEnricher]
  /\ stopping = FALSE
  /\ crashed = FALSE
  /\ saveFailures = 0

Request(h) ==
  \/ \E p \in Placements : BeginRegister(h, p[1], p[2])
  \/ \E id \in Ids : BeginRemoval(h, id) \/ BeginUnregisterUnknown(h, id)
  \/ \E a \in Additions : BeginAdd(h, a[1], a[2])

HandlerStep(h) ==
  \/ Register(h) \/ Add(h) \/ RegisterNotSaved(h)
  \/ CancelBeforeRemoval(h) \/ Unregister(h) \/ UnregisterNotSaved(h)
  \/ Probe(h)

EnricherStep(h) == EnrichRead(h) \/ EnrichFetch(h) \/ EnrichFinish(h) \/ Panic(h)

ConsumerStep(c) == Start(c) \/ LoopTop(c) \/ StreamEnds(c)

Next ==
  \/ \E h \in Handlers : Request(h) \/ HandlerStep(h) \/ EnricherStep(h)
  \/ \E c \in Consumers : ConsumerStep(c)
  \/ Shutdown
  \/ Restart

Spec == Init /\ [][Next]_vars

\* Go schedules every goroutine that can run.  A stream may stay open for ever,
\* but not under a cancelled context: the transport closes it.
Fairness ==
  /\ \A h \in Handlers : WF_vars(HandlerStep(h))
  /\ \A c \in Consumers :
       /\ WF_vars(Start(c) \/ LoopTop(c))
       /\ WF_vars(Cancelled(c) /\ StreamEnds(c))

FairSpec == Spec /\ Fairness

-----------------------------------------------------------------------------
(* Properties.                                                             *)

\* Whatever the interleaving of registrations, removals and late goroutines,
\* the map of cancel functions never loses a consumer that is still wanted:
\* so a host has at most one, and the next cancelConsumer reaches it.
LiveConsumerIsCancellable ==
  \A c \in Consumers :
    Running(c) /\ ~consumer[c].cancelled => cancels[consumer[c].url] = c

\* The requests are answered and every goroutine they started has begun.
Quiet ==
  /\ \A h \in Handlers : handler[h].pc = "idle"
  /\ \A c \in Consumers : consumer[c].pc # "pending"

\* The comment in handleRegister: a stale consumer does not keep publishing
\* under an old identifier after another agent has taken over its host.  It
\* holds where no agent moves to a second host and every save succeeds.
ReplacedIsSilent ==
  \A i \in Ids, c \in Consumers :
    Quiet /\ Exists(i) /\ consumer[c].pc = "reading" /\ ~Cancelled(c) /\ consumer[c].url = agents[i]
      => consumer[c].id = i

\* A consumer whose context is cancelled ends, be it in front of a connection,
\* in the middle of a stream or in a backoff.
CancelledStops ==
  \A c \in Consumers : consumer[c].cancelled ~> ~consumer[c].cancelled

\* After SIGTERM all consumers end, those a late handler still starts included.
ShutdownStopsConsumers ==
  stopping ~> [](\A c \in Consumers : consumer[c].pc = "done")

\* The lifecycle the README documents: the orchestrator consumes the event
\* stream of the agents registered with it.
RegisteredHasConsumer ==
  Quiet /\ ~stopping =>
    \A i \in Ids : Exists(i) =>
      \E c \in Consumers :
        Running(c) /\ ~Cancelled(c) /\ consumer[c].id = i /\ consumer[c].url = agents[i]

\* enrichAgentFromRole expects to find the agent again to publish it.
NoPanic == ~crashed
=============================================================================
