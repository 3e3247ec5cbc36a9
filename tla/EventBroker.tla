---------------------------- MODULE EventBroker -----------------------------
(***************************************************************************)
(* The fan-out of events to the browsers: Broker in                        *)
(* internal/events/broker.go, and handleBrowserSSE in                      *)
(* internal/server/handlers_events.go, the handler of GET /events, which   *)
(* owns one subscriber channel for as long as its browser stays.           *)
(*                                                                         *)
(* Frames are numbered in the order of the calls of Publish; what a frame  *)
(* says does not matter to the broker.  The ten seconds main waits for the *)
(* handlers after a signal are not modelled: whether they are needed is a  *)
(* question the properties ask.                                            *)
(***************************************************************************)
EXTENDS Naturals, Sequences

CONSTANTS
  Streams,      \* connections of browsers to GET /events, reused when they end
  Readers,      \* the streams whose browser keeps reading
  PublishCap,   \* capacity of Broker.publishCh
  StreamCap,    \* capacity of a subscriber channel
  MaxFrames     \* bound on the frames published

ASSUME BrokerAssumption ==
  /\ Readers \subseteq Streams
  /\ PublishCap \in Nat \ {0}
  /\ StreamCap \in Nat \ {0}
  /\ MaxFrames \in Nat

VARIABLES
  published,    \* how many frames were given to Publish
  publishCh,    \* Broker.publishCh
  subscribers,  \* Broker.subscribers: the streams whose channel is in the map
  chan,         \* the subscriber channel of each stream
  handler,      \* where the handler of each stream is
  seen,         \* the newest frame ever written to each stream
  dispatcher,   \* Broker.Run: where it is, its frame, the channels still to serve
  stopping      \* the context given to Run is cancelled

vars == <<published, publishCh, subscribers, chan, handler, seen, dispatcher, stopping>>

Frames == 1 .. MaxFrames
Selecting == [at |-> "select", frame |-> 0, todo |-> {}]

TypeOK ==
  /\ published \in 0 .. MaxFrames
  /\ publishCh \in Seq(Frames) /\ Len(publishCh) <= PublishCap
  /\ subscribers \subseteq Streams
  /\ chan \in [Streams -> Seq(Frames)]
  /\ \A s \in Streams : Len(chan[s]) <= StreamCap
  /\ handler \in [Streams -> {"none", "loop", "leaving"}]
  /\ seen \in [Streams -> 0 .. MaxFrames]
  /\ dispatcher \in [at    : {"select", "lock", "fan", "stopped"},
                     frame : 0 .. MaxFrames,
                     todo  : SUBSET Streams]
  /\ stopping \in BOOLEAN

Init ==
  /\ published = 0
  /\ publishCh = <<>>
  /\ subscribers = {}
  /\ chan = [s \in Streams |-> <<>>]
  /\ handler = [s \in Streams |-> "none"]
  /\ seen = [s \in Streams |-> 0]
  /\ dispatcher = Selecting
  /\ stopping = FALSE

\* Run holds the read lock from its RLock to its RUnlock; Subscribe and
\* Unsubscribe need the write lock.
ReadLocked == dispatcher.at = "fan"
WriteLockFree == ~ReadLocked

-----------------------------------------------------------------------------
(* Publish, called by consumers, handlers, the poller and the watcher.     *)

\* Mutant: the buffer has one place too many.
EnqueuedBeyond(n) == IF Len(publishCh) <= PublishCap THEN Append(publishCh, n) ELSE publishCh

\* The select with a default: a full channel drops the frame.
Enqueued(n) == IF Len(publishCh) < PublishCap THEN Append(publishCh, n) ELSE publishCh

Publish ==
  /\ published < MaxFrames
  /\ published' = published + 1
  /\ publishCh' = Enqueued(published + 1)
  /\ UNCHANGED <<subscribers, chan, handler, seen, dispatcher, stopping>>

-----------------------------------------------------------------------------
(* Run.                                                                    *)

\* The select of Run picks at random when both of its cases are ready.
Take ==
  /\ dispatcher.at = "select"
  /\ publishCh # <<>>
  /\ dispatcher' = [at |-> "lock", frame |-> Head(publishCh), todo |-> {}]
  /\ publishCh' = Tail(publishCh)
  /\ UNCHANGED <<published, subscribers, chan, handler, seen, stopping>>

StopRun ==
  /\ dispatcher.at = "select"
  /\ stopping
  /\ dispatcher' = [at |-> "stopped", frame |-> 0, todo |-> {}]
  /\ UNCHANGED <<published, publishCh, subscribers, chan, handler, seen, stopping>>

RLock ==
  /\ dispatcher.at = "lock"
  /\ dispatcher' = [dispatcher EXCEPT !.at = "fan", !.todo = subscribers]
  /\ UNCHANGED <<published, publishCh, subscribers, chan, handler, seen, stopping>>

Served(s) == dispatcher' = [dispatcher EXCEPT !.todo = @ \ {s}]

\* Mutant: a frame that finds a channel full is queued once more.
FanAndRetry(s) ==
  /\ ReadLocked /\ s \in dispatcher.todo
  /\ Served(s)
  /\ IF Len(chan[s]) < StreamCap
       THEN chan' = [chan EXCEPT ![s] = Append(@, dispatcher.frame)] /\ UNCHANGED publishCh
       ELSE publishCh' = Enqueued(dispatcher.frame) /\ UNCHANGED chan
  /\ UNCHANGED <<published, subscribers, handler, seen, stopping>>

\* Mutant: a plain send, which waits until the channel has room.
FanAndWait(s) ==
  /\ ReadLocked /\ s \in dispatcher.todo
  /\ Served(s)
  /\ Len(chan[s]) < StreamCap
  /\ chan' = [chan EXCEPT ![s] = Append(@, dispatcher.frame)]
  /\ UNCHANGED <<published, publishCh, subscribers, handler, seen, stopping>>

\* One turn of the range over the map, in any order: a full channel is skipped.
Fan(s) ==
  /\ ReadLocked /\ s \in dispatcher.todo
  /\ Served(s)
  /\ chan' = IF Len(chan[s]) < StreamCap
               THEN [chan EXCEPT ![s] = Append(@, dispatcher.frame)]
               ELSE chan
  /\ UNCHANGED <<published, publishCh, subscribers, handler, seen, stopping>>

RUnlock ==
  /\ ReadLocked /\ dispatcher.todo = {}
  /\ dispatcher' = Selecting
  /\ UNCHANGED <<published, publishCh, subscribers, chan, handler, seen, stopping>>

-----------------------------------------------------------------------------
(* handleBrowserSSE.                                                       *)

\* A new channel, and Subscribe.
Connect(s) ==
  /\ handler[s] = "none" /\ ~stopping
  /\ WriteLockFree
  /\ chan' = [chan EXCEPT ![s] = <<>>]
  /\ subscribers' = subscribers \cup {s}
  /\ handler' = [handler EXCEPT ![s] = "loop"]
  /\ UNCHANGED <<published, publishCh, seen, dispatcher, stopping>>

\* One turn of the event loop: a frame is taken and written to the browser.
\* The channel is never found closed: only this handler closes it.
WriteFrame(s) ==
  /\ handler[s] = "loop"
  /\ chan[s] # <<>>
  /\ seen' = [seen EXCEPT ![s] = Head(chan[s])]
  /\ chan' = [chan EXCEPT ![s] = Tail(@)]
  /\ UNCHANGED <<published, publishCh, subscribers, handler, dispatcher, stopping>>

\* The browser goes away, which ends the context of the request.
Disconnect(s) ==
  /\ handler[s] = "loop"
  /\ handler' = [handler EXCEPT ![s] = "leaving"]
  /\ UNCHANGED <<published, publishCh, subscribers, chan, seen, dispatcher, stopping>>

\* Mutant: Unsubscribe does not take the lock.
UnsubscribeUnlocked(s) ==
  /\ handler[s] = "leaving"
  /\ subscribers' = subscribers \ {s}
  /\ handler' = [handler EXCEPT ![s] = "none"]
  /\ UNCHANGED <<published, publishCh, chan, seen, dispatcher, stopping>>

\* The deferred Unsubscribe: out of the map, and closed.
Unsubscribe(s) ==
  /\ handler[s] = "leaving"
  /\ WriteLockFree
  /\ subscribers' = subscribers \ {s}
  /\ handler' = [handler EXCEPT ![s] = "none"]
  /\ UNCHANGED <<published, publishCh, chan, seen, dispatcher, stopping>>

\* main's context is cancelled by a signal; the server accepts no more requests.
Shutdown ==
  /\ ~stopping
  /\ stopping' = TRUE
  /\ UNCHANGED <<published, publishCh, subscribers, chan, handler, seen, dispatcher>>

RunStep == Take \/ StopRun \/ RLock \/ RUnlock \/ \E s \in Streams : Fan(s)

Next ==
  \/ Publish
  \/ RunStep
  \/ \E s \in Streams : Connect(s) \/ WriteFrame(s) \/ Disconnect(s) \/ Unsubscribe(s)
  \/ Shutdown

Spec == Init /\ [][Next]_vars

\* The goroutine of Run is scheduled, and so is a handler that can go on; the
\* browsers in Readers take what is written to them, the others may never.
Fairness ==
  /\ WF_vars(RunStep)
  /\ \A s \in Streams : WF_vars(Unsubscribe(s))
  /\ \A s \in Readers : WF_vars(WriteFrame(s))

FairSpec == Spec /\ Fairness

-----------------------------------------------------------------------------
(* Properties.                                                             *)

\* What Run is about to send on is not closed: a send on a closed channel
\* would end the process.  Unsubscribe closes under the write lock.
NeverSendsOnClosed == dispatcher.todo \subseteq subscribers

\* Although Publish and Run both drop frames, a browser sees the rest in
\* order and once, even when its connection ends and another takes its place.
Promise == INSTANCE LossyBroadcast WITH sent <- published
InOrderAtMostOnce == Promise!Spec

In(ch) == {ch[i] : i \in DOMAIN ch}

\* Frame n is on its way to the handler of s.
OnItsWay(n, s) ==
  /\ handler[s] = "loop"
  /\ n = dispatcher.frame \/ n \in In(publishCh) \/ n \in In(chan[s])

\* A browser that does not read, and never leaves, keeps no frame from the
\* ones that read: Run goes on past it.
SlowBrowserHurtsNobody ==
  \A s \in Readers, n \in Frames : OnItsWay(n, s) ~> (~OnItsWay(n, s) \/ stopping)
=============================================================================
