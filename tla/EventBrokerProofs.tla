-------------------------- MODULE EventBrokerProofs --------------------------
(***************************************************************************)
(* Proofs about EventBroker: the types, that Run never sends on a closed   *)
(* channel, and that the broker implements LossyBroadcast.                 *)
(***************************************************************************)
EXTENDS EventBroker, SequenceTheorems, TLAPS

\* Run has a frame exactly while it serves one, and holds the lock for as long
\* as it has channels left to serve.
RunInv ==
  /\ dispatcher.at \in {"lock", "fan"} => dispatcher.frame \in Frames
  /\ dispatcher.at # "fan" => dispatcher.todo = {}

Typed == TypeOK /\ RunInv

-----------------------------------------------------------------------------
(* Types.                                                                  *)

\* The types hold at the start.
LEMMA TypesHoldInitially == Init => Typed
<1> SUFFICES ASSUME Init PROVE Typed
  OBVIOUS
<1> USE BrokerAssumption DEF Init
<1>1. publishCh \in Seq(Frames) /\ Len(publishCh) <= PublishCap
  OBVIOUS
<1>2. chan \in [Streams -> Seq(Frames)] /\ \A s \in Streams : Len(chan[s]) <= StreamCap
  OBVIOUS
<1>3. RunInv /\ dispatcher \in [at    : {"select", "lock", "fan", "stopped"},
                                frame : 0 .. MaxFrames,
                                todo  : SUBSET Streams]
  BY DEF Selecting, RunInv
<1>4. published \in 0 .. MaxFrames /\ seen \in [Streams -> 0 .. MaxFrames]
  OBVIOUS
<1>5. /\ subscribers \subseteq Streams /\ stopping \in BOOLEAN
      /\ handler \in [Streams -> {"none", "loop", "leaving"}]
  OBVIOUS
<1>6. QED
  BY <1>1, <1>2, <1>3, <1>4, <1>5 DEF TypeOK, Typed

\* Every step keeps them.
LEMMA TypesKept == Typed /\ [Next]_vars => Typed'
<1> SUFFICES ASSUME Typed, [Next]_vars PROVE Typed'
  OBVIOUS
<1> USE BrokerAssumption DEF Typed, RunInv
<1>1. CASE Publish
  <2>1. published + 1 \in Frames
    BY <1>1 DEF Publish, TypeOK, Frames
  <2>2. publishCh' \in Seq(Frames) /\ Len(publishCh') <= PublishCap
    BY <1>1, <2>1 DEF Publish, Enqueued, TypeOK
  <2>3. QED
    BY <1>1, <2>1, <2>2 DEF Publish, TypeOK, Frames
<1>2. CASE Take
  <2>1. Head(publishCh) \in Frames /\ Tail(publishCh) \in Seq(Frames) /\ Len(Tail(publishCh)) <= PublishCap
    BY <1>2 DEF Take, TypeOK
  <2>2. QED
    BY <1>2, <2>1 DEF Take, TypeOK, Frames
<1>3. CASE StopRun
  BY <1>3 DEF StopRun, TypeOK
<1>4. CASE RLock
  BY <1>4 DEF RLock, TypeOK
<1>5. CASE RUnlock
  BY <1>5 DEF RUnlock, TypeOK, Selecting
<1>6. ASSUME NEW s \in Streams, Fan(s) PROVE Typed'
  <2>1. dispatcher' = [dispatcher EXCEPT !.todo = @ \ {s}] /\ dispatcher.frame \in Frames
    BY <1>6 DEF Fan, Served, ReadLocked
  <2>2. chan' \in [Streams -> Seq(Frames)] /\ \A q \in Streams : Len(chan'[q]) <= StreamCap
    BY <1>6, <2>1 DEF Fan, TypeOK
  <2>3. QED
    BY <1>6, <2>1, <2>2 DEF Fan, ReadLocked, TypeOK
<1>7. ASSUME NEW s \in Streams, Connect(s) PROVE Typed'
  BY <1>7 DEF Connect, TypeOK
<1>8. ASSUME NEW s \in Streams, WriteFrame(s) PROVE Typed'
  BY SMTT(30), <1>8 DEF WriteFrame, TypeOK, Frames
<1>9. ASSUME NEW s \in Streams, Disconnect(s) \/ Unsubscribe(s) PROVE Typed'
  BY <1>9 DEF Disconnect, Unsubscribe, TypeOK
<1>10. CASE Shutdown
  BY <1>10 DEF Shutdown, TypeOK
<1>11. CASE UNCHANGED vars
  BY <1>11 DEF vars, TypeOK
<1>12. QED
  BY <1>1, <1>2, <1>3, <1>4, <1>5, <1>6, <1>7, <1>8, <1>9, <1>10, <1>11 DEF Next, RunStep

\* The types of all variables; the channels keep to their capacities.
THEOREM TypeCorrect == Spec => []TypeOK /\ []Typed
<1>1. Typed => TypeOK
  BY DEF Typed
<1>2. QED
  BY <1>1, TypesHoldInitially, TypesKept, PTL DEF Spec

-----------------------------------------------------------------------------
(* Closed channels.                                                        *)

\* Run serves channels only under the read lock, and while it holds that no
\* handler can take a channel out of the map and close it.
THEOREM ChannelsServedAreOpen == Spec => []NeverSendsOnClosed
<1>1. Init => NeverSendsOnClosed
  BY DEF Init, NeverSendsOnClosed, Selecting
<1>2. Typed /\ NeverSendsOnClosed /\ [Next]_vars => NeverSendsOnClosed'
  <2> SUFFICES ASSUME Typed, NeverSendsOnClosed, [Next]_vars PROVE NeverSendsOnClosed'
    OBVIOUS
  <2> USE DEF NeverSendsOnClosed, Typed, RunInv
  <2>1. CASE Publish \/ Shutdown \/ UNCHANGED vars
    BY <2>1 DEF Publish, Shutdown, vars
  <2>2. CASE Take \/ StopRun \/ RUnlock
    <3>1. dispatcher'.todo = {}
      BY <2>2 DEF Take, StopRun, RUnlock, Selecting
    <3>2. QED
      BY <3>1
  <2>3. CASE RLock
    BY <2>3 DEF RLock, TypeOK
  <2>4. ASSUME NEW s \in Streams, Fan(s) PROVE NeverSendsOnClosed'
    BY <2>4 DEF Fan, Served, ReadLocked, TypeOK
  <2>5. ASSUME NEW s \in Streams, Connect(s) \/ Unsubscribe(s) PROVE NeverSendsOnClosed'
    BY <2>5 DEF Connect, Unsubscribe, WriteLockFree, ReadLocked, TypeOK
  <2>6. ASSUME NEW s \in Streams, WriteFrame(s) \/ Disconnect(s) PROVE NeverSendsOnClosed'
    BY <2>6 DEF WriteFrame, Disconnect, TypeOK
  <2>7. QED
    BY <2>1, <2>2, <2>3, <2>4, <2>5, <2>6 DEF Next, RunStep
<1>3. QED
  BY <1>1, <1>2, TypeCorrect, PTL DEF Spec
-----------------------------------------------------------------------------
(* Order.                                                                  *)

Sorted(ch) == \A i, j \in DOMAIN ch : i < j => ch[i] < ch[j]
Below(n, ch) == \A i \in DOMAIN ch : n < ch[i]
Above(n, ch) == \A i \in DOMAIN ch : ch[i] < n

\* Publish hands frames over in their order.
QueueInv ==
  /\ Sorted(publishCh) /\ Above(published + 1, publishCh)
  /\ dispatcher.frame <= published /\ Below(dispatcher.frame, publishCh)

\* What s has seen is older than what waits for it, which is older than what
\* is still queued.
StreamInv(s) ==
  /\ Sorted(chan[s]) /\ Above(published + 1, chan[s])
  /\ seen[s] <= published /\ Below(seen[s], chan[s])
  /\ Below(seen[s], publishCh)
  /\ \A i \in DOMAIN publishCh : Above(publishCh[i], chan[s])

\* The frame in the hands of Run is newer than all s was given before.
ServeInv(s) ==
  dispatcher.at = "lock" \/ s \in dispatcher.todo =>
    Above(dispatcher.frame, chan[s]) /\ seen[s] < dispatcher.frame

OrderInv == QueueInv /\ \A s \in Streams : StreamInv(s) /\ ServeInv(s)

\* A later number at the end, or the first one gone, leaves a sorted channel.
LEMMA SortedAppend ==
  ASSUME NEW ch \in Seq(Nat), NEW n \in Nat, Sorted(ch), Above(n, ch)
  PROVE  Sorted(Append(ch, n)) /\ Above(n + 1, Append(ch, n))
BY SMTT(30) DEF Sorted, Above

\* The head comes before all that follows it.
LEMMA SortedTail ==
  ASSUME NEW ch \in Seq(Nat), Sorted(ch), ch # <<>>
  PROVE  /\ Sorted(Tail(ch))
         /\ Below(Head(ch), Tail(ch))
         /\ \A i \in DOMAIN Tail(ch) : i + 1 \in DOMAIN ch /\ Tail(ch)[i] = ch[i + 1]
         /\ 1 \in DOMAIN ch /\ Head(ch) = ch[1]
<1>1. /\ \A i \in DOMAIN Tail(ch) : i + 1 \in DOMAIN ch /\ Tail(ch)[i] = ch[i + 1]
      /\ 1 \in DOMAIN ch /\ Head(ch) = ch[1]
  OBVIOUS
<1>2. DOMAIN ch \subseteq Nat /\ \A i \in DOMAIN Tail(ch) : i \in Nat /\ i > 0
  OBVIOUS
<1>3. Sorted(Tail(ch))
  BY <1>1, <1>2 DEF Sorted
<1>4. Below(Head(ch), Tail(ch))
  BY <1>1, <1>2 DEF Sorted, Below
<1>5. QED
  BY <1>1, <1>3, <1>4

\* The same channels and numbers as TypeOK gives them, as sequences of numbers.
LEMMA NumberTypes ==
  ASSUME Typed
  PROVE  /\ published \in Nat /\ publishCh \in Seq(Nat) /\ dispatcher.frame \in Nat
         /\ \A s \in Streams : chan[s] \in Seq(Nat) /\ seen[s] \in Nat
<1>1. published \in Nat /\ dispatcher.frame \in Nat /\ \A s \in Streams : seen[s] \in Nat
  BY BrokerAssumption DEF Typed, TypeOK
<1>2. Frames \subseteq Nat
  BY BrokerAssumption DEF Frames
<1>3. \A ch \in Seq(Frames) : ch \in Seq(Nat)
  BY <1>2, SeqMonotonic
<1>4. publishCh \in Seq(Nat) /\ \A s \in Streams : chan[s] \in Seq(Nat)
  BY <1>3 DEF Typed, TypeOK
<1>5. QED
  BY <1>1, <1>4

\* Every step keeps the frames in order.
LEMMA OrderKept == Typed /\ Typed' /\ OrderInv /\ [Next]_vars => OrderInv'
<1> SUFFICES ASSUME Typed, Typed', OrderInv, [Next]_vars PROVE OrderInv'
  OBVIOUS
<1> USE NumberTypes DEF OrderInv, QueueInv, StreamInv, ServeInv
<1>1. CASE Publish
  <2>1. /\ published' = published + 1
        /\ UNCHANGED <<chan, seen, dispatcher>>
        /\ publishCh' = Append(publishCh, published + 1) \/ publishCh' = publishCh
    BY <1>1 DEF Publish, Enqueued
  <2>2. CASE publishCh' = publishCh
    BY SMTT(30), <2>1, <2>2 DEF Above, Below
  <2>3. CASE publishCh' = Append(publishCh, published + 1)
    <3>1. Sorted(publishCh') /\ Above(published' + 1, publishCh')
      BY <2>1, <2>3, SortedAppend
    <3>2. \A i \in DOMAIN publishCh' :
             (i \in DOMAIN publishCh /\ publishCh'[i] = publishCh[i]) \/ publishCh'[i] = published + 1
      BY <2>3
    <3>3. dispatcher'.frame <= published' /\ Below(dispatcher'.frame, publishCh')
      BY <2>1, <3>2 DEF Below
    <3>4. ASSUME NEW s \in Streams PROVE StreamInv(s)' /\ ServeInv(s)'
      <4>1. Sorted(chan[s]) /\ Above(published' + 1, chan[s]) /\ Above(published + 1, chan[s])
        BY <2>1 DEF Above
      <4>2. Below(seen[s], publishCh')
        BY <3>2 DEF Below
      <4>3. \A i \in DOMAIN publishCh' : Above(publishCh'[i], chan[s])
        BY <3>2, <4>1
      <4>4. seen'[s] <= published' /\ Below(seen'[s], chan'[s]) /\ ServeInv(s)'
        BY <2>1
      <4>5. QED
        BY <2>1, <4>1, <4>2, <4>3, <4>4
    <3>5. QED
      BY <3>1, <3>3, <3>4
  <2>4. QED
    BY <2>1, <2>2, <2>3
<1>2. CASE Take
  <2>1. /\ UNCHANGED <<published, chan, seen>> /\ publishCh # <<>>
        /\ dispatcher'.frame = Head(publishCh) /\ publishCh' = Tail(publishCh)
        /\ dispatcher'.todo = {}
    BY <1>2 DEF Take
  <2>2. /\ Sorted(publishCh') /\ Below(Head(publishCh), publishCh')
        /\ \A i \in DOMAIN publishCh' : i + 1 \in DOMAIN publishCh /\ publishCh'[i] = publishCh[i + 1]
        /\ 1 \in DOMAIN publishCh /\ Head(publishCh) = publishCh[1]
    BY <2>1, SortedTail
  <2>3. QueueInv'
    BY <2>1, <2>2 DEF Above, Below
  <2>4. ASSUME NEW s \in Streams PROVE StreamInv(s)' /\ ServeInv(s)'
    BY <2>1, <2>2 DEF Above, Below
  <2>5. QED
    BY <2>3, <2>4
<1>3. CASE StopRun \/ RUnlock
  <2>1. /\ UNCHANGED <<published, publishCh, chan, seen>>
        /\ dispatcher'.frame = 0 /\ dispatcher'.todo = {} /\ dispatcher'.at # "lock"
    BY <1>3 DEF StopRun, RUnlock, Selecting
  <2>2. Below(0, publishCh)
    BY DEF Below
  <2>3. QED
    BY <2>1, <2>2
<1>4. CASE RLock
  <2>1. /\ UNCHANGED <<published, publishCh, chan, seen>>
        /\ dispatcher.at = "lock" /\ dispatcher'.at = "fan" /\ dispatcher'.frame = dispatcher.frame
    BY <1>4 DEF RLock, Typed, TypeOK
  <2>2. QED
    BY <2>1
<1>5. ASSUME NEW s \in Streams, Fan(s) PROVE OrderInv'
  <2>1. /\ UNCHANGED <<published, publishCh, seen>>
        /\ s \in dispatcher.todo /\ dispatcher'.at = dispatcher.at /\ dispatcher.at = "fan"
        /\ dispatcher'.frame = dispatcher.frame /\ dispatcher'.todo = dispatcher.todo \ {s}
    BY <1>5 DEF Fan, Served, ReadLocked, Typed, TypeOK
  <2>2. QueueInv'
    BY <2>1
  <2>3. \A q \in Streams \ {s} : chan'[q] = chan[q]
    BY <1>5 DEF Fan, Typed, TypeOK
  <2>4. ASSUME NEW q \in Streams \ {s} PROVE StreamInv(q)' /\ ServeInv(q)'
    BY <2>1, <2>3, <2>4
  <2>5. chan'[s] = chan[s] \/ chan'[s] = Append(chan[s], dispatcher.frame)
    BY <1>5 DEF Fan, Typed, TypeOK
  <2>6. ServeInv(s)'
    BY <2>1
  <2>7. CASE chan'[s] = chan[s]
    BY <2>1, <2>2, <2>4, <2>6, <2>7
  <2>8. CASE chan'[s] = Append(chan[s], dispatcher.frame)
    <3>1. Sorted(chan'[s])
      BY <2>1, <2>8, SortedAppend
    <3>2. \A i \in DOMAIN chan'[s] :
             (i \in DOMAIN chan[s] /\ chan'[s][i] = chan[s][i]) \/ chan'[s][i] = dispatcher.frame
      BY <2>8
    <3>3. Above(published' + 1, chan'[s])
      BY <2>1, <3>2 DEF Above
    <3>4. Below(seen'[s], chan'[s])
      BY <2>1, <3>2 DEF Below
    <3>5. \A i \in DOMAIN publishCh' : Above(publishCh'[i], chan'[s])
      BY <2>1, <3>2 DEF Above, Below
    <3>6. StreamInv(s)'
      BY <2>1, <3>1, <3>3, <3>4, <3>5
    <3>7. QED
      BY <2>2, <2>4, <2>6, <3>6
  <2>9. QED
    BY <2>5, <2>7, <2>8
<1>6. ASSUME NEW s \in Streams, WriteFrame(s) PROVE OrderInv'
  <2>1. /\ UNCHANGED <<published, publishCh, dispatcher>> /\ chan[s] # <<>>
        /\ chan'[s] = Tail(chan[s]) /\ seen'[s] = Head(chan[s])
        /\ \A q \in Streams \ {s} : chan'[q] = chan[q] /\ seen'[q] = seen[q]
    BY <1>6 DEF WriteFrame, Typed, TypeOK
  <2>2. /\ Sorted(chan'[s]) /\ Below(Head(chan[s]), chan'[s])
        /\ \A i \in DOMAIN chan'[s] : i + 1 \in DOMAIN chan[s] /\ chan'[s][i] = chan[s][i + 1]
        /\ 1 \in DOMAIN chan[s] /\ Head(chan[s]) = chan[s][1]
    BY SMTT(30), <2>1, SortedTail
  <2>3. QueueInv'
    BY <2>1
  <2>4. ASSUME NEW q \in Streams \ {s} PROVE StreamInv(q)' /\ ServeInv(q)'
    BY <2>1, <2>4
  <2>5. StreamInv(s)' /\ ServeInv(s)'
    BY <2>1, <2>2 DEF Above, Below
  <2>6. QED
    BY <2>3, <2>4, <2>5
<1>7. ASSUME NEW s \in Streams, Connect(s) PROVE OrderInv'
  <2>1. /\ UNCHANGED <<published, publishCh, seen, dispatcher>>
        /\ chan'[s] = <<>> /\ \A q \in Streams \ {s} : chan'[q] = chan[q]
    BY <1>7 DEF Connect, Typed, TypeOK
  <2>2. Sorted(<<>>) /\ \A n : Above(n, <<>>) /\ Below(n, <<>>)
    BY DEF Sorted, Above, Below
  <2>3. QED
    BY <2>1, <2>2
<1>8. CASE Shutdown \/ (\E s \in Streams : Disconnect(s) \/ Unsubscribe(s)) \/ UNCHANGED vars
  BY <1>8 DEF Shutdown, Disconnect, Unsubscribe, vars
<1>9. QED
  BY <1>1, <1>2, <1>3, <1>4, <1>5, <1>6, <1>7, <1>8 DEF Next, RunStep

\* The broker implements LossyBroadcast: whatever the drops, the disconnects
\* and the interleaving with Run, a browser sees frames in the order of their
\* publication and each at most once.
THEOREM DeliveredInOrder == Spec => InOrderAtMostOnce
<1>1. Init => Typed /\ OrderInv /\ Promise!Init
  <2> SUFFICES ASSUME Init PROVE OrderInv /\ Promise!Init
    BY TypesHoldInitially
  <2>1. Sorted(<<>>) /\ \A n : Above(n, <<>>) /\ Below(n, <<>>)
    BY DEF Sorted, Above, Below
  <2>2. OrderInv
    BY <2>1 DEF Init, Selecting, OrderInv, QueueInv, StreamInv, ServeInv
  <2>3. QED
    BY <2>2 DEF Init, Promise!Init
<1>2. Typed /\ OrderInv /\ [Next]_vars => [Promise!Next]_<<published, seen>>
  <2> SUFFICES ASSUME Typed, OrderInv, Next, ~UNCHANGED <<published, seen>>
               PROVE  Promise!Next
    BY DEF vars
  <2>1. CASE Publish
    BY <2>1 DEF Publish, Promise!Next, Promise!Send
  <2>2. ASSUME NEW s \in Streams, WriteFrame(s) PROVE Promise!Next
    <3>1. 1 \in DOMAIN chan[s] /\ Head(chan[s]) = chan[s][1] /\ chan[s] \in Seq(Nat)
      BY <2>2, NumberTypes DEF WriteFrame
    <3>2. Head(chan[s]) \in seen[s] + 1 .. published
      BY <3>1, NumberTypes DEF OrderInv, StreamInv, Above, Below
    <3>3. Promise!See(s)
      BY <2>2, <3>2 DEF WriteFrame, Promise!See
    <3>4. QED
      BY <3>3 DEF Promise!Next
  <2>3. QED
    BY <2>1, <2>2 DEF Next, RunStep, Take, StopRun, RLock, RUnlock, Fan, Connect, Disconnect,
                      Unsubscribe, Shutdown
<1>3. QED
  BY <1>1, <1>2, OrderKept, TypesKept, PTL DEF Spec, InOrderAtMostOnce, Promise!Spec
=============================================================================
