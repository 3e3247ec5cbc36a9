--------------------------- MODULE LossyBroadcast ---------------------------
(***************************************************************************)
(* What the event broker promises its streams: a stream may miss frames,   *)
(* but it sees those it gets in the order of their publication, never      *)
(* twice, and never one that was not published.                            *)
(***************************************************************************)
EXTENDS Naturals

CONSTANT Streams

VARIABLES
  sent,     \* the number of frames published; the frames are 1 .. sent
  seen      \* the newest frame each stream has seen, 0 for none

Init ==
  /\ sent = 0
  /\ seen = [s \in Streams |-> 0]

Send ==
  /\ sent' = sent + 1
  /\ UNCHANGED seen

\* A stream sees a later frame; the ones in between are lost to it.
See(s) ==
  /\ \E n \in seen[s] + 1 .. sent : seen' = [seen EXCEPT ![s] = n]
  /\ UNCHANGED sent

Next == Send \/ \E s \in Streams : See(s)

Spec == Init /\ [][Next]_<<sent, seen>>
=============================================================================
