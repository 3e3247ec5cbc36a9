----------------------------- MODULE MCTimeline -----------------------------
(* Small instances of Timeline for TLC. *)
EXTENDS Timeline

CONSTANT a

\* Filters select among the items that are built and change nothing else: one of
\* them is set at a time, and none after the tick.
FewFilters ==
  /\ app.agentFilter = "all" \/ app.eventFilter = "all"
  /\ clock = 0 \/ (app.agentFilter = "all" /\ app.eventFilter = "all")
=============================================================================
