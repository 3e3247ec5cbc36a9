---------------------------- MODULE MCDashboard -----------------------------
(* Small instances of Dashboard for TLC: two agents of one host. *)
EXTENDS Dashboard, TLC

CONSTANTS a, b, u, h1, h2

Shared == [i \in Ids |-> u]
\* What follows an astray page is left out.  Nothing but a reload changes that,
\* and the registry, which no page influences, goes through the same states while
\* a fresh page waits for its answer, which nothing leads astray.
OnCourse == ~astray

Symmetry == Permutations(Ids) \cup Permutations(Handlers)
=============================================================================
