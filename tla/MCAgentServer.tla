--------------------------- MODULE MCAgentServer ----------------------------
(* Small instances of AgentServer for TLC. *)
EXTENDS AgentServer, TLC

CONSTANTS a, b, u, v, h1, h2, c1, c2, c3, c4

\* Any agent may turn up at any host.
Anywhere == Ids \X Urls
\* Every agent keeps to one host, which the others may take over.
OneHome == Ids \X {u}
Nothing == {}
\* A name whose slug is a and whose second choice is b.
AddA == {<<<<a, b>>, u>>}

Symmetry == Permutations(Handlers) \cup Permutations(Consumers)
FullSymmetry == Symmetry \cup Permutations(Ids) \cup Permutations(Urls)
=============================================================================
