--------------------------- MODULE MCBuilderEdges -----------------------------
(* Small instances of BuilderEdges.                                          *)
EXTENDS BuilderEdges, TLC, Naturals
Symmetry == Permutations(Edges) \cup Permutations(Requests)

\* A page that has gone astray is followed while it shows one edge at most and
\* its agents are not fetched again: what is said of it is said of temp edges.
StrayedStaysSmall ==
  strayed =>
    /\ Cardinality(shown) <= 1
    /\ nodesFetch.pc = "idle" /\ nodesCache = Initial
=============================================================================
