--------------------------- MODULE MCGraphSolver ---------------------------
(* Small instances of GraphSolver for TLC.                                  *)
EXTENDS GraphSolver

P(c, p) == [core |-> c, pipe |-> p]
Edge(s, d, i, j, t) == [src |-> s, dst |-> d, start |-> i, end |-> j,
                        barrier |-> FALSE, temp |-> t]
Bar(p, i) == [src |-> p, dst |-> p, start |-> i, end |-> i,
              barrier |-> TRUE, temp |-> FALSE]

V   == P("vec", "V")
M2  == P("vec", "MTE2")
M3  == P("vec", "MTE3")
S   == P("vec", "S")
All == P("vec", "ALL")
CV  == P("cube", "M")

TwoCorePipes == {V, M2, M3, S, All, CV}

(* A chain over three pipes with a short and a long first edge, a way back, *)
(* a detour through the scalar pipe to an edge of the same core that leads  *)
(* to the other one, a temporary edge and both kinds of barrier.            *)
ChainPairs ==
    { Edge(V, M2, 0, 2, FALSE), Edge(V, M2, 0, 1, FALSE),
      Edge(M2, M3, 1, 3, FALSE), Edge(M3, V, 3, 4, FALSE),
      Edge(V, S, 1, 2, FALSE), Edge(M2, M3, 2, 4, TRUE),
      Edge(M3, CV, 2, 3, FALSE), Bar(M2, 2), Bar(All, 3) }

Ask(s, d, i, j) == [src |-> s, dst |-> d, start |-> i, end |-> j]
ChainQueries ==
    { Ask(V, M3, 0, 4), Ask(V, M3, 0, 3), Ask(V, V, 0, 4), Ask(V, M2, 1, 4),
      Ask(M2, M2, 0, 1), Ask(M2, M2, 1, 4), Ask(V, CV, 0, 4),
      Ask(All, V, 0, 2), Ask(S, M3, 1, 4) }
=============================================================================
