----------------------------- MODULE MCAnalysis -----------------------------
(* The task life for TLC: a task and the same one with a changed input, a  *)
(* task of the next generation, another requester's task that reuses an    *)
(* idempotency key, and a third task that meets the bounds.                *)
EXTENDS AnalysisService

Req(i, k, b, g, w) == [id |-> i, key |-> k, body |-> b, gen |-> g, who |-> w]

MCRequests == { Req("t1", "k1", "b1", 1, "u1"), Req("t1", "k1", "b2", 1, "u1"),
                Req("t2", "k2", "b3", 2, "u1"), Req("t2", "k1", "b1", 1, "u2"),
                Req("t3", "k3", "b4", 1, "u1") }
=============================================================================
