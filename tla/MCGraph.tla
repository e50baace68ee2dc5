------------------------------- MODULE MCGraph -------------------------------
(* One run of the graph for TLC: budgets and answers that reach each guard. *)
EXTENDS AnalysisGraph

B(l, r, t, par, d, p, q) ==
    [llm |-> l, rounds |-> r, tools |-> t, parallel |-> par, depth |-> d, peers |-> p, polls |-> q]

MCBudgets == { B(2, 1, 2, 1, 0, 2, 0), B(1, 1, 2, 2, 0, 1, 2), B(2, 0, 2, 1, 1, 1, 0), B(0, 1, 1, 1, 0, 1, 1) }

A(t, p, c, h) == [tools |-> t, peers |-> p, claims |-> c, hint |-> h]

MCResponses ==
    { A(0, <<>>, {"observed", "advice", "unsafe_advice"}, "succeeded"),
      A(2, <<>>, {"observed", "explanation"}, "succeeded"),
      A(2, <<"p1", "p2">>, {"observed"}, "succeeded"),
      A(0, <<"p1", "p1">>, {"observed", "causal"}, "limited"),
      A(1, <<"p3">>, {"observed", "outside"}, "succeeded") }
=============================================================================
