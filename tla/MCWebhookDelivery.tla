------------------------- MODULE MCWebhookDelivery -------------------------
(***************************************************************************)
(* WebhookDelivery on small instances.                                     *)
(***************************************************************************)
EXTENDS WebhookDelivery, TLC

CONSTANTS e1, p1, d1, c1, c2, w1, w2, q1

OneEvent == {e1}
OneEndpoint == {p1}
NoManual == {}
OneManual == {d1}
OneConsumer == {c1}
TwoConsumers == {c1, c2}
OneSweeper == {w1}
TwoSweepers == {w1, w2}
NoOperators == {}
OneOperator == {q1}

Symmetry ==
  Permutations(Endpoints) \cup Permutations(Consumers) \cup Permutations(Sweepers)

=============================================================================
