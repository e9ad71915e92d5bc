------------------------ MODULE MCPaymentLifecycle ------------------------
(***************************************************************************)
(* PaymentLifecycle on small instances.                                    *)
(***************************************************************************)
EXTENDS PaymentInvariant, TLC

CONSTANTS i1, i2, a1, a2, m1, m2, r1, r2, w1, w2

OneIntent == {i1}
TwoIntents == {i1, i2}
TheSecond == {i2}
OneAttempt == {a1}
TwoAttempts == {a1, a2}
OneMsg == {m1}
TwoMsgs == {m1, m2}
OneRequest == {r1}
TwoRequests == {r1, r2}
OneWorker == {w1}
TwoWorkers == {w1, w2}
NoIntents == {}

\* Rows, messages, requests and workers are interchangeable; intents are not
\* when their modes differ.
Symmetry ==
  Permutations(Attempts) \cup Permutations(Msgs)
    \cup Permutations(Requests) \cup Permutations(Workers)

=============================================================================
