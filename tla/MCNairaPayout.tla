--------------------------- MODULE MCNairaPayout ---------------------------
(***************************************************************************)
(* NairaPayout on small instances.                                         *)
(***************************************************************************)
EXTENDS NairaPayout

CONSTANTS s1, w1, w2, h1, h2, t1, t2

OneSettlement == {s1}
TwoWorkers == {w1, w2}
TwoHooks == {h1, h2}
OneTimer == {t1}
TwoTimers == {t1, t2}
OneWorker == {w1}
OneHook == {h1}

=============================================================================
