---------------------------- MODULE MCActivityFeed ----------------------------
(***************************************************************************)
(* ActivityFeed on small instances.                                        *)
(***************************************************************************)
EXTENDS ActivityFeed

CONSTANTS tx, other, s1, s2, h1, p1, t1, c1

TwoTxs == {tx, other}
\* One Send by itself, or a Payment and an unrelated transaction.
Mix(a, b) == [t \in TwoTxs |-> IF t = tx THEN a ELSE b]
SendOrPayment == {Mix("send", "none"), Mix("pay", "arrival")}

TwoSubmitters == {s1, s2}
OneHook == {h1}
OneReplayer == {p1}
OneTicker == {t1}
OneCompleter == {c1}

=============================================================================
