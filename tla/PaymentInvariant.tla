-------------------------- MODULE PaymentInvariant --------------------------
(***************************************************************************)
(* The inductive invariant of PaymentLifecycle: what ties the rows, the    *)
(* chain and the handlers together between any two statements.             *)
(***************************************************************************)
EXTENDS PaymentLifecycle

\* A handler that is not idle works on an intent, except the expiry cron.
LocalsInv ==
  /\ LocalsOK
  /\ \A p \in Procs : pc[p] \notin {"idle", "tellExpired"} => on[p] \in Intents

\* A row in use belongs to an intent.
RowsInv ==
  \A a \in Attempts :
    IF attempt[a].status = "none" THEN attempt[a] = NoRow
                                  ELSE attempt[a].intent \in Intents

TypeInv == TypeOK /\ LocalsInv /\ RowsInv

\* No transaction of this message will ever move money, again or at all.
Dead(m) == chain[m] = "err" \/ (m \in stale /\ chain[m] # "landed")

\* The Spend that message s carries pays intent i, and landed.
Landed(s, i) == s \in Msgs /\ spendOf[s] = i /\ chain[s] = "landed"

\* An intent has one attempt, and has it only once authorized.
AttemptInv ==
  /\ \A a, b \in Attempts :
       attempt[a].intent = attempt[b].intent /\ attempt[a].intent # None => a = b
  /\ \A a \in Attempts :
       attempt[a].status # "none" => intent[attempt[a].intent] \notin {"created", "expired"}

\* A pin is a message of the row's own live intent, a recorded signature is
\* the pin's or the sandbox's, and an old row's blockhash has expired.
RowPinned(a) ==
  /\ attempt[a].msg # None =>
       spendOf[attempt[a].msg] = attempt[a].intent /\ attempt[a].intent \in LiveIntents
  /\ attempt[a].sig \in Msgs => attempt[a].sig = attempt[a].msg
  /\ attempt[a].status = "settling" => attempt[a].sig \in Msgs
  /\ attempt[a].status = "succeeded" /\ attempt[a].intent \in LiveIntents =>
       Landed(attempt[a].sig, attempt[a].intent)
  /\ a \in old /\ attempt[a].msg # None => attempt[a].msg \in stale

PinInv == \A a \in Attempts : RowPinned(a)

\* A message exists because a row pinned it, and is sent because it exists.
SpendInv ==
  \A m \in Msgs :
    /\ spendOf[m] # None =>
         \E a \in Attempts : attempt[a].msg = m /\ attempt[a].intent = spendOf[m]
    /\ chain[m] # "unsent" => spendOf[m] # None

\* A failed intent has no attempt that could still move money, and a succeeded
\* one has its payments row.
EndingBacked(i) ==
  /\ intent[i] = "failed" =>
       \A a \in Attempts : attempt[a].intent = i =>
         /\ attempt[a].msg = None \/ Dead(attempt[a].msg)
         /\ i \in LiveIntents => attempt[a].status = "failed"
  /\ i \in LiveIntents /\ intent[i] = "succeeded" => payment[i] # None

\* Endings are true of the chain, and announcements of the intent.
EndInv ==
  \A i \in Intents :
    /\ EndingBacked(i)
    /\ i \in LiveIntents /\ payment[i] # None => Landed(payment[i], i)
    /\ \A e \in {"succeeded", "failed", "expired"} : told[i][e] > 0 => intent[i] = e

\* What a handler may rely on at the step it is about to take.
Handler(p) ==
  /\ pc[p] \in {"tellAuthorized", "pin"} =>
       /\ intent[on[p]] \notin {"created", "expired"}
       /\ \A a \in Attempts : attempt[a].intent = on[p] => attempt[a].msg = None
  /\ pc[p] = "pin" => on[p] \in LiveIntents
  /\ pc[p] \in {"simClaim", "simSettling"} => on[p] \in TestIntents
  /\ pc[p] = "submit" => tx[p] \in Msgs
  /\ pc[p] \in {"broadcast", "record", "reap", "abandon"} =>
       row[p] \in Attempts /\ attempt[row[p]].intent = on[p]
  /\ pc[p] \in {"broadcast", "record"} => attempt[row[p]].msg = tx[p]
  /\ pc[p] \in {"broadcast", "record", "settle", "poll",
                "claimSucceeded", "claimFailed", "failIntent"} =>
       tx[p] \in Msgs /\ spendOf[tx[p]] = on[p]
  /\ pc[p] = "claimSucceeded" => chain[tx[p]] = "landed"
  /\ pc[p] \in {"claimFailed", "failIntent"} => Dead(tx[p])
  /\ pc[p] \in {"failIntent", "abandon"} =>
       \A a \in Attempts : attempt[a].intent = on[p] => attempt[a].status = "failed"
  /\ pc[p] = "abandon" =>
       \A a \in Attempts : attempt[a].intent = on[p] => attempt[a].msg = None
  /\ pc[p] = "complete" /\ on[p] \in LiveIntents => Landed(tx[p], on[p])
  /\ pc[p] = "finalize" /\ on[p] \in LiveIntents => payment[on[p]] # None
  /\ pc[p] = "tellSucceeded" => intent[on[p]] = "succeeded"
  /\ pc[p] = "tellFailed" => intent[on[p]] = "failed"
  /\ pc[p] = "tellExpired" => \A i \in batch[p] : intent[i] = "expired"

\* Only the request that authorized an intent can pin a message on it.
OnePinner ==
  \A p, q \in Procs :
    /\ pc[p] \in {"tellAuthorized", "pin"} /\ pc[q] \in {"tellAuthorized", "pin"}
    /\ on[p] = on[q]
    => p = q

HandlerInv == \A p \in Procs : Handler(p)

SafetyInv ==
  TypeInv /\ AttemptInv /\ PinInv /\ SpendInv /\ EndInv /\ HandlerInv /\ OnePinner

=============================================================================
