------------------------ MODULE PaymentSafetyProofs ------------------------
(***************************************************************************)
(* SafetyInv is inductive, and what follows from it for every number of    *)
(* intents, requests and backend instances: a failure is honest, a success *)
(* is backed by the chain, and an intent is paid by one Spend.             *)
(***************************************************************************)
EXTENDS PaymentLifecycleProofs

-----------------------------------------------------------------------------
(* Frames: what an action leaves alone *)

\* What no action undoes.
Lasting ==
  /\ \A i \in Intents :
       /\ intent[i] \in {"succeeded", "failed", "expired"} => intent'[i] = intent[i]
       /\ intent[i] \notin {"created", "expired"} => intent'[i] \notin {"created", "expired"}
       /\ payment[i] # None => payment'[i] = payment[i]
  /\ \A a \in Attempts :
       /\ attempt[a].intent # None => attempt'[a].intent = attempt[a].intent
       /\ attempt[a].msg # None => attempt'[a].msg = attempt[a].msg
       /\ attempt[a].status = "failed" => attempt'[a].status = "failed"
  /\ \A m \in Msgs :
       /\ spendOf[m] # None => spendOf'[m] = spendOf[m]
       /\ chain[m] = "landed" => chain'[m] = "landed"
       /\ Dead(m) => Dead(m)'

\* No row was inserted, and no message pinned.
RowsKept ==
  \A a \in Attempts : attempt'[a].intent = attempt[a].intent /\ attempt'[a].msg = attempt[a].msg

Monotone == Lasting /\ RowsKept

\* Nothing new for a process that relies on what its intent's rows lack.
NothingNew(q) ==
  pc[q] \in {"tellAuthorized", "pin", "failIntent", "abandon"} =>
    \A a \in Attempts : attempt'[a].intent = on[q] =>
      attempt[a].intent = on[q] /\ attempt'[a].msg = attempt[a].msg

\* The local values of a process are as they were.
Untouched(q) ==
  /\ pc'[q] = pc[q] /\ on'[q] = on[q] /\ row'[q] = row[q]
  /\ tx'[q] = tx[q] /\ batch'[q] = batch[q]

Others(p) == \A q \in Procs \ {p} : Untouched(q)

EndingsUntold ==
  \A i \in Intents, e \in {"succeeded", "failed", "expired"} : told'[i][e] = told[i][e]

Pinning(p) == pc[p] \in {"tellAuthorized", "pin"}

LEMMA GotoOthers ==
  ASSUME LocalsOK, NEW p \in Procs, NEW label, Goto(p, label)
  PROVE  Others(p) /\ pc'[p] = label /\ on'[p] = on[p] /\ row'[p] = row[p] /\ tx'[p] = tx[p]
  BY DEF LocalsOK, Goto, Others, Untouched

LEMMA BeginOthers ==
  ASSUME LocalsOK, NEW p \in Procs, NEW label, NEW i, NEW a, NEW s, Begin(p, label, i, a, s)
  PROVE  Others(p) /\ pc'[p] = label /\ on'[p] = i /\ row'[p] = a /\ tx'[p] = s
  BY DEF LocalsOK, Begin, Others, Untouched

LEMMA FinishOthers ==
  ASSUME LocalsOK, NEW p \in Procs, Finish(p)
  PROVE  Others(p) /\ pc'[p] = "idle"
  BY DEF LocalsOK, Finish, Others, Untouched

LEMMA IdleHandler ==
  ASSUME NEW p \in Procs, pc'[p] = "idle"
  PROVE  Handler(p)'
  BY DEF Handler

LEMMA HandlerUntouched ==
  ASSUME NEW q \in Procs, Handler(q), Untouched(q), Lasting, NothingNew(q), TypeInv
  PROVE  Handler(q)'
<1>1. pc[q] \notin {"idle", "tellExpired"} => on[q] \in Intents
  BY DEF TypeInv, LocalsInv
<1>2. batch[q] \in SUBSET Intents
  BY DEF TypeInv, LocalsInv, LocalsOK
<1>3. None \notin Intents /\ LiveIntents \subseteq Intents
  BY ConstantsAssumption DEF LiveIntents
<1> USE DEF Untouched
<1>0. (pc[q] = "submit" => tx[q] \in Msgs)'
  BY DEF Handler
<1>4. (pc[q] \in {"tellAuthorized", "pin"} =>
        /\ intent[on[q]] \notin {"created", "expired"}
        /\ \A a \in Attempts : attempt[a].intent = on[q] => attempt[a].msg = None)'
  BY <1>1 DEF Handler, Lasting, NothingNew
<1>5. (pc[q] = "pin" => on[q] \in LiveIntents)'
  BY DEF Handler, LiveIntents
<1>6. (pc[q] \in {"simClaim", "simSettling"} => on[q] \in TestIntents)'
  BY DEF Handler
<1>7. (pc[q] \in {"broadcast", "record", "reap", "abandon"} =>
        row[q] \in Attempts /\ attempt[row[q]].intent = on[q])'
  BY <1>1, <1>3 DEF Handler, Lasting
<1>8. (pc[q] \in {"broadcast", "record"} => attempt[row[q]].msg = tx[q])'
  BY ConstantsAssumption DEF Handler, Lasting
<1>9. (pc[q] \in {"broadcast", "record", "settle", "poll",
                 "claimSucceeded", "claimFailed", "failIntent"} =>
        tx[q] \in Msgs /\ spendOf[tx[q]] = on[q])'
  BY <1>1, <1>3 DEF Handler, Lasting, NothingNew
<1>10. (pc[q] = "claimSucceeded" => chain[tx[q]] = "landed")'
  BY DEF Handler, Lasting, NothingNew
<1>11. (pc[q] \in {"claimFailed", "failIntent"} => Dead(tx[q]))'
  <2>1. ASSUME pc[q] \in {"claimFailed", "failIntent"} PROVE Dead(tx[q]) /\ tx[q] \in Msgs
    BY <2>1 DEF Handler
  <2>2. ASSUME NEW m \in Msgs, Dead(m) PROVE Dead(m)'
    BY <2>2 DEF Lasting
  <2> QED
    BY <2>1, <2>2 DEF Dead
<1>12. (pc[q] \in {"failIntent", "abandon"} =>
         \A a \in Attempts : attempt[a].intent = on[q] => attempt[a].status = "failed")'
  BY DEF Handler, Lasting, NothingNew
<1>13. (pc[q] = "abandon" =>
         \A a \in Attempts : attempt[a].intent = on[q] => attempt[a].msg = None)'
  BY DEF Handler, Lasting, NothingNew
<1>14. (pc[q] = "complete" /\ on[q] \in LiveIntents => Landed(tx[q], on[q]))'
  BY <1>3 DEF Handler, Lasting, NothingNew, Landed, LiveIntents
<1>15. (pc[q] = "finalize" /\ on[q] \in LiveIntents => payment[on[q]] # None)'
  BY <1>3 DEF Handler, Lasting, NothingNew, LiveIntents
<1>16. (pc[q] = "tellSucceeded" => intent[on[q]] = "succeeded")'
  BY <1>1 DEF Handler, Lasting, NothingNew
<1>17. (pc[q] = "tellFailed" => intent[on[q]] = "failed")'
  BY <1>1 DEF Handler, Lasting, NothingNew
<1>18. (pc[q] = "tellExpired" => \A i \in batch[q] : intent[i] = "expired")'
  BY <1>2 DEF Handler, Lasting, NothingNew
<1> QED
  BY <1>0, <1>4, <1>5, <1>6, <1>7, <1>8, <1>9, <1>10, <1>11, <1>12, <1>13, <1>14, <1>15,
     <1>16, <1>17, <1>18 DEF Handler

LEMMA MonotoneNothingNew ==
  ASSUME NEW q \in Procs, Monotone
  PROVE  NothingNew(q)
  BY DEF Monotone, RowsKept, NothingNew

LEMMA HandlersFrame ==
  ASSUME HandlerInv, Monotone, TypeInv, NEW p \in Procs, Others(p), Handler(p)'
  PROVE  HandlerInv'
<1> SUFFICES ASSUME NEW q \in Procs PROVE Handler(q)'
  BY DEF HandlerInv
<1>1. CASE q = p
  BY <1>1
<1>2. CASE q # p
  BY <1>2, HandlerUntouched, MonotoneNothingNew DEF HandlerInv, Others, Monotone
<1> QED
  BY <1>1, <1>2

LEMMA PinnerFrame ==
  ASSUME OnePinner, NEW p \in Procs, Others(p),
         Pinning(p)' => Pinning(p) /\ on'[p] = on[p]
  PROVE  OnePinner'
  BY DEF OnePinner, Others, Untouched, Pinning

LEMMA RowsFrame ==
  ASSUME AttemptInv, PinInv, SpendInv, UNCHANGED <<attempt, spendOf>>, Monotone,
         TypeInv, old' \subseteq old, stale \subseteq stale',
         \A m \in Msgs : chain'[m] # "unsent" => chain[m] # "unsent" \/ spendOf[m] # None
  PROVE  AttemptInv' /\ PinInv' /\ SpendInv'
<1> USE DEF TypeInv, TypeOK
<1>1. AttemptInv'
  BY DEF AttemptInv, Monotone, Lasting, RowsInv
<1>2. PinInv'
  BY DEF PinInv, RowPinned, Monotone, Lasting, Landed
<1>3. SpendInv'
  BY DEF SpendInv
<1> QED
  BY <1>1, <1>2, <1>3

LEMMA DeadStaysDead ==
  ASSUME Lasting, NEW a \in Attempts, attempt[a].msg \in Msgs \cup {None},
         attempt'[a].msg = attempt[a].msg, attempt[a].msg = None \/ Dead(attempt[a].msg)
  PROVE  attempt'[a].msg = None \/ Dead(attempt[a].msg)'
<1> SUFFICES ASSUME attempt[a].msg # None PROVE Dead(attempt[a].msg)'
  OBVIOUS
<1>1. PICK m \in Msgs : m = attempt[a].msg
  OBVIOUS
<1>2. Dead(m)'
  BY <1>1 DEF Lasting
<1> QED
  BY <1>1, <1>2 DEF Dead

LEMMA EndFrame ==
  ASSUME EndInv, Monotone, EndingsUntold, TypeInv,
         \A i \in LiveIntents : payment'[i] = payment[i] \/ Landed(payment[i], i)',
         \A i \in Intents : \/ intent'[i] = intent[i]
                           \/ intent'[i] \notin {"succeeded", "failed"}
                           \/ EndingBacked(i)'
  PROVE  EndInv'
<1> SUFFICES ASSUME NEW i \in Intents
             PROVE  /\ EndingBacked(i)'
                    /\ i \in LiveIntents /\ payment'[i] # None => Landed(payment[i], i)'
                    /\ \A e \in {"succeeded", "failed", "expired"} :
                         told'[i][e] > 0 => intent'[i] = e
  BY DEF EndInv
<1>1. ASSUME intent'[i] = intent[i], intent'[i] = "failed",
             NEW a \in Attempts, attempt'[a].intent = i
      PROVE  /\ attempt'[a].msg = None \/ Dead(attempt[a].msg)'
             /\ i \in LiveIntents => attempt'[a].status = "failed"
  <2>1. /\ attempt[a].msg = None \/ Dead(attempt[a].msg)
        /\ i \in LiveIntents => attempt[a].status = "failed"
    BY <1>1 DEF EndInv, EndingBacked, Monotone, RowsKept
  <2>2. attempt[a].msg \in Msgs \cup {None}
    BY DEF TypeInv, TypeOK, TablesOK, AttemptRows
  <2> QED
    BY <2>1, <2>2, DeadStaysDead DEF Monotone, Lasting, RowsKept
<1>2. i \in LiveIntents /\ payment'[i] # None => Landed(payment[i], i)'
  BY ConstantsAssumption DEF EndInv, Monotone, Lasting, Landed, LiveIntents
<1>3. ASSUME i \in LiveIntents, intent'[i] = intent[i], intent'[i] = "succeeded"
      PROVE  payment'[i] # None
  BY <1>3, ConstantsAssumption DEF EndInv, EndingBacked, Landed
<1>4. ASSUME NEW e \in {"succeeded", "failed", "expired"}, told'[i][e] > 0
      PROVE  intent'[i] = e
  BY <1>4 DEF EndInv, EndingsUntold, Monotone, Lasting
<1>5. EndingBacked(i)'
  BY <1>1, <1>3 DEF EndingBacked
<1> QED
  BY <1>2, <1>4, <1>5

-----------------------------------------------------------------------------
(* The steps that write no row *)

LEMMA TablesMonotone ==
  ASSUME UNCHANGED <<intent, attempt, payment, chain, stale, spendOf>>
  PROVE  Monotone
<1>1. \A m \in Msgs : Dead(m) => Dead(m)'
  BY DEF Dead
<1> QED
  BY <1>1 DEF Monotone, Lasting, RowsKept

\* A step of p that changes only what p holds in memory, and the lock.
LEMMA QuietStep ==
  ASSUME SafetyInv, TypeInv', NEW p \in Procs, Others(p), Handler(p)',
         UNCHANGED <<intent, attempt, old, payment, chain, stale, spendOf>>,
         EndingsUntold,
         Pinning(p)' => Pinning(p) /\ on'[p] = on[p]
  PROVE  SafetyInv'
<1>1. Monotone
  BY TablesMonotone
<1>2. AttemptInv' /\ PinInv' /\ SpendInv'
  BY <1>1, RowsFrame DEF SafetyInv
<1>3. EndInv'
  BY <1>1, EndFrame DEF SafetyInv
<1>4. HandlerInv'
  BY <1>1, HandlersFrame DEF SafetyInv
<1>5. OnePinner'
  BY PinnerFrame DEF SafetyInv
<1> QED
  BY <1>2, <1>3, <1>4, <1>5 DEF SafetyInv

LEMMA ToldUnchanged ==
  ASSUME UNCHANGED told
  PROVE  EndingsUntold
  BY DEF EndingsUntold

LEMMA InvLocals ==
  ASSUME SafetyInv
  PROVE  /\ LocalsOK
         /\ \A p \in Procs : pc[p] \notin {"idle", "tellExpired"} => on[p] \in Intents
         /\ \A p \in Procs : Handler(p)
  BY DEF SafetyInv, TypeInv, LocalsInv, HandlerInv

LEMMA AuthorizeSafe ==
  ASSUME SafetyInv, TypeInv', NEW r \in Procs, NEW i \in Intents, Authorize(r, i)
  PROVE  SafetyInv'
<1>1. Others(r) /\ pc'[r] \in {"expire", "reserve"}
  BY BeginOthers, InvLocals DEF Authorize
<1>2. Handler(r)' /\ ~Pinning(r)'
  BY <1>1 DEF Handler, Pinning
<1> QED
  BY <1>1, <1>2, QuietStep, ToldUnchanged DEF Authorize, tables, outside

LEMMA SubmitSafe ==
  ASSUME SafetyInv, TypeInv', NEW r \in Procs, NEW i \in Intents, NEW m \in Msgs,
         Submit(r, i, m)
  PROVE  SafetyInv'
<1>1. Others(r) /\ pc'[r] = "submit" /\ tx'[r] = m
  BY BeginOthers, InvLocals DEF Submit
<1>2. Handler(r)' /\ ~Pinning(r)'
  BY <1>1 DEF Handler, Pinning
<1> QED
  BY <1>1, <1>2, QuietStep, ToldUnchanged DEF Submit, tables, outside

LEMMA RollBackSafe ==
  ASSUME SafetyInv, TypeInv', NEW r \in Procs, RollBackAuthorization(r)
  PROVE  SafetyInv'
<1>1. Others(r) /\ pc'[r] = "idle"
  BY FinishOthers, InvLocals DEF RollBackAuthorization
<1>2. Handler(r)' /\ ~Pinning(r)'
  BY <1>1, IdleHandler DEF Pinning
<1> QED
  BY <1>1, <1>2, QuietStep, ToldUnchanged DEF RollBackAuthorization, tables, outside

LEMMA RefuseCompletionSafe ==
  ASSUME SafetyInv, TypeInv', NEW p \in Procs, RefuseCompletion(p)
  PROVE  SafetyInv'
<1>1. Others(p) /\ pc'[p] = "idle"
  BY FinishOthers, InvLocals DEF RefuseCompletion
<1>2. Handler(p)' /\ ~Pinning(p)'
  BY <1>1, IdleHandler DEF Pinning
<1> QED
  BY <1>1, <1>2, QuietStep, ToldUnchanged DEF RefuseCompletion, tables, outside

LEMMA FailSafe ==
  ASSUME SafetyInv, TypeInv', NEW p \in Procs, Fail(p)
  PROVE  SafetyInv'
<1>1. Others(p) /\ pc'[p] = "idle"
  BY FinishOthers, InvLocals DEF Fail
<1>2. Handler(p)' /\ ~Pinning(p)'
  BY <1>1, IdleHandler DEF Pinning
<1> QED
  BY <1>1, <1>2, QuietStep, ToldUnchanged DEF Fail, tables, outside

LEMMA EnterSubmitSafe ==
  ASSUME SafetyInv, TypeInv', NEW r \in Procs, EnterSubmit(r)
  PROVE  SafetyInv'
<1>1. CASE Finish(r)
  <2>1. Others(r) /\ pc'[r] = "idle"
    BY <1>1, FinishOthers, InvLocals
  <2>2. Handler(r)' /\ ~Pinning(r)'
    BY <2>1, IdleHandler DEF Pinning
  <2> QED
    BY <2>1, <2>2, QuietStep, ToldUnchanged DEF EnterSubmit, tables, outside
<1>2. CASE ~Finish(r)
  <2>1. PICK a \in Attempts :
          /\ Submittable(on[r], a, tx[r])
          /\ pc' = [pc EXCEPT ![r] = "broadcast"]
          /\ row' = [row EXCEPT ![r] = a]
          /\ UNCHANGED <<on, tx, batch>>
    BY <1>2 DEF EnterSubmit
  <2>2. /\ Others(r) /\ pc'[r] = "broadcast" /\ row'[r] = a
        /\ on'[r] = on[r] /\ tx'[r] = tx[r]
    BY <2>1, InvLocals DEF LocalsOK, Others, Untouched
  <2>3. attempt[a].intent = on[r] /\ attempt[a].msg = tx[r]
    BY <2>1 DEF Submittable
  <2>4. tx[r] \in Msgs /\ tx[r] # None
    BY InvLocals, ConstantsAssumption DEF EnterSubmit, Handler
  <2>5. spendOf[tx[r]] = on[r]
    BY <2>3, <2>4 DEF SafetyInv, PinInv, RowPinned
  <2>6. UNCHANGED <<intent, attempt, old, payment, chain, stale, spendOf, told>>
    BY DEF EnterSubmit, tables, outside
  <2>7. Handler(r)' /\ ~Pinning(r)'
    BY <2>2, <2>3, <2>4, <2>5, <2>6 DEF Handler, Pinning
  <2> QED
    BY <2>2, <2>6, <2>7, QuietStep, ToldUnchanged
<1> QED
  BY <1>1, <1>2

LEMMA PollSafe ==
  ASSUME SafetyInv, TypeInv', NEW p \in Procs, Poll(p)
  PROVE  SafetyInv'
<1>1. UNCHANGED <<intent, attempt, old, payment, chain, stale, spendOf, told>>
  BY DEF Poll, tables, outside
<1>2. tx[p] \in Msgs /\ spendOf[tx[p]] = on[p]
  BY InvLocals DEF Poll, Handler
<1>3. Others(p) /\ Handler(p)' /\ ~Pinning(p)'
  <2>1. CASE chain[tx[p]] = "err" /\ Goto(p, "claimFailed")
    <3>1. /\ Others(p) /\ pc'[p] = "claimFailed"
          /\ on'[p] = on[p] /\ row'[p] = row[p] /\ tx'[p] = tx[p]
      BY <2>1, GotoOthers, InvLocals
    <3>2. Dead(tx[p])'
      BY <2>1, <3>1, <1>1 DEF Dead
    <3> QED
      BY <1>1, <1>2, <3>1, <3>2 DEF Handler, Pinning
  <2>2. CASE Confirmed(tx[p]) /\ Goto(p, "claimSucceeded")
    <3>1. /\ Others(p) /\ pc'[p] = "claimSucceeded"
          /\ on'[p] = on[p] /\ row'[p] = row[p] /\ tx'[p] = tx[p]
      BY <2>2, GotoOthers, InvLocals
    <3> QED
      BY <1>1, <1>2, <2>2, <3>1 DEF Handler, Pinning, Confirmed
  <2>3. CASE Finish(p)
    BY <2>3, FinishOthers, InvLocals, IdleHandler DEF Pinning
  <2> QED
    BY <2>1, <2>2, <2>3 DEF Poll
<1> QED
  BY <1>1, <1>3, QuietStep, ToldUnchanged

LEMMA SweepSafe ==
  ASSUME SafetyInv, TypeInv', NEW w \in Procs, NEW a \in Attempts, Sweep(w, a)
  PROVE  SafetyInv'
<1>1. UNCHANGED <<intent, attempt, old, payment, chain, stale, spendOf, told>>
  BY DEF Sweep, tables, outside
<1> DEFINE m == attempt[a].sig
<1>2. m \in Msgs /\ m = attempt[a].msg /\ spendOf[m] = attempt[a].intent
  BY ConstantsAssumption DEF Sweep, SafetyInv, PinInv, RowPinned
<1>3. Others(w) /\ Handler(w)' /\ ~Pinning(w)'
  <2>1. CASE Confirmed(m) /\ Begin(w, "claimSucceeded", attempt[a].intent, a, m)
    <3>1. Others(w) /\ pc'[w] = "claimSucceeded" /\ on'[w] = attempt[a].intent /\ tx'[w] = m
      BY <2>1, BeginOthers, InvLocals
    <3> QED
      BY <1>1, <1>2, <2>1, <3>1 DEF Handler, Pinning, Confirmed
  <2>2. CASE /\ chain[m] = "err" \/ (~Confirmed(m) /\ Expired(a))
             /\ Begin(w, "claimFailed", attempt[a].intent, a, m)
    <3>1. Others(w) /\ pc'[w] = "claimFailed" /\ on'[w] = attempt[a].intent /\ tx'[w] = m
      BY <2>2, BeginOthers, InvLocals
    <3>2. Dead(m)
      BY <1>2, <2>2, ConstantsAssumption DEF Dead, Confirmed, Expired, SafetyInv, PinInv, RowPinned
    <3>3. Dead(tx[w])'
      BY <1>1, <3>1, <3>2 DEF Dead
    <3> QED
      BY <1>1, <1>2, <3>1, <3>3 DEF Handler, Pinning
  <2> QED
    BY <2>1, <2>2 DEF Sweep
<1> QED
  BY <1>1, <1>3, QuietStep, ToldUnchanged

LEMMA ResumeSafe ==
  ASSUME SafetyInv, TypeInv', NEW w \in Procs, NEW a \in Attempts, Resume(w, a)
  PROVE  SafetyInv'
<1>1. UNCHANGED <<intent, attempt, old, payment, chain, stale, spendOf, told>>
  BY DEF Resume, tables, outside
<1>2. /\ Others(w) /\ pc'[w] = "complete"
      /\ on'[w] = attempt[a].intent /\ tx'[w] = attempt[a].sig
  BY BeginOthers, InvLocals DEF Resume
<1>3. attempt[a].intent \in LiveIntents => Landed(attempt[a].sig, attempt[a].intent)
  BY DEF Resume, Resumable, SafetyInv, PinInv, RowPinned
<1>4. Handler(w)' /\ ~Pinning(w)'
  BY <1>1, <1>2, <1>3 DEF Handler, Pinning, Landed
<1> QED
  BY <1>1, <1>2, <1>4, QuietStep, ToldUnchanged

LEMMA ReapSelectSafe ==
  ASSUME SafetyInv, TypeInv', NEW w \in Procs, NEW a \in Attempts, ReapSelect(w, a)
  PROVE  SafetyInv'
<1>1. UNCHANGED <<intent, attempt, old, payment, chain, stale, spendOf, told>>
  BY DEF ReapSelect, tables, outside
<1>2. Others(w) /\ pc'[w] = "reap" /\ on'[w] = attempt[a].intent /\ row'[w] = a
  BY BeginOthers, InvLocals DEF ReapSelect
<1>3. Handler(w)' /\ ~Pinning(w)'
  BY <1>1, <1>2 DEF Handler, Pinning
<1> QED
  BY <1>1, <1>2, <1>3, QuietStep, ToldUnchanged

LEMMA TellAuthorizedSafe ==
  ASSUME SafetyInv, TypeInv', NEW r \in Procs, TellAuthorized(r)
  PROVE  SafetyInv'
<1>1. UNCHANGED <<intent, attempt, old, payment, chain, stale, spendOf>>
  BY DEF TellAuthorized, tables, outside
<1>2. on[r] \in Intents
  BY InvLocals DEF TellAuthorized
<1>3. EndingsUntold
  BY <1>2 DEF TellAuthorized, Publish, EndingsUntold, SafetyInv, TypeInv, TypeOK, Topics
<1>4. /\ Others(r) /\ on'[r] = on[r]
      /\ pc'[r] = IF on[r] \in LiveIntents THEN "pin" ELSE "simClaim"
  BY GotoOthers, InvLocals DEF TellAuthorized
<1>5. Handler(r)'
  BY <1>1, <1>2, <1>4, InvLocals DEF TellAuthorized, Handler, LiveIntents
<1>6. Pinning(r)
  BY DEF TellAuthorized, Pinning
<1> QED
  BY <1>1, <1>3, <1>4, <1>5, <1>6, QuietStep

-----------------------------------------------------------------------------
(* The steps that move an intent *)

\* One conditional UPDATE: the intent is not ended, and does not go back.
LEMMA MoveMonotone ==
  ASSUME TypeInv, NEW i, NEW from, NEW to, IsAt(i, from), SetStatus(i, to),
         from \notin {"succeeded", "failed", "expired"},
         from # "created" => to \notin {"created", "expired"},
         UNCHANGED <<attempt, payment, chain, stale, spendOf>>
  PROVE  /\ Monotone
         /\ \A j \in Intents : j # i => intent'[j] = intent[j]
         /\ i \in Intents => intent[i] = from /\ intent'[i] = to
<1>1. \A m \in Msgs : Dead(m) => Dead(m)'
  BY DEF Dead
<1>2. intent \in [Intents -> IntentStatuses]
  BY DEF TypeInv, TypeOK, TablesOK
<1>3. /\ \A j \in Intents : j # i => intent'[j] = intent[j]
      /\ i \in Intents => intent[i] = from /\ intent'[i] = to
  BY <1>2 DEF IsAt, SetStatus
<1> QED
  BY <1>1, <1>3 DEF Monotone, Lasting, RowsKept

\* A step of p that moves intents and no row.
LEMMA IntentStep ==
  ASSUME SafetyInv, TypeInv', NEW p \in Procs, Others(p), Handler(p)', ~Pinning(p)', Monotone,
         UNCHANGED <<attempt, old, payment, chain, stale, spendOf, told>>,
         \A i \in Intents : \/ intent'[i] = intent[i]
                           \/ intent'[i] \notin {"succeeded", "failed"}
                           \/ EndingBacked(i)'
  PROVE  SafetyInv'
<1>1. AttemptInv' /\ PinInv' /\ SpendInv'
  BY RowsFrame DEF SafetyInv
<1>2. EndInv'
  BY EndFrame, ToldUnchanged DEF SafetyInv
<1>3. HandlerInv'
  BY HandlersFrame DEF SafetyInv
<1>4. OnePinner'
  BY PinnerFrame DEF SafetyInv
<1> QED
  BY <1>1, <1>2, <1>3, <1>4 DEF SafetyInv

LEMMA ExpireOnReadSafe ==
  ASSUME SafetyInv, TypeInv', NEW r \in Procs, ExpireOnRead(r)
  PROVE  SafetyInv'
<1>1. UNCHANGED <<attempt, old, payment, chain, stale, spendOf, told>>
  BY DEF ExpireOnRead, outside
<1>2. CASE Finish(r) /\ UNCHANGED intent
  <2>1. Others(r) /\ pc'[r] = "idle"
    BY <1>2, FinishOthers, InvLocals
  <2>2. Handler(r)' /\ ~Pinning(r)'
    BY <2>1, IdleHandler DEF Pinning
  <2> QED
    BY <1>1, <1>2, <2>1, <2>2, QuietStep, ToldUnchanged
<1>3. CASE /\ IsAt(on[r], "created")
           /\ SetStatus(on[r], "expired")
           /\ pc' = [pc EXCEPT ![r] = "tellExpired"]
           /\ batch' = [batch EXCEPT ![r] = {on[r]}]
           /\ UNCHANGED <<on, row, tx>>
  <2>1. on[r] \in Intents /\ TypeInv
    BY InvLocals DEF ExpireOnRead, SafetyInv
  <2>2. /\ Monotone
        /\ \A j \in Intents : j # on[r] => intent'[j] = intent[j]
        /\ intent'[on[r]] = "expired"
    BY <1>1, <1>3, <2>1, MoveMonotone
  <2>3. Others(r) /\ pc'[r] = "tellExpired" /\ batch'[r] = {on[r]}
    BY <1>3, InvLocals DEF LocalsOK, Others, Untouched
  <2>4. Handler(r)' /\ ~Pinning(r)'
    BY <2>2, <2>3 DEF Handler, Pinning
  <2> QED
    BY <1>1, <2>2, <2>3, <2>4, IntentStep
<1> QED
  BY <1>2, <1>3 DEF ExpireOnRead

LEMMA ExpireStaleSafe ==
  ASSUME SafetyInv, TypeInv', NEW w \in Procs, ExpireStale(w)
  PROVE  SafetyInv'
<1>1. UNCHANGED <<attempt, old, payment, chain, stale, spendOf, told>>
  BY DEF ExpireStale, outside
<1>2. \A i \in Intents : intent'[i] = IF i \in Overdue THEN "expired" ELSE intent[i]
  BY DEF ExpireStale
<1>3. Overdue \subseteq Intents /\ \A i \in Overdue : intent[i] = "created"
  BY DEF Overdue, SafetyInv, TypeInv, TypeOK, TablesOK
<1>4. Monotone
  <2>1. \A m \in Msgs : Dead(m) => Dead(m)'
    BY <1>1 DEF Dead
  <2> QED
    BY <1>1, <1>2, <1>3, <2>1 DEF Monotone, Lasting, RowsKept
<1>5. Others(w) /\ pc'[w] = "tellExpired" /\ batch'[w] = Overdue
  BY InvLocals DEF ExpireStale, LocalsOK, Others, Untouched
<1>6. Handler(w)' /\ ~Pinning(w)'
  BY <1>2, <1>3, <1>5 DEF Handler, Pinning
<1> QED
  BY <1>1, <1>2, <1>4, <1>5, <1>6, IntentStep

LEMMA SettleSimulatedSafe ==
  ASSUME SafetyInv, TypeInv', NEW r \in Procs, SettleSimulated(r)
  PROVE  SafetyInv'
<1>1. UNCHANGED <<attempt, old, payment, chain, stale, spendOf, told>>
  BY DEF SettleSimulated, outside
<1>2. CASE Finish(r) /\ UNCHANGED intent
  <2>1. Others(r) /\ pc'[r] = "idle"
    BY <1>2, FinishOthers, InvLocals
  <2>2. Handler(r)' /\ ~Pinning(r)'
    BY <2>1, IdleHandler DEF Pinning
  <2> QED
    BY <1>1, <1>2, <2>1, <2>2, QuietStep, ToldUnchanged
<1>3. CASE IsAt(on[r], "authorized") /\ SetStatus(on[r], "settling") /\ Goto(r, "complete")
  <2>1. on[r] \in Intents /\ on[r] \in TestIntents /\ TypeInv
    BY InvLocals DEF SettleSimulated, SafetyInv, Handler
  <2>2. /\ Monotone
        /\ \A j \in Intents : j # on[r] => intent'[j] = intent[j]
        /\ intent'[on[r]] = "settling"
    BY <1>1, <1>3, <2>1, MoveMonotone
  <2>3. Others(r) /\ pc'[r] = "complete" /\ on'[r] = on[r]
    BY <1>3, GotoOthers, InvLocals
  <2>4. Handler(r)' /\ ~Pinning(r)'
    BY <2>1, <2>3 DEF Handler, Pinning, LiveIntents
  <2> QED
    BY <1>1, <2>2, <2>3, <2>4, IntentStep
<1> QED
  BY <1>2, <1>3 DEF SettleSimulated

LEMMA SettleIntentSafe ==
  ASSUME SafetyInv, TypeInv', NEW r \in Procs, SettleIntent(r)
  PROVE  SafetyInv'
<1>1. UNCHANGED <<attempt, old, payment, chain, stale, spendOf, told>>
  BY DEF SettleIntent, outside
<1>2. CASE Finish(r) /\ UNCHANGED intent
  <2>1. Others(r) /\ pc'[r] = "idle"
    BY <1>2, FinishOthers, InvLocals
  <2>2. Handler(r)' /\ ~Pinning(r)'
    BY <2>1, IdleHandler DEF Pinning
  <2> QED
    BY <1>1, <1>2, <2>1, <2>2, QuietStep, ToldUnchanged
<1>3. CASE IsAt(on[r], "authorized") /\ SetStatus(on[r], "settling") /\ Goto(r, "poll")
  <2>1. /\ on[r] \in Intents /\ TypeInv
        /\ tx[r] \in Msgs /\ spendOf[tx[r]] = on[r]
    BY InvLocals DEF SettleIntent, SafetyInv, Handler
  <2>2. /\ Monotone
        /\ \A j \in Intents : j # on[r] => intent'[j] = intent[j]
        /\ intent'[on[r]] = "settling"
    BY <1>1, <1>3, <2>1, MoveMonotone
  <2>3. Others(r) /\ pc'[r] = "poll" /\ on'[r] = on[r] /\ tx'[r] = tx[r]
    BY <1>3, GotoOthers, InvLocals
  <2>4. Handler(r)' /\ ~Pinning(r)'
    BY <1>1, <2>1, <2>3 DEF Handler, Pinning
  <2> QED
    BY <1>1, <2>2, <2>3, <2>4, IntentStep
<1> QED
  BY <1>2, <1>3 DEF SettleIntent

LEMMA FinalizeIntentSafe ==
  ASSUME SafetyInv, TypeInv', NEW p \in Procs, FinalizeIntent(p)
  PROVE  SafetyInv'
<1>1. UNCHANGED <<attempt, old, payment, chain, stale, spendOf, told>>
  BY DEF FinalizeIntent, outside
<1>2. CASE Finish(p) /\ UNCHANGED intent
  <2>1. Others(p) /\ pc'[p] = "idle"
    BY <1>2, FinishOthers, InvLocals
  <2>2. Handler(p)' /\ ~Pinning(p)'
    BY <2>1, IdleHandler DEF Pinning
  <2> QED
    BY <1>1, <1>2, <2>1, <2>2, QuietStep, ToldUnchanged
<1>3. CASE IsAt(on[p], "settling") /\ SetStatus(on[p], "succeeded") /\ Goto(p, "tellSucceeded")
  <2>1. on[p] \in Intents /\ TypeInv
    BY InvLocals DEF FinalizeIntent, SafetyInv
  <2>2. /\ Monotone
        /\ \A j \in Intents : j # on[p] => intent'[j] = intent[j]
        /\ intent'[on[p]] = "succeeded"
    BY <1>1, <1>3, <2>1, MoveMonotone
  <2>3. Others(p) /\ pc'[p] = "tellSucceeded" /\ on'[p] = on[p]
    BY <1>3, GotoOthers, InvLocals
  <2>4. Handler(p)' /\ ~Pinning(p)'
    BY <2>2, <2>3 DEF Handler, Pinning
  <2>5. \A i \in Intents : i = on[p] => EndingBacked(i)'
    <3>1. on[p] \in LiveIntents => payment[on[p]] # None
      BY InvLocals DEF FinalizeIntent, Handler
    <3> QED
      BY <1>1, <2>2, <3>1 DEF EndingBacked
  <2> QED
    BY <1>1, <2>2, <2>3, <2>4, <2>5, IntentStep
<1> QED
  BY <1>2, <1>3 DEF FinalizeIntent

\* The messages of an intent: a row pinned them, and it has one row.
LEMMA SpendOfIntentIsPinned ==
  ASSUME SafetyInv, NEW a \in Attempts, NEW m \in Msgs,
         attempt[a].intent = spendOf[m], spendOf[m] # None
  PROVE  attempt[a].msg = m
<1>1. PICK b \in Attempts : attempt[b].msg = m /\ attempt[b].intent = spendOf[m]
  BY DEF SafetyInv, SpendInv
<1>2. a = b
  BY <1>1 DEF SafetyInv, AttemptInv
<1> QED
  BY <1>1, <1>2

LEMMA FailIntentSafe ==
  ASSUME SafetyInv, TypeInv', NEW p \in Procs, FailIntent(p)
  PROVE  SafetyInv'
<1>1. UNCHANGED <<attempt, old, payment, chain, stale, spendOf, told>>
  BY DEF FailIntent, outside
<1>2. CASE Finish(p) /\ UNCHANGED intent
  <2>1. Others(p) /\ pc'[p] = "idle"
    BY <1>2, FinishOthers, InvLocals
  <2>2. Handler(p)' /\ ~Pinning(p)'
    BY <2>1, IdleHandler DEF Pinning
  <2> QED
    BY <1>1, <1>2, <2>1, <2>2, QuietStep, ToldUnchanged
<1>3. CASE IsAt(on[p], "settling") /\ SetStatus(on[p], "failed") /\ Goto(p, "tellFailed")
  <2>1. on[p] \in Intents /\ TypeInv
    BY InvLocals DEF FailIntent, SafetyInv
  <2>2. /\ Monotone
        /\ \A j \in Intents : j # on[p] => intent'[j] = intent[j]
        /\ intent'[on[p]] = "failed"
    BY <1>1, <1>3, <2>1, MoveMonotone
  <2>3. Others(p) /\ pc'[p] = "tellFailed" /\ on'[p] = on[p]
    BY <1>3, GotoOthers, InvLocals
  <2>4. Handler(p)' /\ ~Pinning(p)'
    BY <2>2, <2>3 DEF Handler, Pinning
  <2>5. \A i \in Intents : i = on[p] => EndingBacked(i)'
    <3>1. tx[p] \in Msgs /\ spendOf[tx[p]] = on[p] /\ Dead(tx[p])
      BY InvLocals DEF FailIntent, Handler
    <3>2. on[p] # None
      BY <2>1, ConstantsAssumption
    <3>3. ASSUME NEW a \in Attempts, attempt[a].intent = on[p]
          PROVE  attempt[a].msg = tx[p] /\ attempt[a].status = "failed"
      BY <3>1, <3>2, <3>3, SpendOfIntentIsPinned, InvLocals DEF FailIntent, Handler
    <3>4. ASSUME NEW a \in Attempts, attempt'[a].intent = on[p]
          PROVE  Dead(attempt[a].msg)' /\ attempt'[a].status = "failed"
      BY <1>1, <3>1, <3>3, <3>4 DEF Dead
    <3> QED
      BY <2>2, <3>4 DEF EndingBacked, Dead
  <2> QED
    BY <1>1, <2>2, <2>3, <2>4, <2>5, IntentStep
<1> QED
  BY <1>2, <1>3 DEF FailIntent

LEMMA AbandonIntentSafe ==
  ASSUME SafetyInv, TypeInv', NEW p \in Procs, AbandonIntent(p)
  PROVE  SafetyInv'
<1>1. UNCHANGED <<attempt, old, payment, chain, stale, spendOf, told>>
  BY DEF AbandonIntent, outside
<1>2. CASE Finish(p) /\ UNCHANGED intent
  <2>1. Others(p) /\ pc'[p] = "idle"
    BY <1>2, FinishOthers, InvLocals
  <2>2. Handler(p)' /\ ~Pinning(p)'
    BY <2>1, IdleHandler DEF Pinning
  <2> QED
    BY <1>1, <1>2, <2>1, <2>2, QuietStep, ToldUnchanged
<1>3. CASE IsAt(on[p], "authorized") /\ SetStatus(on[p], "failed") /\ Goto(p, "tellFailed")
  <2>1. on[p] \in Intents /\ TypeInv
    BY InvLocals DEF AbandonIntent, SafetyInv
  <2>2. /\ Monotone
        /\ \A j \in Intents : j # on[p] => intent'[j] = intent[j]
        /\ intent'[on[p]] = "failed"
    BY <1>1, <1>3, <2>1, MoveMonotone
  <2>3. Others(p) /\ pc'[p] = "tellFailed" /\ on'[p] = on[p]
    BY <1>3, GotoOthers, InvLocals
  <2>4. Handler(p)' /\ ~Pinning(p)'
    BY <2>2, <2>3 DEF Handler, Pinning
  <2>5. \A i \in Intents : i = on[p] => EndingBacked(i)'
    <3>1. \A a \in Attempts : attempt[a].intent = on[p] =>
            attempt[a].msg = None /\ attempt[a].status = "failed"
      BY InvLocals DEF AbandonIntent, Handler
    <3> QED
      BY <1>1, <2>2, <3>1 DEF EndingBacked
  <2> QED
    BY <1>1, <2>2, <2>3, <2>4, <2>5, IntentStep
<1> QED
  BY <1>2, <1>3 DEF AbandonIntent

LEMMA CompleteSafe ==
  ASSUME SafetyInv, TypeInv', NEW p \in Procs, Complete(p)
  PROVE  SafetyInv'
<1>1. UNCHANGED <<intent, attempt, old, chain, stale, spendOf, told>>
  BY DEF Complete, outside
<1>2. on[p] \in Intents /\ (on[p] \in LiveIntents => Landed(tx[p], on[p]))
  BY InvLocals DEF Complete, Handler
<1>3. Others(p) /\ pc'[p] = "finalize" /\ on'[p] = on[p]
  BY GotoOthers, InvLocals DEF Complete
<1>4. payment'[on[p]] = IF payment[on[p]] = None THEN tx[p] ELSE payment[on[p]]
  BY <1>2 DEF Complete, SafetyInv, TypeInv, TypeOK, TablesOK
<1>5. \A i \in Intents : i # on[p] => payment'[i] = payment[i]
  BY DEF Complete, SafetyInv, TypeInv, TypeOK, TablesOK
<1>6. Monotone
  <2>1. \A m \in Msgs : Dead(m) => Dead(m)'
    BY <1>1 DEF Dead
  <2> QED
    BY <1>1, <1>4, <1>5, <2>1 DEF Monotone, Lasting, RowsKept
<1>7. \A i \in LiveIntents : payment'[i] = payment[i] \/ Landed(payment[i], i)'
  BY <1>1, <1>2, <1>4, <1>5 DEF Landed, LiveIntents
<1>8. Handler(p)' /\ ~Pinning(p)'
  BY <1>2, <1>3, <1>4, ConstantsAssumption DEF Handler, Pinning, Landed
<1>9. AttemptInv' /\ PinInv' /\ SpendInv'
  BY <1>1, <1>6, RowsFrame DEF SafetyInv
<1>10. EndInv'
  BY <1>1, <1>6, <1>7, EndFrame, ToldUnchanged DEF SafetyInv
<1>11. HandlerInv'
  BY <1>3, <1>6, <1>8, HandlersFrame DEF SafetyInv
<1>12. OnePinner'
  BY <1>3, <1>8, PinnerFrame DEF SafetyInv
<1> QED
  BY <1>9, <1>10, <1>11, <1>12 DEF SafetyInv

-----------------------------------------------------------------------------
(* The steps that publish an ending *)

\* What is published of an intent is what its row says.
LEMMA PublishEnd ==
  ASSUME SafetyInv, TypeInv, NEW i \in Intents, NEW e \in {"succeeded", "failed", "expired"},
         intent[i] = e, Publish(i, e),
         UNCHANGED <<intent, attempt, old, payment, chain, stale, spendOf>>
  PROVE  EndInv'
<1>1. \A j \in Intents, t \in Topics : told'[j][t] # told[j][t] => j = i /\ t = e
  BY DEF Publish, TypeInv, TypeOK, Topics
<1>2. {"succeeded", "failed", "expired"} \subseteq Topics
  BY DEF Topics
<1>3. ASSUME NEW j \in Intents, NEW t \in {"succeeded", "failed", "expired"}, told'[j][t] > 0
      PROVE  intent'[j] = t
  BY <1>1, <1>2, <1>3 DEF SafetyInv, EndInv
<1>4. \A j \in Intents : EndingBacked(j)'
  BY DEF SafetyInv, EndInv, EndingBacked, Dead
<1>5. \A j \in LiveIntents : payment'[j] # None => Landed(payment[j], j)'
  BY ConstantsAssumption DEF SafetyInv, EndInv, Landed, LiveIntents
<1> QED
  BY <1>3, <1>4, <1>5 DEF EndInv

\* A step of p that publishes an ending and writes no table.
LEMMA TellStep ==
  ASSUME SafetyInv, NEW p \in Procs, Others(p), Handler(p)', ~Pinning(p)', EndInv', TypeInv',
         UNCHANGED <<intent, attempt, old, payment, chain, stale, spendOf>>
  PROVE  SafetyInv'
<1>1. Monotone
  BY TablesMonotone
<1>2. AttemptInv' /\ PinInv' /\ SpendInv'
  BY <1>1, RowsFrame DEF SafetyInv
<1>3. HandlerInv'
  BY <1>1, HandlersFrame DEF SafetyInv
<1>4. OnePinner'
  BY PinnerFrame DEF SafetyInv
<1> QED
  BY <1>2, <1>3, <1>4 DEF SafetyInv

LEMMA TellOutcomeSafe ==
  ASSUME SafetyInv, TypeInv', NEW p \in Procs, TellOutcome(p)
  PROVE  SafetyInv'
<1>1. UNCHANGED <<intent, attempt, old, payment, chain, stale, spendOf>>
  BY DEF TellOutcome, tables, outside
<1>2. on[p] \in Intents /\ Handler(p) /\ TypeInv
  BY InvLocals DEF TellOutcome, SafetyInv
<1>3. EndInv'
  <2>1. CASE pc[p] = "tellSucceeded" /\ Publish(on[p], "succeeded")
    BY <1>1, <1>2, <2>1, PublishEnd DEF Handler
  <2>2. CASE pc[p] = "tellFailed" /\ Publish(on[p], "failed")
    BY <1>1, <1>2, <2>2, PublishEnd DEF Handler
  <2> QED
    BY <2>1, <2>2 DEF TellOutcome
<1>4. Others(p) /\ pc'[p] = "idle"
  BY FinishOthers, InvLocals DEF TellOutcome
<1>5. Handler(p)' /\ ~Pinning(p)'
  BY <1>4, IdleHandler DEF Pinning
<1> QED
  BY <1>1, <1>3, <1>4, <1>5, TellStep

LEMMA TellExpiredSafe ==
  ASSUME SafetyInv, TypeInv', NEW p \in Procs, TellExpired(p)
  PROVE  SafetyInv'
<1>1. UNCHANGED <<intent, attempt, old, payment, chain, stale, spendOf>>
  BY DEF TellExpired, tables, outside
<1>2. PICK i \in batch[p] :
        /\ Publish(i, "expired")
        /\ IF batch[p] = {i} THEN Finish(p)
           ELSE /\ batch' = [batch EXCEPT ![p] = @ \ {i}]
                /\ UNCHANGED <<pc, on, row, tx>>
  BY DEF TellExpired
<1>3. batch[p] \subseteq Intents /\ TypeInv /\ \A j \in batch[p] : intent[j] = "expired"
  BY InvLocals DEF TellExpired, SafetyInv, Handler, LocalsOK
<1>4. EndInv'
  BY <1>1, <1>2, <1>3, PublishEnd
<1>5. Others(p) /\ Handler(p)' /\ ~Pinning(p)'
  <2>1. CASE Finish(p)
    BY <2>1, FinishOthers, InvLocals, IdleHandler DEF Pinning
  <2>2. CASE ~Finish(p)
    <3>1. Others(p) /\ pc'[p] = "tellExpired" /\ batch'[p] \subseteq batch[p]
      BY <1>2, <2>2, InvLocals DEF TellExpired, LocalsOK, Others, Untouched
    <3> QED
      BY <1>1, <1>3, <3>1 DEF Handler, Pinning
  <2> QED
    BY <2>1, <2>2
<1> QED
  BY <1>1, <1>4, <1>5, TellStep

-----------------------------------------------------------------------------
(* The steps of the cluster and of time *)

\* Nothing a process holds changes, and no table does.
LEMMA WorldStep ==
  ASSUME SafetyInv, TypeInv', Monotone, PinInv',
         UNCHANGED <<intent, attempt, payment, spendOf, told, locals>>,
         \A m \in Msgs : chain'[m] # "unsent" => chain[m] # "unsent"
  PROVE  SafetyInv'
<1>1. \A q \in Procs : Untouched(q)
  BY DEF Untouched, locals
<1>2. HandlerInv'
  BY <1>1, HandlerUntouched, MonotoneNothingNew DEF SafetyInv, HandlerInv, Monotone
<1>3. OnePinner'
  BY <1>1 DEF SafetyInv, OnePinner, Untouched
<1>4. EndInv'
  BY EndFrame, ToldUnchanged DEF SafetyInv
<1>5. AttemptInv' /\ SpendInv'
  BY DEF SafetyInv, AttemptInv, SpendInv
<1> QED
  BY <1>2, <1>3, <1>4, <1>5 DEF SafetyInv

LEMMA LandSafe ==
  ASSUME SafetyInv, TypeInv', NEW m \in Msgs, Land(m)
  PROVE  SafetyInv'
<1>1. UNCHANGED <<intent, attempt, old, payment, stale, spendOf, told, locals>>
  BY DEF Land, tables
<1>2. /\ \A n \in Msgs : n # m => chain'[n] = chain[n]
      /\ chain[m] = "sent" /\ m \notin stale
  BY DEF Land, SafetyInv, TypeInv, TypeOK, OutsideOK
<1>3. \A n \in Msgs : Dead(n) => Dead(n)'
  BY <1>1, <1>2 DEF Dead
<1>4. Monotone
  BY <1>1, <1>2, <1>3 DEF Monotone, Lasting, RowsKept
<1>5. PinInv'
  BY <1>1, <1>4, RowsFrame, <1>2 DEF SafetyInv
<1> QED
  BY <1>1, <1>2, <1>4, <1>5, WorldStep

LEMMA BlockhashExpiresSafe ==
  ASSUME SafetyInv, TypeInv', NEW m \in Msgs, BlockhashExpires(m)
  PROVE  SafetyInv'
<1>1. /\ UNCHANGED <<intent, attempt, old, payment, chain, spendOf, told, locals>>
      /\ stale \subseteq stale'
  BY DEF BlockhashExpires, tables
<1>2. \A n \in Msgs : Dead(n) => Dead(n)'
  BY <1>1 DEF Dead
<1>3. Monotone
  BY <1>1, <1>2 DEF Monotone, Lasting, RowsKept
<1>4. PinInv'
  BY <1>1, <1>3, RowsFrame DEF SafetyInv
<1> QED
  BY <1>1, <1>3, <1>4, WorldStep

LEMMA GrowsOldSafe ==
  ASSUME SafetyInv, TypeInv', NEW a \in Attempts, GrowsOld(a)
  PROVE  SafetyInv'
<1>1. UNCHANGED <<intent, attempt, payment, chain, stale, spendOf, told, locals>>
  BY DEF GrowsOld, outside
<1>2. Monotone
  BY <1>1, TablesMonotone
<1>3. PinInv'
  BY <1>1 DEF GrowsOld, SafetyInv, PinInv, RowPinned, Landed
<1> QED
  BY <1>1, <1>2, <1>3, WorldStep

LEMMA ComesDueSafe ==
  ASSUME SafetyInv, TypeInv', NEW i \in Intents, ComesDue(i) \/ Provision(i)
  PROVE  SafetyInv'
<1>1. UNCHANGED <<intent, attempt, old, payment, chain, stale, spendOf, told, locals>>
  BY DEF ComesDue, Provision, tables, outside
<1>2. Monotone
  BY <1>1, TablesMonotone
<1>3. PinInv'
  BY <1>1 DEF SafetyInv, PinInv, RowPinned, Landed
<1> QED
  BY <1>1, <1>2, <1>3, WorldStep

-----------------------------------------------------------------------------
(* The steps that write attempt rows *)

LEMMA RowsMonotone ==
  ASSUME RowsKept, UNCHANGED <<intent, payment, chain, stale, spendOf>>,
         \A a \in Attempts : attempt[a].status = "failed" => attempt'[a].status = "failed"
  PROVE  Monotone
<1>1. \A m \in Msgs : Dead(m) => Dead(m)'
  BY DEF Dead
<1> QED
  BY <1>1 DEF Monotone, Lasting, RowsKept

\* A step of p that writes rows in use, and neither their intents nor pins.
LEMMA RowStep ==
  ASSUME SafetyInv, TypeInv', NEW p \in Procs, Others(p), Handler(p)', ~Pinning(p)',
         Monotone, PinInv', UNCHANGED <<intent, payment, chain, stale, spendOf, told>>,
         \A a \in Attempts : attempt'[a].status # "none" => attempt[a].status # "none"
  PROVE  SafetyInv'
<1>1. AttemptInv'
  BY DEF SafetyInv, AttemptInv, Monotone, RowsKept
<1>2. SpendInv'
  BY DEF SafetyInv, SpendInv, Monotone, RowsKept
<1>3. EndInv'
  BY EndFrame, ToldUnchanged DEF SafetyInv
<1>4. HandlerInv'
  BY HandlersFrame DEF SafetyInv
<1>5. OnePinner'
  BY PinnerFrame DEF SafetyInv
<1> QED
  BY <1>1, <1>2, <1>3, <1>4, <1>5 DEF SafetyInv

LEMMA RetireSimulatedSafe ==
  ASSUME SafetyInv, TypeInv', NEW r \in Procs, RetireSimulated(r)
  PROVE  SafetyInv'
<1>1. UNCHANGED <<intent, payment, chain, stale, spendOf, told>> /\ old' \subseteq old
  BY DEF RetireSimulated, outside
<1>2. on[r] \in TestIntents
  BY InvLocals DEF RetireSimulated, Handler
<1>3. ASSUME NEW a \in Attempts
      PROVE  /\ attempt'[a].intent = attempt[a].intent /\ attempt'[a].msg = attempt[a].msg
             /\ \/ attempt'[a].status = attempt[a].status /\ attempt'[a].sig = attempt[a].sig
                \/ /\ attempt[a].status = "authorized" /\ attempt'[a].status = "succeeded"
                   /\ attempt[a].intent = on[r] /\ attempt'[a].sig = on[r]
  BY DEF RetireSimulated, SafetyInv, TypeInv, TypeOK, TablesOK, AttemptRows
<1>4. Monotone
  BY <1>1, <1>3, RowsMonotone DEF RowsKept
<1>5. PinInv'
  <2>1. on[r] \notin Msgs /\ on[r] \notin LiveIntents
    BY <1>2, ConstantsAssumption DEF LiveIntents
  <2> QED
    BY <1>1, <1>3, <2>1 DEF SafetyInv, PinInv, RowPinned, Landed
<1>6. Others(r) /\ pc'[r] = "simSettling" /\ on'[r] = on[r]
  BY InvLocals DEF RetireSimulated, LocalsOK, Others, Untouched
<1>7. Handler(r)' /\ ~Pinning(r)'
  BY <1>2, <1>6 DEF Handler, Pinning
<1> QED
  BY <1>1, <1>3, <1>4, <1>5, <1>6, <1>7, RowStep

\* A row that is not written keeps what ties it to its message.
LEMMA RowPinnedKept ==
  ASSUME NEW a \in Attempts, RowPinned(a), attempt'[a] = attempt[a],
         old' \subseteq old, stale' = stale, chain' = chain,
         \A m \in Msgs : spendOf[m] # None => spendOf'[m] = spendOf[m],
         attempt[a].msg \in Msgs \cup {None}
  PROVE  RowPinned(a)'
<1> None \notin LiveIntents
  BY ConstantsAssumption DEF LiveIntents
<1>1. attempt[a].msg # None => spendOf'[attempt[a].msg] = spendOf[attempt[a].msg]
  BY DEF RowPinned
<1>2. attempt[a].intent \in LiveIntents /\ Landed(attempt[a].sig, attempt[a].intent) =>
        Landed(attempt[a].sig, attempt[a].intent)'
  BY DEF Landed
<1> QED
  BY <1>1, <1>2 DEF RowPinned

LEMMA RecordSignatureSafe ==
  ASSUME SafetyInv, TypeInv', NEW r \in Procs, RecordSignature(r)
  PROVE  SafetyInv'
<1>1. UNCHANGED <<intent, payment, chain, stale, spendOf, told>>
  BY DEF RecordSignature, outside
<1>2. CASE Finish(r) /\ UNCHANGED <<attempt, old>>
  <2>1. Others(r) /\ pc'[r] = "idle"
    BY <1>2, FinishOthers, InvLocals
  <2>2. Handler(r)' /\ ~Pinning(r)'
    BY <2>1, IdleHandler DEF Pinning
  <2> QED
    BY <1>1, <1>2, <2>1, <2>2, QuietStep, ToldUnchanged
<1>3. CASE /\ attempt[row[r]].status = "authorized"
           /\ attempt' = [attempt EXCEPT ![row[r]].status = "settling",
                                         ![row[r]].sig = tx[r]]
           /\ old' = old \ {row[r]}
           /\ Goto(r, "settle")
  <2>1. /\ row[r] \in Attempts /\ attempt[row[r]].intent = on[r]
        /\ attempt[row[r]].msg = tx[r]
        /\ tx[r] \in Msgs /\ spendOf[tx[r]] = on[r]
    BY InvLocals DEF RecordSignature, Handler
  <2>2. attempt \in [Attempts -> AttemptRows]
    BY DEF SafetyInv, TypeInv, TypeOK, TablesOK
  <2>3. ASSUME NEW a \in Attempts
        PROVE  /\ attempt'[a].intent = attempt[a].intent /\ attempt'[a].msg = attempt[a].msg
               /\ a # row[r] => attempt'[a] = attempt[a]
               /\ a = row[r] => attempt'[a].status = "settling" /\ attempt'[a].sig = tx[r]
    BY <1>3, <2>1, <2>2 DEF AttemptRows
  <2>4. Monotone
    BY <1>1, <1>3, <2>3, RowsMonotone DEF RowsKept
  <2>5. PinInv'
    <3> SUFFICES ASSUME NEW a \in Attempts PROVE RowPinned(a)'
      BY DEF PinInv
    <3>1. CASE a # row[r]
      <4>1. attempt'[a] = attempt[a] /\ RowPinned(a)
        BY <2>3, <3>1 DEF SafetyInv, PinInv
      <4> QED
        BY <1>1, <1>3, <2>2, <4>1, RowPinnedKept DEF AttemptRows
    <3>2. CASE a = row[r]
      BY <1>1, <1>3, <2>1, <2>3, <3>2 DEF SafetyInv, PinInv, RowPinned
    <3> QED
      BY <3>1, <3>2
  <2>6. Others(r) /\ pc'[r] = "settle" /\ on'[r] = on[r] /\ tx'[r] = tx[r]
    BY <1>3, GotoOthers, InvLocals
  <2>7. Handler(r)' /\ ~Pinning(r)'
    BY <1>1, <2>1, <2>6 DEF Handler, Pinning
  <2> QED
    BY <1>1, <1>3, <2>3, <2>4, <2>5, <2>6, <2>7, RowStep
<1> QED
  BY <1>2, <1>3 DEF RecordSignature

\* The row a signature claims belongs to the intent its message pays.
LEMMA ClaimableRow ==
  ASSUME SafetyInv, NEW s \in Msgs, NEW a \in Claimable(s)
  PROVE  a \in Attempts /\ attempt[a].msg = s /\ attempt[a].intent = spendOf[s]
  BY ConstantsAssumption DEF SafetyInv, PinInv, RowPinned, Claimable

LEMMA ClaimRows ==
  ASSUME SafetyInv, NEW s, NEW status,
         attempt' = [a \in Attempts |-> IF a \in Claimable(s)
                       THEN [attempt[a] EXCEPT !.status = status] ELSE attempt[a]],
         NEW a \in Attempts
  PROVE  /\ attempt'[a].intent = attempt[a].intent /\ attempt'[a].msg = attempt[a].msg
         /\ attempt'[a].sig = attempt[a].sig
         /\ attempt'[a].status = IF a \in Claimable(s) THEN status ELSE attempt[a].status
  BY DEF SafetyInv, TypeInv, TypeOK, TablesOK, AttemptRows

LEMMA ClaimSucceededSafe ==
  ASSUME SafetyInv, TypeInv', NEW p \in Procs, ClaimSucceeded(p)
  PROVE  SafetyInv'
<1>1. UNCHANGED <<intent, payment, chain, stale, spendOf, told>>
  BY DEF ClaimSucceeded, Claim, outside
<1>2. CASE Finish(p) /\ UNCHANGED <<attempt, old>>
  <2>1. Others(p) /\ pc'[p] = "idle"
    BY <1>2, FinishOthers, InvLocals
  <2>2. Handler(p)' /\ ~Pinning(p)'
    BY <2>1, IdleHandler DEF Pinning
  <2> QED
    BY <1>1, <1>2, <2>1, <2>2, QuietStep, ToldUnchanged
<1>3. CASE /\ attempt' = [a \in Attempts |-> IF a \in Claimable(tx[p])
                           THEN [attempt[a] EXCEPT !.status = "succeeded"] ELSE attempt[a]]
           /\ old' = old \ Claimable(tx[p])
           /\ Goto(p, "complete")
  <2>1. tx[p] \in Msgs /\ spendOf[tx[p]] = on[p] /\ chain[tx[p]] = "landed"
    BY InvLocals DEF ClaimSucceeded, Handler
  <2>2. \A a \in Attempts :
          /\ attempt'[a].intent = attempt[a].intent /\ attempt'[a].msg = attempt[a].msg
          /\ attempt'[a].sig = attempt[a].sig
          /\ attempt'[a].status = IF a \in Claimable(tx[p]) THEN "succeeded" ELSE attempt[a].status
    BY <1>3, ClaimRows
  <2>3. \A a \in Claimable(tx[p]) :
          /\ attempt[a].status = "settling" /\ attempt[a].sig = tx[p]
          /\ attempt[a].intent = on[p]
    BY <2>1, ClaimableRow DEF Claimable
  <2>4. Monotone
    BY <1>1, <2>2, <2>3, RowsMonotone DEF RowsKept
  <2>5. PinInv'
    BY <1>1, <1>3, <2>1, <2>2, <2>3 DEF SafetyInv, PinInv, RowPinned, Landed
  <2>6. Others(p) /\ pc'[p] = "complete" /\ on'[p] = on[p] /\ tx'[p] = tx[p]
    BY <1>3, GotoOthers, InvLocals
  <2>7. Handler(p)' /\ ~Pinning(p)'
    BY <1>1, <2>1, <2>6 DEF Handler, Pinning, Landed
  <2> QED
    BY <1>1, <2>2, <2>3, <2>4, <2>5, <2>6, <2>7, RowStep
<1> QED
  BY <1>2, <1>3 DEF ClaimSucceeded, Claim

LEMMA ClaimFailedSafe ==
  ASSUME SafetyInv, TypeInv', NEW p \in Procs, ClaimFailed(p)
  PROVE  SafetyInv'
<1>1. UNCHANGED <<intent, payment, chain, stale, spendOf, told>>
  BY DEF ClaimFailed, Claim, outside
<1>2. CASE Finish(p) /\ UNCHANGED <<attempt, old>>
  <2>1. Others(p) /\ pc'[p] = "idle"
    BY <1>2, FinishOthers, InvLocals
  <2>2. Handler(p)' /\ ~Pinning(p)'
    BY <2>1, IdleHandler DEF Pinning
  <2> QED
    BY <1>1, <1>2, <2>1, <2>2, QuietStep, ToldUnchanged
<1>3. CASE /\ Claimable(tx[p]) # {}
           /\ attempt' = [a \in Attempts |-> IF a \in Claimable(tx[p])
                           THEN [attempt[a] EXCEPT !.status = "failed"] ELSE attempt[a]]
           /\ old' = old \ Claimable(tx[p])
           /\ Goto(p, "failIntent")
  <2>1. tx[p] \in Msgs /\ spendOf[tx[p]] = on[p] /\ Dead(tx[p]) /\ on[p] \in Intents
    BY InvLocals DEF ClaimFailed, Handler
  <2>2. \A a \in Attempts :
          /\ attempt'[a].intent = attempt[a].intent /\ attempt'[a].msg = attempt[a].msg
          /\ attempt'[a].sig = attempt[a].sig
          /\ attempt'[a].status = IF a \in Claimable(tx[p]) THEN "failed" ELSE attempt[a].status
    BY <1>3, ClaimRows
  <2>3. \A a \in Claimable(tx[p]) :
          a \in Attempts /\ attempt[a].status = "settling" /\ attempt[a].intent = on[p]
    BY <2>1, ClaimableRow DEF Claimable
  <2>4. Monotone
    BY <1>1, <2>2, <2>3, RowsMonotone DEF RowsKept
  <2>5. PinInv'
    BY <1>1, <1>3, <2>2 DEF SafetyInv, PinInv, RowPinned, Landed
  <2>6. Others(p) /\ pc'[p] = "failIntent" /\ on'[p] = on[p] /\ tx'[p] = tx[p]
    BY <1>3, GotoOthers, InvLocals
  <2>7. \A a \in Attempts : attempt'[a].intent = on[p] => attempt'[a].status = "failed"
    <3>1. PICK c \in Claimable(tx[p]) : TRUE
      BY <1>3
    <3>2. \A a \in Attempts : attempt[a].intent = on[p] => a = c
      BY <2>1, <2>3, <3>1, ConstantsAssumption DEF SafetyInv, AttemptInv
    <3> QED
      BY <2>2, <3>1, <3>2
  <2>8. Handler(p)' /\ ~Pinning(p)'
    BY <1>1, <2>1, <2>6, <2>7 DEF Handler, Pinning, Dead
  <2> QED
    BY <1>1, <2>2, <2>3, <2>4, <2>5, <2>6, <2>8, RowStep
<1> QED
  BY <1>2, <1>3 DEF ClaimFailed, Claim

LEMMA ReapSafe ==
  ASSUME SafetyInv, TypeInv', NEW w \in Procs, Reap(w)
  PROVE  SafetyInv'
<1>1. UNCHANGED <<intent, payment, chain, stale, spendOf, told>>
  BY DEF Reap, outside
<1>2. row[w] \in Attempts /\ attempt[row[w]].intent = on[w] /\ on[w] \in Intents
  BY InvLocals DEF Reap, Handler
<1>3. CASE ~StillAsSelected(w)
  <2>1. Others(w) /\ pc'[w] = "idle"
    BY <1>3, FinishOthers, InvLocals DEF Reap
  <2>2. Handler(w)' /\ ~Pinning(w)'
    BY <2>1, IdleHandler DEF Pinning
  <2> QED
    BY <1>1, <1>3, <2>1, <2>2, QuietStep, ToldUnchanged DEF Reap
<1>4. CASE StillAsSelected(w)
  <2>1. /\ attempt' = [attempt EXCEPT ![row[w]].status = "failed"]
        /\ old' = old \ {row[w]}
        /\ \/ tx[w] = None /\ Goto(w, "abandon")
           \/ Finish(w)
    BY <1>4 DEF Reap, OrphanSuspected
  <2>2. attempt \in [Attempts -> AttemptRows]
    BY DEF SafetyInv, TypeInv, TypeOK, TablesOK
  <2>3. \A a \in Attempts :
          /\ attempt'[a].intent = attempt[a].intent /\ attempt'[a].msg = attempt[a].msg
          /\ attempt'[a].sig = attempt[a].sig
          /\ attempt'[a].status = IF a = row[w] THEN "failed" ELSE attempt[a].status
    BY <1>2, <2>1, <2>2 DEF AttemptRows
  <2>4. attempt[row[w]].status = "authorized" /\ attempt[row[w]].msg = tx[w]
    BY <1>4 DEF StillAsSelected
  <2>5. Monotone
    BY <1>1, <2>3, RowsMonotone DEF RowsKept
  <2>6. PinInv'
    BY <1>1, <2>1, <2>3 DEF SafetyInv, PinInv, RowPinned, Landed
  <2>7. CASE tx[w] = None /\ Goto(w, "abandon")
    <3>1. Others(w) /\ pc'[w] = "abandon" /\ on'[w] = on[w] /\ row'[w] = row[w]
      BY <2>7, GotoOthers, InvLocals
    <3>2. \A a \in Attempts : attempt[a].intent = on[w] => a = row[w]
      BY <1>2, ConstantsAssumption DEF SafetyInv, AttemptInv
    <3>3. Handler(w)' /\ ~Pinning(w)'
      BY <1>2, <2>3, <2>4, <2>7, <3>1, <3>2 DEF Handler, Pinning
    <3> QED
      BY <1>1, <2>3, <2>4, <2>5, <2>6, <3>1, <3>3, RowStep
  <2>8. CASE Finish(w)
    <3>1. Others(w) /\ pc'[w] = "idle"
      BY <2>8, FinishOthers, InvLocals
    <3>2. Handler(w)' /\ ~Pinning(w)'
      BY <3>1, IdleHandler DEF Pinning
    <3> QED
      BY <1>1, <2>3, <2>4, <2>5, <2>6, <3>1, <3>2, RowStep
  <2> QED
    BY <2>1, <2>7, <2>8
<1> QED
  BY <1>3, <1>4

LEMMA BroadcastSafe ==
  ASSUME SafetyInv, TypeInv', NEW r \in Procs, Broadcast(r)
  PROVE  SafetyInv'
<1>1. UNCHANGED <<intent, attempt, old, payment, stale, spendOf, told>>
  BY DEF Broadcast, tables
<1>2. /\ row[r] \in Attempts /\ attempt[row[r]].intent = on[r]
      /\ attempt[row[r]].msg = tx[r]
      /\ tx[r] \in Msgs /\ spendOf[tx[r]] = on[r] /\ on[r] \in Intents
  BY InvLocals DEF Broadcast, Handler
<1>3. /\ \A m \in Msgs : m # tx[r] => chain'[m] = chain[m]
      /\ chain'[tx[r]] = IF chain[tx[r]] = "unsent" THEN "sent" ELSE chain[tx[r]]
  BY <1>2 DEF Broadcast, SafetyInv, TypeInv, TypeOK, OutsideOK
<1>4. \A m \in Msgs : Dead(m) => Dead(m)'
  BY <1>1, <1>3 DEF Dead
<1>5. Monotone
  BY <1>1, <1>3, <1>4 DEF Monotone, Lasting, RowsKept
<1>6. Others(r) /\ Handler(r)' /\ ~Pinning(r)'
  <2>1. CASE Goto(r, "record")
    <3>1. /\ Others(r) /\ pc'[r] = "record"
          /\ on'[r] = on[r] /\ row'[r] = row[r] /\ tx'[r] = tx[r]
      BY <2>1, GotoOthers, InvLocals
    <3> QED
      BY <1>1, <1>2, <3>1 DEF Handler, Pinning
  <2>2. CASE Finish(r)
    BY <2>2, FinishOthers, InvLocals, IdleHandler DEF Pinning
  <2> QED
    BY <2>1, <2>2 DEF Broadcast
<1>7. \A m \in Msgs : chain'[m] # "unsent" => chain[m] # "unsent" \/ spendOf[m] # None
  BY <1>2, <1>3, ConstantsAssumption
<1>8. AttemptInv' /\ PinInv' /\ SpendInv'
  BY <1>1, <1>5, <1>7, RowsFrame DEF SafetyInv
<1>9. EndInv'
  BY <1>1, <1>5, EndFrame, ToldUnchanged DEF SafetyInv
<1>10. HandlerInv'
  BY <1>5, <1>6, HandlersFrame DEF SafetyInv
<1>11. OnePinner'
  BY <1>6, PinnerFrame DEF SafetyInv
<1> QED
  BY <1>8, <1>9, <1>10, <1>11 DEF SafetyInv

-----------------------------------------------------------------------------
(* The two steps that add something: a row, and a pin *)

LEMMA CommitSafe ==
  ASSUME SafetyInv, TypeInv', NEW r \in Procs, CommitAuthorization(r)
  PROVE  SafetyInv'
<1>1. UNCHANGED <<old, payment, chain, stale, spendOf, told>>
  BY DEF CommitAuthorization, outside
<1>2. on[r] \in Intents /\ on[r] # None /\ TypeInv
  BY InvLocals, ConstantsAssumption DEF CommitAuthorization, SafetyInv
<1>3. PICK x \in Attempts :
        /\ attempt[x].status = "none"
        /\ attempt' = [attempt EXCEPT ![x] =
             [intent |-> on[r], status |-> "authorized", msg |-> None, sig |-> None]]
        /\ row' = [row EXCEPT ![r] = x]
  BY DEF CommitAuthorization
<1>4. /\ \A a \in Attempts : a # x => attempt'[a] = attempt[a]
      /\ attempt'[x] = [intent |-> on[r], status |-> "authorized", msg |-> None, sig |-> None]
      /\ attempt[x] = NoRow
  BY <1>2, <1>3 DEF TypeInv, TypeOK, TablesOK, RowsInv
<1>5. /\ intent[on[r]] = "created" /\ intent'[on[r]] = "authorized"
      /\ \A i \in Intents : i # on[r] => intent'[i] = intent[i]
  BY <1>2 DEF CommitAuthorization, CanAuthorize, IsAt, SetStatus, TypeInv, TypeOK, TablesOK
<1>6. \A a \in Attempts : attempt[a].intent # on[r]
  BY <1>2, <1>5 DEF SafetyInv, AttemptInv, TypeInv, RowsInv, NoRow
<1>7. Lasting
  <2>1. \A m \in Msgs : Dead(m) => Dead(m)'
    BY <1>1 DEF Dead
  <2> QED
    BY <1>1, <1>4, <1>5, <2>1 DEF Lasting, NoRow
<1>8. AttemptInv'
  BY <1>2, <1>4, <1>5, <1>6 DEF SafetyInv, AttemptInv, TypeInv, RowsInv, NoRow
<1>9. PinInv'
  BY <1>1, <1>4, ConstantsAssumption DEF SafetyInv, PinInv, RowPinned, Landed
<1>10. SpendInv'
  <2> SUFFICES ASSUME NEW m \in Msgs, spendOf[m] # None
               PROVE  \E a \in Attempts : attempt'[a].msg = m /\ attempt'[a].intent = spendOf[m]
    BY <1>1 DEF SafetyInv, SpendInv
  <2>1. PICK a \in Attempts : attempt[a].msg = m /\ attempt[a].intent = spendOf[m]
    BY DEF SafetyInv, SpendInv
  <2>2. a # x
    BY <1>4, <2>1 DEF NoRow
  <2> QED
    BY <1>4, <2>1, <2>2
<1>11. EndInv'
  <2> SUFFICES ASSUME NEW i \in Intents
               PROVE  /\ EndingBacked(i)'
                      /\ i \in LiveIntents /\ payment'[i] # None => Landed(payment[i], i)'
                      /\ \A e \in {"succeeded", "failed", "expired"} :
                           told'[i][e] > 0 => intent'[i] = e
    BY DEF EndInv
  <2>1. CASE i = on[r]
    BY <1>1, <1>5, <2>1 DEF SafetyInv, EndInv, EndingBacked, Landed
  <2>2. CASE i # on[r]
    <3>1. intent'[i] = intent[i]
      BY <1>5, <2>2
    <3>2. \A a \in Attempts : attempt'[a].intent = i => attempt'[a] = attempt[a]
      BY <1>4, <2>2
    <3>3. EndingBacked(i)'
      BY <1>1, <3>1, <3>2 DEF SafetyInv, EndInv, EndingBacked, Dead
    <3> QED
      BY <1>1, <3>1, <3>3 DEF SafetyInv, EndInv, Landed
  <2> QED
    BY <2>1, <2>2
<1>12. /\ Others(r) /\ pc'[r] = "tellAuthorized" /\ on'[r] = on[r]
  BY <1>3, InvLocals DEF CommitAuthorization, LocalsOK, Others, Untouched
\* Nobody else relies on the intent having no row: it was still created.
<1>13. ASSUME NEW q \in Procs, pc[q] \in {"tellAuthorized", "pin", "failIntent", "abandon"}
       PROVE  on[q] # on[r]
  <2>1. Handler(q)
    BY InvLocals
  <2>2. CASE pc[q] \in {"tellAuthorized", "pin"}
    BY <1>5, <2>1, <2>2 DEF Handler
  <2>3. CASE pc[q] = "abandon"
    BY <1>6, <2>1, <2>3 DEF Handler
  <2>4. CASE pc[q] = "failIntent"
    <3>1. tx[q] \in Msgs /\ spendOf[tx[q]] = on[q]
      BY <2>1, <2>4 DEF Handler
    <3> QED
      BY <1>2, <1>6, <3>1 DEF SafetyInv, SpendInv
  <2> QED
    BY <1>13, <2>2, <2>3, <2>4
<1>14. HandlerInv'
  <2> SUFFICES ASSUME NEW q \in Procs PROVE Handler(q)'
    BY DEF HandlerInv
  <2>1. CASE q = r
    BY <1>4, <1>5, <1>6, <1>12, <2>1 DEF Handler
  <2>2. CASE q # r
    <3>1. NothingNew(q)
      BY <1>4, <1>13 DEF NothingNew
    <3> QED
      BY <1>2, <1>7, <1>12, <2>2, <3>1, HandlerUntouched, InvLocals DEF Others
  <2> QED
    BY <2>1, <2>2
<1>15. OnePinner'
  BY <1>12, <1>13 DEF SafetyInv, OnePinner, Others, Untouched
<1> QED
  BY <1>8, <1>9, <1>10, <1>11, <1>14, <1>15 DEF SafetyInv

LEMMA PinSafe ==
  ASSUME SafetyInv, TypeInv', NEW r \in Procs, Pin(r)
  PROVE  SafetyInv'
<1>1. UNCHANGED <<intent, payment, chain, stale, told>>
  BY DEF Pin
<1>2. Others(r) /\ pc'[r] = "idle"
  BY FinishOthers, InvLocals DEF Pin
<1>3. Handler(r)' /\ ~Pinning(r)'
  BY <1>2, IdleHandler DEF Pinning
<1>4. CASE UNCHANGED <<attempt, old, spendOf>>
  BY <1>1, <1>2, <1>3, <1>4, QuietStep, ToldUnchanged
<1>5. ASSUME NEW x \in Attempts, NEW m \in Msgs,
             attempt[x].intent = on[r], attempt[x].status = "authorized", spendOf[m] = None,
             attempt' = [attempt EXCEPT ![x].msg = m],
             old' = old \ {x},
             spendOf' = [spendOf EXCEPT ![m] = on[r]]
      PROVE  SafetyInv'
  <2>1. /\ on[r] \in LiveIntents /\ on[r] \in Intents /\ on[r] # None /\ TypeInv
        /\ \A a \in Attempts : attempt[a].intent = on[r] => attempt[a].msg = None
    BY InvLocals, ConstantsAssumption DEF Pin, Handler, SafetyInv
  <2>2. /\ attempt \in [Attempts -> AttemptRows]
        /\ spendOf \in [Msgs -> Intents \cup {None}]
    BY <2>1 DEF TypeInv, TypeOK, TablesOK, OutsideOK
  <2>3. /\ \A a \in Attempts : a # x => attempt'[a] = attempt[a]
        /\ attempt'[x].msg = m /\ attempt[x].msg = None
        /\ \A a \in Attempts : /\ attempt'[a].intent = attempt[a].intent
                              /\ attempt'[a].status = attempt[a].status
                              /\ attempt'[a].sig = attempt[a].sig
    BY <1>5, <2>1, <2>2 DEF AttemptRows
  <2>4. spendOf'[m] = on[r] /\ \A n \in Msgs : n # m => spendOf'[n] = spendOf[n]
    BY <1>5, <2>2
  <2>5. m # None /\ chain[m] = "unsent"
    BY <1>5, ConstantsAssumption DEF SafetyInv, SpendInv
  <2>6. \A a \in Attempts : attempt[a].msg # m
    BY <1>5, <2>5, <2>2, ConstantsAssumption DEF SafetyInv, PinInv, RowPinned, LiveIntents
  <2>7. Lasting
    <3>1. \A n \in Msgs : Dead(n) => Dead(n)'
      BY <1>1 DEF Dead
    <3> QED
      BY <1>1, <1>5, <2>3, <2>4, <3>1 DEF Lasting
  <2>8. AttemptInv'
    BY <1>1, <2>3 DEF SafetyInv, AttemptInv
  <2>9. PinInv'
    <3> SUFFICES ASSUME NEW a \in Attempts PROVE RowPinned(a)'
      BY DEF PinInv
    <3>1. CASE a # x
      <4>1. attempt[a].msg \in Msgs \cup {None} /\ attempt[a].msg # m
        BY <2>2, <2>6 DEF AttemptRows
      <4>2. attempt'[a] = attempt[a] /\ RowPinned(a)
        BY <2>3, <3>1 DEF SafetyInv, PinInv
      <4> QED
        BY <1>1, <1>5, <2>4, <4>1, <4>2, RowPinnedKept
    <3>2. CASE a = x
      <4>1. attempt[a].sig \notin Msgs
        BY <2>3, <3>2, ConstantsAssumption DEF SafetyInv, PinInv, RowPinned
      <4> QED
        BY <1>5, <2>1, <2>3, <2>4, <3>2, <4>1 DEF RowPinned
    <3> QED
      BY <3>1, <3>2
  <2>10. SpendInv'
    <3> SUFFICES ASSUME NEW n \in Msgs
                 PROVE  /\ spendOf'[n] # None =>
                             \E a \in Attempts : attempt'[a].msg = n /\ attempt'[a].intent = spendOf'[n]
                        /\ chain'[n] # "unsent" => spendOf'[n] # None
      BY DEF SpendInv
    <3>1. CASE n = m
      BY <1>5, <2>1, <2>3, <2>4, <3>1
    <3>2. CASE n # m
      <4>1. chain'[n] # "unsent" => spendOf'[n] # None
        BY <1>1, <2>4, <3>2 DEF SafetyInv, SpendInv
      <4>2. ASSUME spendOf[n] # None
            PROVE  \E a \in Attempts : attempt'[a].msg = n /\ attempt'[a].intent = spendOf[n]
        <5>1. PICK a \in Attempts : attempt[a].msg = n /\ attempt[a].intent = spendOf[n]
          BY <4>2 DEF SafetyInv, SpendInv
        <5>2. a # x
          BY <2>3, <5>1, ConstantsAssumption
        <5> QED
          BY <2>3, <5>1, <5>2
      <4> QED
        BY <2>4, <3>2, <4>1, <4>2
    <3> QED
      BY <3>1, <3>2
  <2>11. EndInv'
    <3> SUFFICES ASSUME NEW i \in Intents
                 PROVE  /\ EndingBacked(i)'
                        /\ i \in LiveIntents /\ payment'[i] # None => Landed(payment[i], i)'
                        /\ \A e \in {"succeeded", "failed", "expired"} :
                             told'[i][e] > 0 => intent'[i] = e
      BY DEF EndInv
    <3>1. intent[on[r]] # "failed"
      BY <1>5, <2>1 DEF SafetyInv, EndInv, EndingBacked
    <3>2. \A a \in Attempts : attempt'[a].intent = i /\ i # on[r] => attempt'[a] = attempt[a]
      BY <1>5, <2>3
    <3>3. EndingBacked(i)'
      BY <1>1, <3>1, <3>2 DEF SafetyInv, EndInv, EndingBacked, Dead
    <3>4. i \in LiveIntents /\ payment'[i] # None => Landed(payment[i], i)'
      BY <1>1, <2>4, <2>5 DEF SafetyInv, EndInv, Landed
    <3> QED
      BY <1>1, <3>3, <3>4 DEF SafetyInv, EndInv
  \* Who finds the intent's rows unpinned or failed is not at this intent.
  <2>12. ASSUME NEW q \in Procs, q # r
         PROVE  NothingNew(q)
    <3>1. CASE pc[q] \in {"tellAuthorized", "pin"}
      <4>1. on[q] # on[r]
        BY <2>12, <3>1 DEF SafetyInv, OnePinner, Pin
      <4> QED
        BY <1>5, <2>3, <4>1 DEF NothingNew
    <3>2. CASE pc[q] \in {"failIntent", "abandon"}
      <4>1. \A a \in Attempts : attempt[a].intent = on[q] => attempt[a].status = "failed"
        BY <3>2, InvLocals DEF Handler
      <4> QED
        BY <1>5, <2>3, <4>1 DEF NothingNew
    <3> QED
      BY <3>1, <3>2 DEF NothingNew
  <2>13. HandlerInv'
    <3> SUFFICES ASSUME NEW q \in Procs PROVE Handler(q)'
      BY DEF HandlerInv
    <3>1. CASE q = r
      BY <1>3, <3>1
    <3>2. CASE q # r
      BY <1>2, <2>1, <2>7, <2>12, <3>2, HandlerUntouched, InvLocals DEF Others
    <3> QED
      BY <3>1, <3>2
  <2>14. OnePinner'
    BY <1>2, <1>3, PinnerFrame DEF SafetyInv
  <2> QED
    BY <2>8, <2>9, <2>10, <2>11, <2>13, <2>14 DEF SafetyInv
<1> QED
  BY <1>4, <1>5 DEF Pin

-----------------------------------------------------------------------------
(* The invariant, and what it says *)

LEMMA InitSafetyInv == Init => SafetyInv
<1> SUFFICES ASSUME Init PROVE SafetyInv
  OBVIOUS
<1>1. TypeInv
  BY InitTypeInv
<1>2. AttemptInv /\ PinInv /\ SpendInv
  BY ConstantsAssumption DEF Init, NoRow, AttemptInv, PinInv, RowPinned, SpendInv
<1>3. EndInv
  BY DEF Init, EndInv, EndingBacked, Topics, LiveIntents
<1>4. HandlerInv /\ OnePinner
  BY DEF Init, HandlerInv, Handler, OnePinner
<1> QED
  BY <1>1, <1>2, <1>3, <1>4 DEF SafetyInv

LEMMA SafetyInvStep == SafetyInv /\ [Next]_vars => SafetyInv'
<1> SUFFICES ASSUME SafetyInv, [Next]_vars PROVE SafetyInv'
  OBVIOUS
<1>1. TypeInv'
  BY TypeInvStep DEF SafetyInv
<1>2. CASE Begins
  <2> Requests \subseteq Procs /\ Workers \subseteq Procs
    BY DEF Procs
  <2> QED
    BY <1>1, <1>2, AuthorizeSafe, SubmitSafe, ExpireStaleSafe, SweepSafe, ResumeSafe,
       ReapSelectSafe DEF Begins
<1>3. ASSUME NEW p \in Procs, AuthorizeStep(p) PROVE SafetyInv'
  BY <1>1, <1>3, ExpireOnReadSafe, CommitSafe, RollBackSafe, TellAuthorizedSafe, PinSafe,
     RetireSimulatedSafe, SettleSimulatedSafe DEF AuthorizeStep
<1>4. ASSUME NEW p \in Procs, SubmitStep(p) PROVE SafetyInv'
  BY <1>1, <1>4, BroadcastSafe, RecordSignatureSafe, SettleIntentSafe, PollSafe DEF SubmitStep
<1>5. ASSUME NEW p \in Procs, FinalizeStep(p) PROVE SafetyInv'
  BY <1>1, <1>5, ClaimSucceededSafe, CompleteSafe, RefuseCompletionSafe,
     FinalizeIntentSafe, ClaimFailedSafe, FailIntentSafe, AbandonIntentSafe, TellOutcomeSafe, TellExpiredSafe DEF FinalizeStep
<1>6. ASSUME NEW p \in Procs, TakeLock(p) \/ Fail(p) PROVE SafetyInv'
  BY <1>1, <1>6, EnterSubmitSafe, ReapSafe, FailSafe DEF TakeLock
<1>7. CASE Environment
  BY <1>1, <1>7, ComesDueSafe, LandSafe, BlockhashExpiresSafe, GrowsOldSafe DEF Environment
<1>8. CASE UNCHANGED vars
  <2>1. UNCHANGED <<intent, attempt, old, payment, chain, stale, spendOf, told, locals>>
    BY <1>8 DEF vars, locals
  <2>2. Monotone
    BY <2>1, TablesMonotone
  <2>3. PinInv'
    BY <2>1 DEF SafetyInv, PinInv, RowPinned, Landed
  <2> QED
    BY <1>1, <2>1, <2>2, <2>3, WorldStep
<1> QED
  BY <1>2, <1>3, <1>4, <1>5, <1>6, <1>7, <1>8 DEF Next, Step

\* The invariant that carries the rest holds in every reachable state.
THEOREM SafetyHolds == Spec => []SafetyInv
<1>1. Init => SafetyInv
  BY InitSafetyInv
<1>2. SafetyInv /\ [Next]_vars => SafetyInv'
  BY SafetyInvStep
<1> QED
  BY <1>1, <1>2, PTL DEF Spec

\* What the inductive invariant says about money, ending by ending.
LEMMA ClosedUnmoved == SafetyInv => FailureIsHonest
<1> SUFFICES ASSUME SafetyInv, NEW i \in Intents, NEW m \in Msgs,
                    Closed(i) \/ told[i]["failed"] > 0 \/ told[i]["expired"] > 0,
                    spendOf[m] = i, chain[m] = "landed"
             PROVE  FALSE
  BY DEF FailureIsHonest, Moved
<1>1. intent[i] \in {"failed", "expired"}
  BY DEF Closed, SafetyInv, EndInv
<1>2. PICK a \in Attempts : attempt[a].msg = m /\ attempt[a].intent = i
  BY ConstantsAssumption DEF SafetyInv, SpendInv
<1>3. attempt[a].status # "none"
  BY <1>2, ConstantsAssumption DEF SafetyInv, TypeInv, RowsInv, NoRow
<1>4. intent[i] = "failed"
  BY <1>1, <1>2, <1>3 DEF SafetyInv, AttemptInv
<1>5. Dead(m)
  BY <1>2, <1>4, ConstantsAssumption DEF SafetyInv, EndInv, EndingBacked
<1> QED
  BY <1>5 DEF Dead

LEMMA SucceededLanded == SafetyInv => SuccessIsBacked
  BY ConstantsAssumption DEF SuccessIsBacked, SafetyInv, EndInv, EndingBacked, Landed, LiveIntents

LEMMA OneSpend == SafetyInv => SingleSpend
<1> SUFFICES ASSUME SafetyInv PROVE SingleSpend
  OBVIOUS
<1>1. \A a, b \in Attempts :
        attempt[a].intent = attempt[b].intent /\ attempt[a].intent # None => a = b
  BY DEF SafetyInv, AttemptInv
<1>2. ASSUME NEW m \in Msgs, NEW n \in Msgs, spendOf[m] = spendOf[n], spendOf[m] # None
      PROVE  m = n
  <2>1. PICK a \in Attempts : attempt[a].msg = m /\ attempt[a].intent = spendOf[m]
    BY <1>2 DEF SafetyInv, SpendInv
  <2>2. attempt[a].msg = n
    BY <1>2, <2>1, SpendOfIntentIsPinned
  <2> QED
    BY <2>1, <2>2
<1> QED
  BY <1>1, <1>2 DEF SingleSpend

\* A Payment called failed or expired never moved money, however poll, sweep,
\* reaper and expiry interleave and wherever a process dies.
THEOREM FailureHonest == Spec => []FailureIsHonest
  BY ClosedUnmoved, SafetyHolds, PTL

\* A live Payment called succeeded has a payments row that names a Spend of
\* this intent, and that Spend landed.
THEOREM SuccessBacked == Spec => []SuccessIsBacked
  BY SucceededLanded, SafetyHolds, PTL

\* An intent has one attempt and one pinned message in its whole life.
THEOREM SpendIsSingle == Spec => []SingleSpend
  BY OneSpend, SafetyHolds, PTL

\* The fee payer signs only a message pinned on a row of the intent it pays,
\* and a row's signature is that of its own pin.
THEOREM OnlyPinnedSigned == Spec => []AuthoritySignsOnlyPinned
<1>1. SafetyInv => AuthoritySignsOnlyPinned
  BY DEF AuthoritySignsOnlyPinned, SafetyInv, SpendInv, PinInv, RowPinned
<1> QED
  BY <1>1, SafetyHolds, PTL

\* A step that writes an intent's status is no step of the cluster, broadcasts
\* nothing and pins nothing.
LEMMA StatusOrCluster == [Next]_vars => UNCHANGED intent \/ UNCHANGED <<chain, stale, spendOf>>
<1> SUFFICES ASSUME [Next]_vars
             PROVE  UNCHANGED intent \/ UNCHANGED <<chain, stale, spendOf>>
  OBVIOUS
<1> USE DEF tables, outside, SetStatus, Publish, Goto, Begin, Finish
<1>1. CASE Begins
  BY <1>1 DEF Begins, Authorize, Submit, ExpireStale, Sweep, Resume, ReapSelect
<1>2. ASSUME NEW p \in Procs, AuthorizeStep(p) PROVE UNCHANGED intent \/ UNCHANGED <<chain, stale, spendOf>>
  <2>1. CASE CommitAuthorization(p) \/ RollBackAuthorization(p) \/ SettleSimulated(p)
    BY <2>1 DEF CommitAuthorization, RollBackAuthorization, SettleSimulated
  <2> QED
    BY <1>2, <2>1 DEF AuthorizeStep, ExpireOnRead, TellAuthorized, Pin, RetireSimulated
<1>3. ASSUME NEW p \in Procs, SubmitStep(p) PROVE UNCHANGED intent \/ UNCHANGED <<chain, stale, spendOf>>
  BY <1>3 DEF SubmitStep, Broadcast, RecordSignature, SettleIntent, Poll
<1>4. ASSUME NEW p \in Procs, FinalizeStep(p) PROVE UNCHANGED intent \/ UNCHANGED <<chain, stale, spendOf>>
  BY <1>4 DEF FinalizeStep, ClaimSucceeded, Claim, Complete, RefuseCompletion, FinalizeIntent, ClaimFailed,
              FailIntent, AbandonIntent, TellOutcome, TellExpired
<1>5. ASSUME NEW p \in Procs, TakeLock(p) \/ Fail(p)
      PROVE  UNCHANGED intent \/ UNCHANGED <<chain, stale, spendOf>>
  BY <1>5 DEF TakeLock, EnterSubmit, Reap, Fail
<1>6. CASE Environment
  BY <1>6 DEF Environment, ComesDue, Provision, Land, BlockhashExpires, GrowsOld
<1>7. CASE UNCHANGED vars
  BY <1>7 DEF vars
<1> QED
  BY <1>1, <1>2, <1>3, <1>4, <1>5, <1>6, <1>7 DEF Next, Step

\* No handler writes failed over a message that may still land: the status
\* moves only on a chain error, or once the pinned message's blockhash is gone.
THEOREM FailsOnVerdict == Spec => PinnedFailsOnVerdict
<1> DEFINE Verdict == \A i \in Intents, m \in Msgs :
             intent'[i] = "failed" /\ intent[i] # "failed" /\ spendOf[m] = i =>
               chain[m] = "err" \/ (chain[m] # "landed" /\ m \in stale)
<1>1. SafetyInv /\ SafetyInv' /\ [Next]_vars => [Verdict]_vars
  <2> SUFFICES ASSUME SafetyInv', [Next]_vars, NEW i \in Intents, NEW m \in Msgs,
                      intent'[i] = "failed", intent[i] # "failed", spendOf[m] = i
               PROVE  chain[m] = "err" \/ (chain[m] # "landed" /\ m \in stale)
    OBVIOUS
  <2>1. UNCHANGED <<chain, stale, spendOf>>
    BY StatusOrCluster
  <2>2. PICK a \in Attempts : attempt'[a].msg = m /\ attempt'[a].intent = i
    BY <2>1, ConstantsAssumption DEF SafetyInv, SpendInv
  <2>3. Dead(m)'
    BY <2>2, ConstantsAssumption DEF SafetyInv, EndInv, EndingBacked
  <2> QED
    BY <2>1, <2>3 DEF Dead
<1> QED
  BY <1>1, SafetyHolds, PTL DEF Spec, PinnedFailsOnVerdict

=============================================================================
