------------------------ MODULE PaymentOutcomeProofs ------------------------
(***************************************************************************)
(* What PaymentLifecycle promises beyond SafetyInv, for any number of      *)
(* intents, requests and backend instances: capacity is never overdrawn or *)
(* leaked, an ending is told once, money that moved stays known, and the   *)
(* whole implements PaymentPromise.                                        *)
(***************************************************************************)
EXTENDS PaymentSafetyProofs, FiniteSetTheorems

USE DEF tables, outside, locals

-----------------------------------------------------------------------------
(* Capacity *)

\* The rows a unit of capacity was reserved for.
Charged == {a \in Attempts : attempt[a].intent \in LiveIntents}

CapacityInv ==
  /\ IsFiniteSet(Charged)
  /\ used = Cardinality(Charged)
  /\ used <= Cap

\* Only the authorization inserts a row, and no other step changes whose it is.
LEMMA RowsKeepTheirIntent ==
  ASSUME SafetyInv, [Next]_vars, \A p \in Procs : ~CommitAuthorization(p)
  PROVE  used' = used /\ \A a \in Attempts : attempt'[a].intent = attempt[a].intent
<1> DEFINE Kept == used' = used /\ \A a \in Attempts : attempt'[a].intent = attempt[a].intent
<1> attempt \in [Attempts -> AttemptRows]
  BY DEF SafetyInv, TypeInv, TypeOK, TablesOK
<1>1. CASE Begins \/ Environment \/ UNCHANGED vars
  BY <1>1 DEF Begins, Environment, vars, Authorize, Submit, ExpireStale, Sweep, Resume,
              ReapSelect, ComesDue, Provision, Land, BlockhashExpires, GrowsOld
<1>2. ASSUME NEW p \in Procs, AuthorizeStep(p) PROVE Kept
  <2>1. CASE Pin(p)
    BY <2>1 DEF Pin, AttemptRows
  <2>2. CASE RetireSimulated(p)
    BY <2>2 DEF RetireSimulated, AttemptRows
  <2> QED
    BY <1>2, <2>1, <2>2
    DEF AuthorizeStep, ExpireOnRead, RollBackAuthorization, TellAuthorized, SettleSimulated
<1>3. ASSUME NEW p \in Procs, SubmitStep(p) PROVE Kept
  <2>1. CASE RecordSignature(p)
    BY <2>1 DEF RecordSignature, AttemptRows
  <2> QED
    BY <1>3, <2>1 DEF SubmitStep, Broadcast, SettleIntent, Poll
<1>4. ASSUME NEW p \in Procs, FinalizeStep(p) PROVE Kept
  <2>1. ASSUME NEW s, NEW label, Claim(p, s, label) PROVE Kept
    BY <2>1 DEF Claim, AttemptRows
  <2> QED
    BY <1>4, <2>1 DEF FinalizeStep, ClaimSucceeded, ClaimFailed, Complete, RefuseCompletion, FinalizeIntent,
                      FailIntent, AbandonIntent, TellOutcome, TellExpired
<1>5. ASSUME NEW p \in Procs, TakeLock(p) \/ Fail(p) PROVE Kept
  <2>1. CASE Reap(p)
    BY <2>1 DEF Reap, AttemptRows
  <2> QED
    BY <1>5, <2>1 DEF TakeLock, EnterSubmit, Fail
<1> QED
  BY <1>1, <1>2, <1>3, <1>4, <1>5 DEF Next, Step

LEMMA CommitCharges ==
  ASSUME SafetyInv, CapacityInv, NEW p \in Procs, CommitAuthorization(p)
  PROVE  CapacityInv'
<1>1. PICK a \in Attempts :
        /\ attempt[a].status = "none"
        /\ attempt' = [attempt EXCEPT ![a] =
             [intent |-> on[p], status |-> "authorized", msg |-> None, sig |-> None]]
  BY DEF CommitAuthorization
<1>2. attempt \in [Attempts -> AttemptRows]
  BY DEF SafetyInv, TypeInv, TypeOK, TablesOK
<1>3. a \notin Charged
  BY <1>1, ConstantsAssumption DEF SafetyInv, TypeInv, RowsInv, NoRow, Charged, LiveIntents
<1>4. CASE on[p] \in LiveIntents
  <2>1. Charged' = Charged \cup {a}
    BY <1>1, <1>2, <1>4 DEF Charged
  <2>2. IsFiniteSet(Charged') /\ Cardinality(Charged') = Cardinality(Charged) + 1
    BY <1>3, <2>1, FS_AddElement DEF CapacityInv
  <2>3. used < Cap /\ used' = used + 1
    BY <1>4 DEF CommitAuthorization, CanAuthorize
  <2>4. used \in Nat /\ Cap \in Nat
    BY ConstantsAssumption DEF SafetyInv, TypeInv, TypeOK, TablesOK
  <2> QED
    BY <2>2, <2>3, <2>4 DEF CapacityInv
<1>5. CASE on[p] \notin LiveIntents
  <2>1. Charged' = Charged
    BY <1>1, <1>2, <1>3, <1>5 DEF Charged
  <2> QED
    BY <1>5, <2>1 DEF CapacityInv, CommitAuthorization
<1> QED
  BY <1>4, <1>5

\* Capacity is what the live Payments reserved, and never more than the cap,
\* however many of them are authorized at once.
THEOREM CapacityHeld == Spec => []CapacityMatchesAttempts
<1>1. Init => CapacityInv
  <2> SUFFICES ASSUME Init PROVE CapacityInv
    OBVIOUS
  <2>1. Charged = {}
    BY ConstantsAssumption DEF Init, Charged, NoRow, LiveIntents
  <2> QED
    BY <2>1, FS_EmptySet, ConstantsAssumption DEF Init, CapacityInv
<1>2. SafetyInv /\ CapacityInv /\ [Next]_vars => CapacityInv'
  <2> SUFFICES ASSUME SafetyInv, CapacityInv, [Next]_vars PROVE CapacityInv'
    OBVIOUS
  <2>1. CASE \E p \in Procs : CommitAuthorization(p)
    BY <2>1, CommitCharges
  <2>2. CASE \A p \in Procs : ~CommitAuthorization(p)
    <3>1. Charged' = Charged
      BY <2>2, RowsKeepTheirIntent DEF Charged
    <3> QED
      BY <2>2, <3>1, RowsKeepTheirIntent DEF CapacityInv
  <2> QED
    BY <2>1, <2>2
<1>3. CapacityInv => CapacityMatchesAttempts
  BY DEF CapacityInv, CapacityMatchesAttempts, Charged
<1> QED
  BY <1>1, <1>2, <1>3, SafetyHolds, PTL DEF Spec

-----------------------------------------------------------------------------
(* One ending, told once *)

Endings == {"succeeded", "failed", "expired"}

\* p is about to tell how intent i ended.
Tells(p, i) ==
  \/ pc[p] \in {"tellSucceeded", "tellFailed"} /\ on[p] = i
  \/ pc[p] = "tellExpired" /\ i \in batch[p]

\* One handler at most tells the ending of an intent, and nobody told it before.
TellerInv ==
  /\ \A p, q \in Procs, i \in Intents : Tells(p, i) /\ Tells(q, i) => p = q
  /\ \A p \in Procs, i \in Intents, e \in Endings : Tells(p, i) => told[i][e] = 0

\* What is told is the status of the intent, so no more than one ending is.
ToldInv == TellerInv /\ \A i \in Intents, e \in Endings : told[i][e] <= 1

LEMMA TellerKnowsTheEnding ==
  ASSUME SafetyInv, NEW p \in Procs, NEW i \in Intents, Tells(p, i)
  PROVE  intent[i] \in Endings
  BY InvLocals DEF Tells, Handler, Endings

LEMMA ToldIsTheEnding ==
  ASSUME SafetyInv, NEW i \in Intents, NEW e \in Endings, intent[i] # e
  PROVE  told[i][e] = 0
<1>1. told[i][e] \in Nat /\ ~(told[i][e] > 0)
  BY DEF SafetyInv, TypeInv, TypeOK, EndInv, Endings, Topics
<1> QED
  BY <1>1

\* A step of p that tells no ending: what p is to tell is new, and open before.
LEMMA TellersFrame ==
  ASSUME SafetyInv, ToldInv, NEW p \in Procs, Others(p), EndingsUntold,
         \A i \in Intents : Tells(p, i)' => Tells(p, i) \/ intent[i] \notin Endings
  PROVE  ToldInv'
<1>1. \A q \in Procs \ {p}, i \in Intents : Tells(q, i)' <=> Tells(q, i)
  BY DEF Others, Untouched, Tells
<1>2. ASSUME NEW i \in Intents, Tells(p, i)', ~Tells(p, i)
      PROVE  /\ \A q \in Procs : ~Tells(q, i)
             /\ \A e \in Endings : told[i][e] = 0
  BY <1>2, TellerKnowsTheEnding, ToldIsTheEnding
<1>3. \A i \in Intents, e \in Endings : told'[i][e] = told[i][e]
  BY DEF EndingsUntold, Endings
<1>4. ASSUME NEW q \in Procs, NEW r \in Procs, NEW i \in Intents, Tells(q, i)', Tells(r, i)'
      PROVE  q = r
  BY <1>1, <1>2, <1>4 DEF ToldInv, TellerInv
<1>5. ASSUME NEW q \in Procs, NEW i \in Intents, NEW e \in Endings, Tells(q, i)'
      PROVE  told'[i][e] = 0
  <2>1. CASE Tells(q, i)
    BY <1>3, <2>1 DEF ToldInv, TellerInv
  <2>2. CASE ~Tells(q, i)
    BY <1>1, <1>2, <1>3, <1>5, <2>2
  <2> QED
    BY <2>1, <2>2
<1> QED
  BY <1>3, <1>4, <1>5 DEF ToldInv, TellerInv

\* The step that tells the ending of i: p tells it no more.
LEMMA TellFrame ==
  ASSUME SafetyInv, ToldInv, NEW p \in Procs, Others(p), NEW i \in Intents, Tells(p, i),
         NEW e \in Endings, e = intent[i], Publish(i, e),
         ~Tells(p, i)', \A j \in Intents : Tells(p, j)' => Tells(p, j)
  PROVE  ToldInv'
<1>1. \A q \in Procs \ {p}, j \in Intents : Tells(q, j)' <=> Tells(q, j)
  BY DEF Others, Untouched, Tells
<1>2. told \in [Intents -> [Topics -> Nat]] /\ Endings \subseteq Topics
  BY DEF SafetyInv, TypeInv, TypeOK, Endings, Topics
<1>3. \A j \in Intents, f \in Endings : told'[j][f] = IF j = i /\ f = e THEN told[j][f] + 1 ELSE told[j][f]
  BY <1>2 DEF Publish
<1>4. told[i][e] = 0
  BY DEF ToldInv, TellerInv
<1>5. ASSUME NEW q \in Procs, NEW j \in Intents, Tells(q, j)'
      PROVE  Tells(q, j) /\ j # i
  <2>1. Tells(q, j)
    BY <1>1, <1>5
  <2>2. q = p => j # i
    BY <1>5
  <2>3. q # p => j # i
    BY <2>1 DEF ToldInv, TellerInv
  <2> QED
    BY <2>1, <2>2, <2>3
<1>6. \A j \in Intents, f \in Endings : told'[j][f] <= 1
  BY <1>2, <1>3, <1>4 DEF ToldInv
<1>7. TellerInv'
  BY <1>3, <1>5 DEF ToldInv, TellerInv
<1> QED
  BY <1>6, <1>7 DEF ToldInv

\* A step that leaves the handler with nothing to tell.
LEMMA Untelling ==
  ASSUME SafetyInv, ToldInv, NEW p \in Procs, Others(p), EndingsUntold,
         pc'[p] \notin {"tellSucceeded", "tellFailed", "tellExpired"}
  PROVE  ToldInv'
  BY TellersFrame DEF Tells

\* A step that decides the ending and is to tell it.
LEMMA Deciding ==
  ASSUME SafetyInv, ToldInv, NEW p \in Procs, Others(p), EndingsUntold,
         \/ pc'[p] \in {"tellSucceeded", "tellFailed"} /\ intent[on'[p]] \notin Endings
         \/ pc'[p] = "tellExpired" /\ \A i \in batch'[p] : intent[i] \notin Endings
  PROVE  ToldInv'
  BY TellersFrame DEF Tells

LEMMA ToldInvStep == SafetyInv /\ ToldInv /\ [Next]_vars => ToldInv'
<1> SUFFICES ASSUME SafetyInv, ToldInv, [Next]_vars PROVE ToldInv'
  OBVIOUS
<1> LocalsOK /\ told \in [Intents -> [Topics -> Nat]]
  BY DEF SafetyInv, TypeInv, TypeOK
<1>quiet. UNCHANGED told => EndingsUntold
  BY ToldUnchanged
<1>finish. ASSUME NEW p \in Procs, Finish(p), UNCHANGED told PROVE ToldInv'
  BY <1>finish, <1>quiet, FinishOthers, Untelling
<1>goto. ASSUME NEW p \in Procs, UNCHANGED told, NEW label, Goto(p, label),
                \/ label \notin {"tellSucceeded", "tellFailed", "tellExpired"}
                \/ label \in {"tellSucceeded", "tellFailed"} /\ intent[on[p]] \notin Endings
         PROVE  ToldInv'
  BY <1>goto, <1>quiet, GotoOthers, Untelling, Deciding
<1>begin. ASSUME NEW p \in Procs, UNCHANGED told, NEW label, NEW i, NEW a, NEW s,
                 Begin(p, label, i, a, s),
                 label \notin {"tellSucceeded", "tellFailed", "tellExpired"}
          PROVE  ToldInv'
  BY <1>begin, <1>quiet, BeginOthers, Untelling
<1>1. CASE Begins
  <2> Requests \subseteq Procs /\ Workers \subseteq Procs
    BY DEF Procs
  <2>1. ASSUME NEW w \in Workers, ExpireStale(w) PROVE ToldInv'
    <3>1. /\ Others(w) /\ pc'[w] = "tellExpired"
          /\ \A i \in batch'[w] : intent[i] \notin Endings
      BY <2>1 DEF ExpireStale, Overdue, LocalsOK, Others, Untouched, Endings
    <3> QED
      BY <2>1, <3>1, <1>quiet, Deciding DEF ExpireStale
  <2> QED
    BY <1>1, <1>begin, <2>1 DEF Begins, Authorize, Submit, Sweep, Resume, ReapSelect
<1>2. ASSUME NEW p \in Procs, AuthorizeStep(p) PROVE ToldInv'
  <2>1. CASE ExpireOnRead(p)
    <3>1. CASE Finish(p)
      BY <2>1, <3>1, <1>finish DEF ExpireOnRead
    <3>2. CASE ~Finish(p)
      <4>1. /\ Others(p) /\ pc'[p] = "tellExpired"
            /\ \A i \in batch'[p] : intent[i] \notin Endings
        BY <2>1, <3>2 DEF ExpireOnRead, IsAt, LocalsOK, Others, Untouched, Endings
      <4> QED
        BY <2>1, <4>1, <1>quiet, Deciding DEF ExpireOnRead
    <3> QED
      BY <3>1, <3>2
  <2>2. CASE CommitAuthorization(p)
    <3>1. Others(p) /\ pc'[p] = "tellAuthorized"
      BY <2>2 DEF CommitAuthorization, LocalsOK, Others, Untouched
    <3> QED
      BY <2>2, <3>1, <1>quiet, Untelling DEF CommitAuthorization
  <2>3. CASE TellAuthorized(p)
    <3>1. Others(p) /\ pc'[p] \in {"pin", "simClaim"}
      BY <2>3, GotoOthers DEF TellAuthorized
    <3>2. EndingsUntold
      BY <2>3 DEF TellAuthorized, Publish, EndingsUntold, Topics
    <3> QED
      BY <3>1, <3>2, Untelling
  <2>4. CASE RetireSimulated(p)
    <3>1. Others(p) /\ pc'[p] = "simSettling"
      BY <2>4 DEF RetireSimulated, LocalsOK, Others, Untouched
    <3> QED
      BY <2>4, <3>1, <1>quiet, Untelling DEF RetireSimulated
  <2> QED
    BY <1>2, <1>finish, <1>goto, <2>1, <2>2, <2>3, <2>4
    DEF AuthorizeStep, RollBackAuthorization, Pin, SettleSimulated
<1>3. ASSUME NEW p \in Procs, SubmitStep(p) PROVE ToldInv'
  BY <1>3, <1>finish, <1>goto DEF SubmitStep, Broadcast, RecordSignature, SettleIntent, Poll
<1>4. ASSUME NEW p \in Procs, FinalizeStep(p) PROVE ToldInv'
  <2>1. CASE TellOutcome(p)
    <3>1. Others(p) /\ pc'[p] = "idle"
      BY <2>1, FinishOthers DEF TellOutcome
    <3>2. on[p] \in Intents /\ Tells(p, on[p]) /\ \A i \in Intents : ~Tells(p, i)'
      BY <2>1, <3>1, InvLocals DEF TellOutcome, Tells
    <3>3. Handler(p)
      BY InvLocals
    <3> QED
      BY <2>1, <3>1, <3>2, <3>3, TellFrame DEF TellOutcome, Handler, Endings
  <2>2. CASE TellExpired(p)
    <3>1. PICK i \in batch[p] :
            /\ Publish(i, "expired")
            /\ IF batch[p] = {i} THEN Finish(p)
               ELSE /\ batch' = [batch EXCEPT ![p] = @ \ {i}]
                    /\ UNCHANGED <<pc, on, row, tx>>
      BY <2>2 DEF TellExpired
    <3>2. i \in Intents /\ Tells(p, i) /\ intent[i] = "expired"
      BY <2>2, InvLocals DEF TellExpired, Tells, LocalsOK, Handler
    <3>3. Others(p) /\ ~Tells(p, i)' /\ \A j \in Intents : Tells(p, j)' => Tells(p, j)
      <4>1. CASE Finish(p)
        BY <4>1, FinishOthers DEF Tells
      <4>2. CASE ~Finish(p)
        BY <2>2, <3>1, <4>2 DEF LocalsOK, Others, Untouched, Tells, TellExpired
      <4> QED
        BY <4>1, <4>2
    <3> QED
      BY <3>1, <3>2, <3>3, TellFrame DEF Endings
  <2> QED
    BY <1>4, <1>finish, <1>goto, <2>1, <2>2
    DEF FinalizeStep, ClaimSucceeded, ClaimFailed, Claim, Complete, RefuseCompletion, FinalizeIntent,
        FailIntent, AbandonIntent, IsAt, Endings
<1>5. ASSUME NEW p \in Procs, TakeLock(p) \/ Fail(p) PROVE ToldInv'
  <2>1. ASSUME EnterSubmit(p), ~Finish(p) PROVE ToldInv'
    <3>1. Others(p) /\ pc'[p] = "broadcast"
      BY <2>1 DEF EnterSubmit, LocalsOK, Others, Untouched
    <3> QED
      BY <2>1, <3>1, <1>quiet, Untelling DEF EnterSubmit
  <2> QED
    BY <1>5, <1>finish, <1>goto, <2>1 DEF TakeLock, EnterSubmit, Reap, Fail
<1>6. CASE Environment \/ UNCHANGED vars
  <2>1. UNCHANGED <<told, pc, on, batch>>
    BY <1>6 DEF Environment, vars, ComesDue, Provision, Land, BlockhashExpires, GrowsOld
  <2> QED
    BY <2>1 DEF ToldInv, TellerInv, Tells
<1> QED
  BY <1>1, <1>2, <1>3, <1>4, <1>5, <1>6 DEF Next, Step

LEMMA ToldHolds == Spec => [](SafetyInv /\ ToldInv)
<1>1. Init => ToldInv
  BY DEF Init, ToldInv, TellerInv, Tells, Endings, Topics
<1> QED
  BY <1>1, ToldInvStep, SafetyHolds, PTL DEF Spec

\* The merchant hears one ending of an intent, once.
THEOREM ToldOnce == Spec => []OutcomeToldOnce
<1>1. SafetyInv /\ ToldInv => OutcomeToldOnce
  <2> SUFFICES ASSUME SafetyInv, ToldInv, NEW i \in Intents
               PROVE  told[i]["succeeded"] + told[i]["failed"] + told[i]["expired"] <= 1
    BY DEF OutcomeToldOnce
  <2>1. \A e \in Endings : intent[i] # e => told[i][e] = 0
    BY ToldIsTheEnding
  <2>2. \A e \in Endings : told[i][e] \in Nat /\ told[i][e] <= 1
    BY DEF SafetyInv, TypeInv, TypeOK, ToldInv, Endings, Topics
  <2> QED
    BY <2>1, <2>2 DEF Endings
<1> QED
  BY <1>1, ToldHolds, PTL

-----------------------------------------------------------------------------
(* Money that moved *)

\* Until a signature is recorded on the row of a live intent, the intent waits
\* for it, unless nothing was ever pinned; a row fails for ever only on a verdict.
RowOpen(a) ==
  /\ attempt[a].status = "authorized" => attempt[a].sig = None
  /\ /\ attempt[a].intent \in LiveIntents /\ attempt[a].sig = None
     /\ attempt[a].status = "authorized" \/ attempt[a].msg # None
     => intent[attempt[a].intent] = "authorized"
  /\ attempt[a].status = "failed" /\ attempt[a].msg # None =>
       attempt[a].sig = None \/ Dead(attempt[a].msg)

\* The intent follows its row, whose signature is recorded first.
Following(p) ==
  pc[p] = "settle" =>
    \E a \in Attempts : attempt[a].intent = on[p] /\ attempt[a].sig # None

OpenInv == (\A a \in Attempts : RowOpen(a)) /\ \A p \in Procs : Following(p)

\* The verdict about a dead message is final.
LEMMA DeadForEver ==
  ASSUME SafetyInv, [Next]_vars, NEW m \in Msgs, Dead(m)
  PROVE  Dead(m)'
<1> USE DEF Dead
<1> chain \in [Msgs -> ChainStatuses]
  BY DEF SafetyInv, TypeInv, TypeOK, OutsideOK
<1>1. CASE Begins \/ UNCHANGED vars
  BY <1>1 DEF Begins, vars, Authorize, Submit, ExpireStale, Sweep, Resume, ReapSelect
<1>2. ASSUME NEW p \in Procs, AuthorizeStep(p) PROVE Dead(m)'
  BY <1>2 DEF AuthorizeStep, ExpireOnRead, CommitAuthorization, RollBackAuthorization,
              TellAuthorized, Pin, RetireSimulated, SettleSimulated
<1>3. ASSUME NEW p \in Procs, SubmitStep(p) PROVE Dead(m)'
  BY <1>3 DEF SubmitStep, Broadcast, RecordSignature, SettleIntent, Poll
<1>4. ASSUME NEW p \in Procs, FinalizeStep(p) PROVE Dead(m)'
  BY <1>4 DEF FinalizeStep, ClaimSucceeded, ClaimFailed, Claim, Complete, RefuseCompletion, FinalizeIntent,
              FailIntent, AbandonIntent, TellOutcome, TellExpired
<1>5. ASSUME NEW p \in Procs, TakeLock(p) \/ Fail(p) PROVE Dead(m)'
  BY <1>5 DEF TakeLock, EnterSubmit, Reap, Fail
<1>6. CASE Environment
  BY <1>6 DEF Environment, ComesDue, Provision, Land, BlockhashExpires, GrowsOld
<1> QED
  BY <1>1, <1>2, <1>3, <1>4, <1>5, <1>6 DEF Next, Step

LEMMA DeadPinForEver ==
  ASSUME SafetyInv, [Next]_vars, NEW a \in Attempts, attempt[a].msg # None,
         Dead(attempt[a].msg), attempt'[a].msg = attempt[a].msg
  PROVE  Dead(attempt[a].msg)'
<1>1. PICK m \in Msgs : m = attempt[a].msg
  BY DEF SafetyInv, TypeInv, TypeOK, TablesOK, AttemptRows
<1>2. Dead(m)'
  BY <1>1, DeadForEver
<1> QED
  BY <1>1, <1>2 DEF Dead

\* A step that leaves the row, and its intent too if that still waits.
LEMMA RowStaysOpen ==
  ASSUME SafetyInv, [Next]_vars, NEW a \in Attempts, RowOpen(a),
         attempt'[a] = attempt[a],
         /\ attempt[a].intent \in LiveIntents /\ attempt[a].sig = None
         /\ attempt[a].status = "authorized" \/ attempt[a].msg # None
         => intent'[attempt[a].intent] = intent[attempt[a].intent]
  PROVE  RowOpen(a)'
<1>1. attempt[a].msg # None /\ Dead(attempt[a].msg) => Dead(attempt[a].msg)'
  BY DeadPinForEver
<1> QED
  BY <1>1 DEF RowOpen, Dead

\* Nobody begins to follow, and no row loses its signature.
LEMMA FollowersFrame ==
  ASSUME SafetyInv, OpenInv, NEW p \in Procs, Others(p),
         \A a \in Attempts : attempt[a].sig # None =>
           attempt'[a].intent = attempt[a].intent /\ attempt'[a].sig # None,
         pc'[p] = "settle" =>
           \E a \in Attempts : attempt'[a].intent = on'[p] /\ attempt'[a].sig # None
  PROVE  \A q \in Procs : Following(q)'
  BY DEF OpenInv, Following, Others, Untouched

\* A step that writes no row and decides nothing about an intent.
LEMMA OpenFrame ==
  ASSUME SafetyInv, OpenInv, [Next]_vars, NEW p \in Procs, Others(p),
         UNCHANGED <<attempt, intent>>, pc'[p] # "settle"
  PROVE  OpenInv'
<1>1. \A a \in Attempts : RowOpen(a)'
  BY RowStaysOpen DEF OpenInv
<1>2. \A q \in Procs : Following(q)'
  BY FollowersFrame
<1> QED
  BY <1>1, <1>2 DEF OpenInv

\* A step that moves intent i, while no row of it waits.
LEMMA IntentMoves ==
  ASSUME SafetyInv, OpenInv, [Next]_vars, NEW p \in Procs, Others(p), NEW S \in SUBSET Intents,
         UNCHANGED attempt, \A i \in Intents \ S : intent'[i] = intent[i],
         pc'[p] # "settle",
         \A a \in Attempts :
           attempt[a].intent \in S /\ attempt[a].intent \in LiveIntents /\ attempt[a].sig = None
             => attempt[a].status # "authorized" /\ attempt[a].msg = None
  PROVE  OpenInv'
<1>1. \A a \in Attempts : RowOpen(a)'
  <2> SUFFICES ASSUME NEW a \in Attempts PROVE RowOpen(a)'
    OBVIOUS
  <2>1. attempt[a].intent \in LiveIntents => attempt[a].intent \in Intents
    BY DEF LiveIntents
  <2> QED
    BY <2>1, RowStaysOpen DEF OpenInv
<1>2. \A q \in Procs : Following(q)'
  BY FollowersFrame
<1> QED
  BY <1>1, <1>2 DEF OpenInv

\* A step that writes rows: each stays open, and none loses its signature.
LEMMA RowsMove ==
  ASSUME SafetyInv, OpenInv, [Next]_vars, NEW p \in Procs, Others(p), NEW S \in SUBSET Attempts,
         UNCHANGED intent, \A a \in Attempts \ S : attempt'[a] = attempt[a],
         \A a \in S : RowOpen(a)',
         \A a \in S : attempt'[a].intent = attempt[a].intent
                      /\ (attempt[a].sig # None => attempt'[a].sig # None),
         pc'[p] = "settle" =>
           \E a \in Attempts : attempt'[a].intent = on'[p] /\ attempt'[a].sig # None
  PROVE  OpenInv'
<1>1. \A a \in Attempts : RowOpen(a)'
  BY RowStaysOpen DEF OpenInv
<1>2. \A q \in Procs : Following(q)'
  BY FollowersFrame
<1> QED
  BY <1>1, <1>2 DEF OpenInv

LEMMA RowMoves ==
  ASSUME SafetyInv, OpenInv, [Next]_vars, NEW p \in Procs, Others(p), NEW a \in Attempts,
         UNCHANGED intent, \A b \in Attempts \ {a} : attempt'[b] = attempt[b],
         RowOpen(a)', attempt'[a].intent = attempt[a].intent,
         attempt[a].sig # None => attempt'[a].sig # None,
         pc'[p] = "settle" => attempt'[a].intent = on'[p] /\ attempt'[a].sig # None
  PROVE  OpenInv'
<1>1. \A b \in Attempts : RowOpen(b)'
  <2>1. \A b \in Attempts \ {a} : RowOpen(b)'
    BY RowStaysOpen DEF OpenInv
  <2> QED
    BY <2>1
<1>2. \A q \in Procs : Following(q)'
  BY FollowersFrame
<1> QED
  BY <1>1, <1>2 DEF OpenInv

LEMMA CommitOpen ==
  ASSUME SafetyInv, OpenInv, [Next]_vars, NEW p \in Procs, CommitAuthorization(p)
  PROVE  OpenInv'
<1>1. PICK a \in Attempts :
        /\ attempt[a].status = "none"
        /\ attempt' = [attempt EXCEPT ![a] =
             [intent |-> on[p], status |-> "authorized", msg |-> None, sig |-> None]]
  BY DEF CommitAuthorization
<1>2. /\ attempt \in [Attempts -> AttemptRows] /\ intent \in [Intents -> IntentStatuses]
      /\ on[p] \in Intents /\ intent[on[p]] = "created"
  BY InvLocals DEF SafetyInv, TypeInv, TypeOK, TablesOK, CommitAuthorization, CanAuthorize, IsAt
<1>3. Others(p) /\ pc'[p] = "tellAuthorized"
  BY InvLocals DEF CommitAuthorization, LocalsOK, Others, Untouched
<1>4. \A b \in Attempts : attempt[b].intent # on[p]
  BY <1>2, ConstantsAssumption DEF SafetyInv, TypeInv, RowsInv, NoRow, AttemptInv
<1>5. RowOpen(a)'
  BY <1>1, <1>2 DEF RowOpen, CommitAuthorization, SetStatus
<1>6. ASSUME NEW b \in Attempts, b # a PROVE RowOpen(b)'
  <2>1. attempt'[b] = attempt[b]
    BY <1>1, <1>2, <1>6
  <2>2. attempt[b].intent \in LiveIntents => intent'[attempt[b].intent] = intent[attempt[b].intent]
    BY <1>2, <1>4 DEF CommitAuthorization, SetStatus, LiveIntents
  <2> QED
    BY <2>1, <2>2, RowStaysOpen DEF OpenInv
<1>7. \A b \in Attempts : attempt[b].sig # None =>
        attempt'[b].intent = attempt[b].intent /\ attempt'[b].sig # None
  BY <1>1, <1>2 DEF SafetyInv, TypeInv, RowsInv, NoRow
<1>8. \A q \in Procs : Following(q)'
  BY <1>3, <1>7, FollowersFrame
<1> QED
  BY <1>5, <1>6, <1>8 DEF OpenInv

LEMMA PinOpen ==
  ASSUME SafetyInv, OpenInv, [Next]_vars, NEW p \in Procs, Pin(p)
  PROVE  OpenInv'
<1>1. Others(p) /\ pc'[p] # "settle"
  BY FinishOthers, InvLocals DEF Pin
<1>2. CASE UNCHANGED attempt
  BY <1>1, <1>2, OpenFrame DEF Pin
<1>3. ASSUME NEW a \in Attempts, NEW m \in Msgs, attempt[a].status = "authorized",
             attempt' = [attempt EXCEPT ![a].msg = m]
      PROVE  OpenInv'
  <2>1. attempt \in [Attempts -> AttemptRows]
    BY DEF SafetyInv, TypeInv, TypeOK, TablesOK
  <2>2. /\ attempt'[a].intent = attempt[a].intent /\ attempt'[a].sig = attempt[a].sig
        /\ attempt'[a].status = "authorized"
        /\ \A b \in Attempts \ {a} : attempt'[b] = attempt[b]
    BY <1>3, <2>1 DEF AttemptRows
  <2>3. RowOpen(a)'
    BY <1>3, <2>2 DEF RowOpen, OpenInv, Pin
  <2> QED
    BY <1>1, <2>2, <2>3, RowMoves DEF Pin
<1> QED
  BY <1>2, <1>3 DEF Pin

LEMMA RetireOpen ==
  ASSUME SafetyInv, OpenInv, [Next]_vars, NEW p \in Procs, RetireSimulated(p)
  PROVE  OpenInv'
<1> DEFINE hit == {a \in Attempts : attempt[a].intent = on[p] /\ attempt[a].status = "authorized"}
<1>1. Others(p) /\ pc'[p] # "settle"
  BY InvLocals DEF RetireSimulated, LocalsOK, Others, Untouched
<1>2. on[p] \in TestIntents /\ on[p] # None
  <2>1. pc[p] = "simClaim" /\ Handler(p)
    BY InvLocals DEF RetireSimulated
  <2>2. on[p] \in TestIntents
    BY <2>1 DEF Handler
  <2> QED
    BY <2>2, ConstantsAssumption
<1>3. attempt \in [Attempts -> AttemptRows]
  BY DEF SafetyInv, TypeInv, TypeOK, TablesOK
<1>4. \A a \in hit : /\ attempt'[a].intent = on[p] /\ attempt'[a].sig = on[p]
                     /\ attempt'[a].status = "succeeded"
  BY <1>3 DEF RetireSimulated, AttemptRows
<1>5. \A a \in Attempts \ hit : attempt'[a] = attempt[a]
  BY <1>3 DEF RetireSimulated
<1>6. \A a \in hit : RowOpen(a)'
  BY <1>2, <1>4 DEF RowOpen, LiveIntents
<1> HIDE DEF hit
<1>7. hit \in SUBSET Attempts /\ \A a \in hit : attempt[a].intent = on[p]
  BY DEF hit
<1>8. \A a \in hit : attempt'[a].intent = attempt[a].intent /\ attempt'[a].sig # None
  BY <1>2, <1>4, <1>7
<1>9. UNCHANGED intent
  BY DEF RetireSimulated
<1> QED
  BY <1>1, <1>5, <1>6, <1>7, <1>8, <1>9, RowsMove

LEMMA RecordOpen ==
  ASSUME SafetyInv, OpenInv, [Next]_vars, NEW p \in Procs, RecordSignature(p)
  PROVE  OpenInv'
<1>1. CASE attempt[row[p]].status # "authorized"
  <2>1. UNCHANGED <<attempt, intent>> /\ Finish(p)
    BY <1>1 DEF RecordSignature
  <2> QED
    BY <2>1, FinishOthers, InvLocals, OpenFrame
<1>2. CASE attempt[row[p]].status = "authorized"
  <2>1. PICK a \in Attempts : a = row[p]
    BY InvLocals DEF RecordSignature, Handler
  <2>0. attempt[a].intent = on[p] /\ tx[p] \in Msgs /\ tx[p] # None
    BY <2>1, InvLocals, ConstantsAssumption DEF RecordSignature, Handler
  <2>2. Others(p) /\ pc'[p] = "settle" /\ on'[p] = on[p]
    BY <1>2, GotoOthers, InvLocals DEF RecordSignature
  <2>3. /\ attempt'[a].intent = on[p] /\ attempt'[a].sig = tx[p]
        /\ attempt'[a].status = "settling"
        /\ \A b \in Attempts \ {a} : attempt'[b] = attempt[b]
    BY <1>2, <2>0, <2>1 DEF RecordSignature, SafetyInv, TypeInv, TypeOK, TablesOK, AttemptRows
  <2>4. RowOpen(a)'
    BY <2>0, <2>3 DEF RowOpen
  <2> QED
    BY <2>0, <2>2, <2>3, <2>4, RowMoves DEF RecordSignature
<1> QED
  BY <1>1, <1>2

LEMMA ClaimOpen ==
  ASSUME SafetyInv, OpenInv, [Next]_vars, NEW p \in Procs, NEW s, NEW label, Claim(p, s, label),
         label # "settle", tx[p] \in Msgs,
         s = "succeeded" \/ (s = "failed" /\ Dead(tx[p]))
  PROVE  OpenInv'
<1>1. Others(p) /\ pc'[p] # "settle" /\ tx[p] # None
  BY FinishOthers, GotoOthers, InvLocals, ConstantsAssumption DEF Claim
<1>2. CASE UNCHANGED attempt
  BY <1>1, <1>2, OpenFrame DEF Claim
<1>3. CASE ~UNCHANGED attempt
  <2>1. attempt' = [a \in Attempts |-> IF a \in Claimable(tx[p])
                      THEN [attempt[a] EXCEPT !.status = s] ELSE attempt[a]]
    BY <1>3 DEF Claim
  <2>2. attempt \in [Attempts -> AttemptRows] /\ Claimable(tx[p]) \in SUBSET Attempts
    BY DEF SafetyInv, TypeInv, TypeOK, TablesOK, Claimable
  <2>3. /\ \A a \in Claimable(tx[p]) :
              /\ attempt'[a].intent = attempt[a].intent /\ attempt'[a].msg = attempt[a].msg
              /\ attempt'[a].sig = tx[p] /\ attempt'[a].status = s
        /\ \A a \in Attempts \ Claimable(tx[p]) : attempt'[a] = attempt[a]
    BY <2>1, <2>2 DEF AttemptRows, Claimable
  <2>4. \A a \in Claimable(tx[p]) : attempt[a].msg = tx[p]
    BY DEF Claimable, SafetyInv, PinInv, RowPinned
  <2>5. UNCHANGED <<chain, stale>>
    BY DEF Claim
  <2>6. \A a \in Claimable(tx[p]) : RowOpen(a)'
    BY <1>1, <2>2, <2>3, <2>4, <2>5 DEF RowOpen, Dead
  <2> QED
    BY <1>1, <2>2, <2>3, <2>6, RowsMove DEF Claim
<1> QED
  BY <1>2, <1>3

LEMMA ReapOpen ==
  ASSUME SafetyInv, OpenInv, [Next]_vars, NEW p \in Procs, Reap(p)
  PROVE  OpenInv'
<1>1. Others(p) /\ pc'[p] # "settle"
  BY FinishOthers, GotoOthers, InvLocals DEF Reap
<1>2. CASE ~StillAsSelected(p)
  BY <1>1, <1>2, OpenFrame DEF Reap
<1>3. CASE StillAsSelected(p)
  <2>1. PICK a \in Attempts : a = row[p] /\ attempt[a].status = "authorized"
    BY <1>3, InvLocals DEF Reap, Handler, StillAsSelected
  <2>2. /\ attempt'[a].intent = attempt[a].intent
        /\ attempt'[a].msg = attempt[a].msg
        /\ attempt'[a].sig = attempt[a].sig
        /\ attempt'[a].status = "failed"
        /\ \A b \in Attempts \ {a} : attempt'[b] = attempt[b]
    <3>1. attempt' = [attempt EXCEPT ![a].status = "failed"]
      BY <1>3, <2>1 DEF Reap
    <3>2. attempt \in [Attempts -> AttemptRows]
      BY DEF SafetyInv, TypeInv, TypeOK, TablesOK
    <3> QED
      BY <2>1, <3>1, <3>2 DEF AttemptRows
  <2>3. RowOpen(a)'
    BY <2>1, <2>2 DEF RowOpen, OpenInv, Reap
  <2> QED
    BY <1>1, <2>1, <2>2, <2>3, RowMoves DEF Reap
<1> QED
  BY <1>2, <1>3

\* An intent that settles or ends has no live row that still waits.
LEMMA IntentOpen ==
  ASSUME SafetyInv, OpenInv, [Next]_vars, NEW p \in Procs, Others(p), pc'[p] # "settle",
         UNCHANGED attempt, NEW i \in Intents, NEW to, SetStatus(i, to),
         \/ intent[i] # "authorized"
         \/ i \in TestIntents
         \/ \A a \in Attempts : attempt[a].intent = i =>
              attempt[a].sig # None \/ (attempt[a].status # "authorized" /\ attempt[a].msg = None)
  PROVE  OpenInv'
<1>1. \A j \in Intents \ {i} : intent'[j] = intent[j]
  BY DEF SetStatus, SafetyInv, TypeInv, TypeOK, TablesOK
<1>2. \A a \in Attempts :
        attempt[a].intent = i /\ i \in LiveIntents /\ attempt[a].sig = None
          => attempt[a].status # "authorized" /\ attempt[a].msg = None
  BY DEF OpenInv, RowOpen, LiveIntents
<1>3. PICK S \in SUBSET Intents : S = {i}
  OBVIOUS
<1>4. /\ \A j \in Intents \ S : intent'[j] = intent[j]
      /\ \A a \in Attempts :
           attempt[a].intent \in S /\ attempt[a].intent \in LiveIntents /\ attempt[a].sig = None
             => attempt[a].status # "authorized" /\ attempt[a].msg = None
  BY <1>1, <1>2, <1>3
<1> QED
  BY <1>4, IntentMoves

LEMMA SettleOpen ==
  ASSUME SafetyInv, OpenInv, [Next]_vars, NEW p \in Procs, SettleIntent(p)
  PROVE  OpenInv'
<1>1. on[p] \in Intents /\ Following(p) /\ UNCHANGED attempt
  BY InvLocals DEF SettleIntent, OpenInv
<1>2. \A a \in Attempts : attempt[a].intent = on[p] =>
        attempt[a].sig # None \/ (attempt[a].status # "authorized" /\ attempt[a].msg = None)
  <2>1. PICK b \in Attempts : attempt[b].intent = on[p] /\ attempt[b].sig # None
    BY <1>1 DEF Following, SettleIntent
  <2>2. \A a \in Attempts : attempt[a].intent = on[p] => a = b
    <3>1. on[p] # None
      BY <1>1, ConstantsAssumption
    <3>2. AttemptInv
      BY DEF SafetyInv
    <3> QED
      BY <2>1, <3>1, <3>2 DEF AttemptInv
  <2> QED
    BY <2>1, <2>2
<1>3. Others(p) /\ pc'[p] # "settle"
  BY FinishOthers, GotoOthers, InvLocals DEF SettleIntent
<1>4. CASE UNCHANGED intent
  BY <1>1, <1>3, <1>4, OpenFrame
<1>5. CASE SetStatus(on[p], "settling")
  BY <1>1, <1>2, <1>3, <1>5, IntentOpen
<1> QED
  BY <1>4, <1>5 DEF SettleIntent

LEMMA AbandonOpen ==
  ASSUME SafetyInv, OpenInv, [Next]_vars, NEW p \in Procs, AbandonIntent(p)
  PROVE  OpenInv'
<1>1. on[p] \in Intents /\ UNCHANGED attempt
  BY InvLocals DEF AbandonIntent
<1>2. \A a \in Attempts : attempt[a].intent = on[p] =>
        attempt[a].status # "authorized" /\ attempt[a].msg = None
  BY InvLocals DEF AbandonIntent, Handler
<1>3. Others(p) /\ pc'[p] # "settle"
  BY FinishOthers, GotoOthers, InvLocals DEF AbandonIntent
<1>4. CASE UNCHANGED intent
  BY <1>1, <1>3, <1>4, OpenFrame
<1>5. CASE SetStatus(on[p], "failed")
  BY <1>1, <1>2, <1>3, <1>5, IntentOpen
<1> QED
  BY <1>4, <1>5 DEF AbandonIntent

\* The handlers that gate their UPDATE of an intent on another status.
LEMMA GatedOpen ==
  ASSUME SafetyInv, OpenInv, [Next]_vars, NEW p \in Procs,
         \/ ExpireOnRead(p) \/ SettleSimulated(p) \/ FinalizeIntent(p) \/ FailIntent(p)
  PROVE  OpenInv'
<1>1. on[p] \in Intents /\ UNCHANGED attempt
  BY InvLocals DEF ExpireOnRead, SettleSimulated, FinalizeIntent, FailIntent
<1>2. Others(p) /\ pc'[p] # "settle"
  <2>1. CASE ExpireOnRead(p)
    BY <2>1, FinishOthers, InvLocals DEF ExpireOnRead, LocalsOK, Others, Untouched
  <2> QED
    BY <2>1, FinishOthers, GotoOthers, InvLocals DEF SettleSimulated, FinalizeIntent, FailIntent
<1>3. CASE UNCHANGED intent
  BY <1>1, <1>2, <1>3, OpenFrame
<1>4. ASSUME NEW to, SetStatus(on[p], to),
             intent[on[p]] # "authorized" \/ on[p] \in TestIntents
      PROVE  OpenInv'
  BY <1>1, <1>2, <1>4, IntentOpen
<1>5. CASE SettleSimulated(p)
  <2>1. on[p] \in TestIntents
    BY <1>5, InvLocals DEF SettleSimulated, Handler
  <2> QED
    BY <1>3, <1>4, <1>5, <2>1 DEF SettleSimulated
<1> QED
  BY <1>3, <1>4, <1>5 DEF ExpireOnRead, FinalizeIntent, FailIntent, IsAt

LEMMA ExpireStaleOpen ==
  ASSUME SafetyInv, OpenInv, [Next]_vars, NEW w \in Procs, ExpireStale(w)
  PROVE  OpenInv'
<1>1. Others(w) /\ pc'[w] # "settle" /\ UNCHANGED attempt
  BY InvLocals DEF ExpireStale, LocalsOK, Others, Untouched
<1>2. Overdue \in SUBSET Intents /\ \A i \in Intents \ Overdue : intent'[i] = intent[i]
  BY DEF ExpireStale, Overdue, SafetyInv, TypeInv, TypeOK, TablesOK
<1>3. \A a \in Attempts : attempt[a].intent \in Overdue /\ attempt[a].intent \in LiveIntents
        /\ attempt[a].sig = None => attempt[a].status # "authorized" /\ attempt[a].msg = None
  BY DEF Overdue, OpenInv, RowOpen
<1> QED
  BY <1>1, <1>2, <1>3, IntentMoves

LEMMA OpenInvStep == SafetyInv /\ OpenInv /\ [Next]_vars => OpenInv'
<1> SUFFICES ASSUME SafetyInv, OpenInv, [Next]_vars PROVE OpenInv'
  OBVIOUS
<1> LocalsOK
  BY InvLocals
<1>quiet. ASSUME NEW p \in Procs, UNCHANGED <<attempt, intent>>, NEW label,
                 \/ Finish(p)
                 \/ Goto(p, label) /\ label # "settle"
          PROVE  OpenInv'
  <2>1. Others(p) /\ pc'[p] # "settle"
    BY <1>quiet, FinishOthers, GotoOthers
  <2> QED
    BY <1>quiet, <2>1, OpenFrame
<1>1. CASE Begins
  <2> Requests \subseteq Procs /\ Workers \subseteq Procs
    BY DEF Procs
  <2>1. ASSUME NEW w \in Workers, ExpireStale(w) PROVE OpenInv'
    BY <2>1, ExpireStaleOpen
  <2>2. ASSUME NEW r \in Requests, NEW i \in Intents, Authorize(r, i) PROVE OpenInv'
    BY <2>2, BeginOthers, OpenFrame DEF Authorize
  <2>3. ASSUME NEW r \in Requests, NEW i \in Intents, NEW m \in Msgs, Submit(r, i, m)
        PROVE  OpenInv'
    BY <2>3, BeginOthers, OpenFrame DEF Submit
  <2>4. ASSUME NEW w \in Workers, NEW a \in Attempts,
               Sweep(w, a) \/ Resume(w, a) \/ ReapSelect(w, a)
        PROVE  OpenInv'
    <3>1. Others(w) /\ pc'[w] # "settle"
      BY <2>4, BeginOthers DEF Sweep, Resume, ReapSelect
    <3> QED
      BY <2>4, <3>1, OpenFrame DEF Sweep, Resume, ReapSelect
  <2> QED
    BY <1>1, <2>1, <2>2, <2>3, <2>4 DEF Begins
<1>2. ASSUME NEW p \in Procs, AuthorizeStep(p) PROVE OpenInv'
  BY <1>2, <1>quiet, GatedOpen, CommitOpen, PinOpen, RetireOpen
  DEF AuthorizeStep, RollBackAuthorization, TellAuthorized
<1>3. ASSUME NEW p \in Procs, SubmitStep(p) PROVE OpenInv'
  BY <1>3, <1>quiet, RecordOpen, SettleOpen DEF SubmitStep, Broadcast, Poll
<1>4. ASSUME NEW p \in Procs, FinalizeStep(p) PROVE OpenInv'
  <2>1. CASE ClaimSucceeded(p)
    <3>1. tx[p] \in Msgs /\ Claim(p, "succeeded", "complete")
      BY <2>1, InvLocals DEF ClaimSucceeded, Handler
    <3> QED
      BY <3>1, ClaimOpen
  <2>3. CASE ClaimFailed(p)
    <3>1. tx[p] \in Msgs /\ Dead(tx[p]) /\ Claim(p, "failed", "failIntent")
      BY <2>3, InvLocals DEF ClaimFailed, Handler
    <3> QED
      BY <3>1, ClaimOpen
  <2>2. CASE TellExpired(p)
    <3>1. Others(p) /\ pc'[p] # "settle"
      BY <2>2, FinishOthers DEF TellExpired, LocalsOK, Others, Untouched
    <3> QED
      BY <2>2, <3>1, OpenFrame DEF TellExpired
  <2> QED
    BY <1>4, <1>quiet, <2>1, <2>2, <2>3, GatedOpen, AbandonOpen DEF FinalizeStep, Complete, RefuseCompletion, TellOutcome
<1>5. ASSUME NEW p \in Procs, TakeLock(p) \/ Fail(p) PROVE OpenInv'
  <2>1. CASE EnterSubmit(p)
    <3>1. Others(p) /\ pc'[p] # "settle"
      BY <2>1, FinishOthers DEF EnterSubmit, LocalsOK, Others, Untouched
    <3> QED
      BY <2>1, <3>1, OpenFrame DEF EnterSubmit
  <2> QED
    BY <1>5, <1>quiet, <2>1, ReapOpen DEF TakeLock, Fail
<1>6. CASE Environment \/ UNCHANGED vars
  <2>1. UNCHANGED <<attempt, intent, pc, on>>
    BY <1>6 DEF Environment, vars, ComesDue, Provision, Land, BlockhashExpires, GrowsOld
  <2>2. \A a \in Attempts : RowOpen(a)'
    BY <2>1, RowStaysOpen DEF OpenInv
  <2> QED
    BY <2>1, <2>2 DEF OpenInv, Following
<1> QED
  BY <1>1, <1>2, <1>3, <1>4, <1>5, <1>6 DEF Next, Step

\* A Spend that landed stays visible in the rows, whoever fails where: its row
\* still settles, settled, or waits for ops with the intent authorized.
THEOREM MoneyStaysOpen == Spec => []MovedMoneyStaysOpen
<1>1. Init => OpenInv
  BY DEF Init, OpenInv, RowOpen, Following, NoRow
<1>2. SafetyInv /\ OpenInv => MovedMoneyStaysOpen
  <2> SUFFICES ASSUME SafetyInv, OpenInv, NEW a \in Attempts,
                      attempt[a].msg # None, chain[attempt[a].msg] = "landed",
                      attempt[a].status \notin {"authorized", "settling", "succeeded"}
               PROVE  attempt[a].sig = None /\ intent[attempt[a].intent] = "authorized"
    BY DEF MovedMoneyStaysOpen
  <2>1. attempt[a].status = "failed"
    BY DEF SafetyInv, TypeInv, TypeOK, TablesOK, RowsInv, NoRow, AttemptRows, AttemptStatuses
  <2>2. ~Dead(attempt[a].msg)
    BY DEF Dead
  <2> QED
    BY <2>1, <2>2 DEF OpenInv, RowOpen, SafetyInv, PinInv, RowPinned
<1> QED
  BY <1>1, <1>2, OpenInvStep, SafetyHolds, PTL DEF Spec

-----------------------------------------------------------------------------
(* PaymentLifecycle implements PaymentPromise: every step of a handler, a     *)
(* cron or the cluster moves money, decides an ending, announces one, or is   *)
(* invisible.                                                                 *)

\* Money moves in no other step than the one that lands a message.
MoneyUnmoved == \A i \in Intents : Moved(i)' <=> Moved(i)

\* No intent ends.
NothingEnds == \A i \in Intents : intent'[i] = intent[i] \/ {intent'[i], intent[i]} \cap Endings = {}

LEMMA OnlyLandingMoves ==
  ASSUME SafetyInv, [Next]_vars, \A m \in Msgs : ~Land(m)
  PROVE  MoneyUnmoved
<1> DEFINE Same == /\ \A m \in Msgs : chain'[m] = "landed" <=> chain[m] = "landed"
                   /\ \A m \in Msgs : chain[m] = "landed" => spendOf'[m] = spendOf[m]
<1> SUFFICES Same
  BY DEF MoneyUnmoved, Moved
<1> /\ chain \in [Msgs -> ChainStatuses] /\ spendOf \in [Msgs -> Intents \cup {None}]
    /\ \A m \in Msgs : chain[m] # "unsent" => spendOf[m] # None
  BY DEF SafetyInv, TypeInv, TypeOK, OutsideOK, SpendInv
<1>1. CASE Begins \/ Environment \/ UNCHANGED vars
  BY <1>1 DEF Begins, Environment, vars, Authorize, Submit, ExpireStale, Sweep, Resume,
              ReapSelect, ComesDue, Provision, BlockhashExpires, GrowsOld
<1>2. ASSUME NEW p \in Procs, AuthorizeStep(p) PROVE Same
  <2>1. CASE Pin(p)
    BY <2>1 DEF Pin
  <2> QED
    BY <1>2, <2>1 DEF AuthorizeStep, ExpireOnRead, CommitAuthorization, RollBackAuthorization,
                      TellAuthorized, RetireSimulated, SettleSimulated
<1>3. ASSUME NEW p \in Procs, SubmitStep(p) PROVE Same
  <2>1. CASE Broadcast(p)
    BY <2>1 DEF Broadcast
  <2> QED
    BY <1>3, <2>1 DEF SubmitStep, RecordSignature, SettleIntent, Poll
<1>4. ASSUME NEW p \in Procs, FinalizeStep(p) PROVE Same
  BY <1>4 DEF FinalizeStep, ClaimSucceeded, ClaimFailed, Claim, Complete, RefuseCompletion, FinalizeIntent,
              FailIntent, AbandonIntent, TellOutcome, TellExpired
<1>5. ASSUME NEW p \in Procs, TakeLock(p) \/ Fail(p) PROVE Same
  BY <1>5 DEF TakeLock, EnterSubmit, Reap, Fail
<1> QED
  BY <1>1, <1>2, <1>3, <1>4, <1>5 DEF Next, Step

LEMMA Invisible ==
  ASSUME MoneyUnmoved, NothingEnds, EndingsUntold
  PROVE  UNCHANGED Promise!promise
<1>1. UNCHANGED [i \in Intents |-> IF intent[i] \in {"succeeded", "failed", "expired"}
                                    THEN intent[i] ELSE "open"]
  BY DEF NothingEnds, Endings
<1>2. UNCHANGED {i \in Intents : Moved(i)}
  BY DEF MoneyUnmoved
<1>3. UNCHANGED [i \in Intents |-> [e \in {"succeeded", "failed", "expired"} |-> told[i][e]]]
  BY DEF EndingsUntold
<1> QED
  BY <1>1, <1>2, <1>3 DEF Promise!promise

\* An ending is decided for S: its intents were open, and it is true of them.
LEMMA Decides ==
  ASSUME SafetyInv, SafetyInv', MoneyUnmoved, EndingsUntold,
         NEW S \in SUBSET Intents, NEW e \in Endings,
         \A i \in S : intent[i] \notin Endings /\ intent'[i] = e,
         \A i \in Intents \ S : intent'[i] = intent[i]
  PROVE  Promise!Decide(S, e)
<1>1. ASSUME e = "succeeded", NEW i \in S \cap LiveIntents PROVE Moved(i)
  <2>1. SuccessIsBacked'
    BY SucceededLanded, PTL
  <2>2. i \in LiveIntents /\ i \in Intents /\ intent'[i] = "succeeded"
    BY <1>1
  <2>3. Moved(i)'
    BY <2>1, <2>2 DEF SuccessIsBacked, Moved
  <2> QED
    BY <2>2, <2>3 DEF MoneyUnmoved
<1>2. ASSUME e # "succeeded", NEW i \in S PROVE ~Moved(i)
  <2>1. FailureIsHonest'
    BY ClosedUnmoved, PTL
  <2>2. Closed(i)'
    BY <1>2 DEF Closed, Endings
  <2>3. ~Moved(i)'
    BY <2>1, <2>2 DEF FailureIsHonest
  <2> QED
    BY <2>3 DEF MoneyUnmoved
<1>3. UNCHANGED {i \in Intents : Moved(i)}
  BY DEF MoneyUnmoved
<1>4. UNCHANGED [i \in Intents |-> [f \in {"succeeded", "failed", "expired"} |-> told[i][f]]]
  BY DEF EndingsUntold
<1>5. [i \in Intents |-> IF intent[i] \in {"succeeded", "failed", "expired"}
                          THEN intent[i] ELSE "open"]'
      = [i \in Intents |-> IF i \in S THEN e
           ELSE [j \in Intents |-> IF intent[j] \in {"succeeded", "failed", "expired"}
                                    THEN intent[j] ELSE "open"][i]]
  BY DEF Endings
<1> QED
  BY <1>1, <1>2, <1>3, <1>4, <1>5 DEF Promise!Decide, Endings

LEMMA LandMoves ==
  ASSUME SafetyInv, SafetyInv', NEW m \in Msgs, Land(m)
  PROVE  Promise!MoveMoney(spendOf[m]) \/ UNCHANGED Promise!promise
<1>1. chain \in [Msgs -> ChainStatuses] /\ UNCHANGED <<intent, told, spendOf>> /\ chain[m] = "sent"
  BY DEF Land, SafetyInv, TypeInv, TypeOK, OutsideOK
<1>2. CASE chain' = [chain EXCEPT ![m] = "err"]
  <2>1. MoneyUnmoved
    BY <1>1, <1>2 DEF MoneyUnmoved, Moved
  <2> QED
    BY <1>1, <2>1, Invisible DEF NothingEnds, EndingsUntold
<1>3. CASE chain' = [chain EXCEPT ![m] = "landed"]
  <2>1. PICK i \in Intents : i = spendOf[m]
    BY <1>1 DEF SafetyInv, SpendInv, TypeInv, TypeOK, OutsideOK
  <2>2. \A n \in Msgs : spendOf[n] = i => n = m
    BY <2>1, OneSpend, ConstantsAssumption DEF SingleSpend
  <2>3. ~Moved(i) /\ Moved(i)'
    BY <1>1, <1>3, <2>1, <2>2 DEF Moved
  <2>4. \A j \in Intents \ {i} : Moved(j)' <=> Moved(j)
    BY <1>1, <1>3, <2>1 DEF Moved
  <2>5. {j \in Intents : Moved(j)}' = {j \in Intents : Moved(j)} \cup {i}
    BY <2>3, <2>4
  <2>6. intent[i] \notin Endings
    <3>1. FailureIsHonest'
      BY ClosedUnmoved, PTL
    <3>2. ~Closed(i)
      BY <1>1, <2>3, <3>1 DEF FailureIsHonest, Closed
    <3>3. i \in LiveIntents
      BY <1>1, <2>1, ConstantsAssumption DEF SafetyInv, SpendInv, PinInv, RowPinned
    <3>4. intent[i] # "succeeded"
      BY <2>3, <3>3, SucceededLanded DEF SuccessIsBacked, Moved
    <3> QED
      BY <3>2, <3>4 DEF Closed, Endings
  <2> QED
    BY <1>1, <2>1, <2>3, <2>5, <2>6 DEF Promise!MoveMoney, Endings
<1> QED
  BY <1>2, <1>3 DEF Land

LEMMA Announces ==
  ASSUME SafetyInv, ToldInv, MoneyUnmoved, UNCHANGED intent,
         NEW p \in Procs, NEW i \in Intents, Tells(p, i), Publish(i, intent[i])
  PROVE  Promise!Announce(i)
<1>1. intent[i] \in Endings /\ \A e \in Endings : told[i][e] = 0
  BY TellerKnowsTheEnding DEF ToldInv, TellerInv
<1>2. told \in [Intents -> [Topics -> Nat]] /\ Endings \subseteq Topics
  BY DEF SafetyInv, TypeInv, TypeOK, Endings, Topics
<1> DEFINE ending == [j \in Intents |-> IF intent[j] \in {"succeeded", "failed", "expired"}
                                         THEN intent[j] ELSE "open"]
           heard == [j \in Intents |-> [e \in {"succeeded", "failed", "expired"} |-> told[j][e]]]
<1>3. heard' = [heard EXCEPT ![i][ending[i]] = 1]
  <2>1. ending[i] = intent[i] /\ intent[i] \in Endings
    BY <1>1 DEF Endings
  <2>2. \A j \in Intents, e \in Endings :
          told'[j][e] = IF j = i /\ e = intent[i] THEN 1 ELSE told[j][e]
    BY <1>1, <1>2 DEF Publish
  <2>3. \A j \in Intents, e \in Endings :
          [heard EXCEPT ![i][intent[i]] = 1][j][e]
            = IF j = i /\ e = intent[i] THEN 1 ELSE told[j][e]
    BY <2>1 DEF Endings
  <2>4. /\ heard' = [j \in Intents |-> [e \in Endings |-> told'[j][e]]]
        /\ [heard EXCEPT ![i][intent[i]] = 1]
           = [j \in Intents |-> [e \in Endings |-> [heard EXCEPT ![i][intent[i]] = 1][j][e]]]
    BY <2>1 DEF Endings
  <2>5. [j \in Intents |-> [e \in Endings |-> told'[j][e]]]
        = [j \in Intents |-> [e \in Endings |-> [heard EXCEPT ![i][intent[i]] = 1][j][e]]]
    <3> HIDE DEF heard
    <3>1. \A j \in Intents, e \in Endings :
            told'[j][e] = [heard EXCEPT ![i][intent[i]] = 1][j][e]
      BY <2>2, <2>3
    <3> QED
      BY <3>1
  <2> HIDE DEF heard, ending
  <2> QED
    BY <2>1, <2>4, <2>5
<1>4. UNCHANGED {j \in Intents : Moved(j)}
  BY DEF MoneyUnmoved
<1>5. UNCHANGED ending
  OBVIOUS
<1>6. ending[i] # "open" /\ \A e \in {"succeeded", "failed", "expired"} : heard[i][e] = 0
  BY <1>1 DEF Endings
<1>7. ending[i] # "open"
      /\ (\A e \in {"succeeded", "failed", "expired"} : heard[i][e] = 0)
      /\ heard' = [heard EXCEPT ![i][ending[i]] = 1]
      /\ UNCHANGED ending /\ UNCHANGED {j \in Intents : Moved(j)}
  BY <1>3, <1>4, <1>5, <1>6
<1> QED
  BY <1>7, Zenon DEF Promise!Announce, Promise!Endings

\* The steps that announce nothing, and end nothing.
LEMMA PromiseStep ==
  ASSUME SafetyInv, SafetyInv', ToldInv, [Next]_vars
  PROVE  [Promise!Next]_(Promise!promise)
<1> DEFINE Kept == UNCHANGED Promise!promise
           Done == Kept \/ Promise!Next
<1> SUFFICES Done
  BY Zenon
<1> LocalsOK /\ intent \in [Intents -> IntentStatuses]
  BY DEF SafetyInv, TypeInv, TypeOK, TablesOK
<1>1. ASSUME NEW m \in Msgs, Land(m) PROVE Done
  <2>1. spendOf[m] \in Intents
    BY <1>1, ConstantsAssumption DEF Land, SafetyInv, SpendInv, TypeInv, TypeOK, OutsideOK
  <2> QED
    BY <1>1, <2>1, LandMoves DEF Promise!Next
<1>2. CASE \A m \in Msgs : ~Land(m)
  <2>1. MoneyUnmoved
    BY <1>2, OnlyLandingMoves
  <2>quiet. ASSUME NothingEnds, UNCHANGED told PROVE Done
    BY <2>1, <2>quiet, Invisible, ToldUnchanged
  <2>ends. ASSUME NEW S \in SUBSET Intents, NEW e \in Endings, UNCHANGED told,
                  \A i \in S : intent[i] \notin Endings /\ intent'[i] = e,
                  \A i \in Intents \ S : intent'[i] = intent[i]
           PROVE  Done
    <3>1. Promise!Decide(S, e)
      BY <2>1, <2>ends, Decides, ToldUnchanged
    <3> QED
      BY <3>1 DEF Promise!Next, Promise!Endings, Endings
  <2>moves. ASSUME NEW i \in Intents, NEW to \in IntentStatuses, UNCHANGED told,
                   SetStatus(i, to), intent[i] \notin Endings
            PROVE  Done
    <3>1. CASE to \in Endings
      <4>1. PICK S \in SUBSET Intents : S = {i}
        OBVIOUS
      <4> QED
        BY <2>ends, <2>moves, <3>1, <4>1 DEF SetStatus
    <3>2. CASE to \notin Endings
      BY <2>quiet, <2>moves, <3>2 DEF SetStatus, NothingEnds
    <3> QED
      BY <3>1, <3>2
  <2>same. ASSUME UNCHANGED <<intent, told>> PROVE Done
    BY <2>quiet, <2>same DEF NothingEnds
  <2>tells. ASSUME UNCHANGED intent, NEW p \in Procs, NEW i \in Intents, Tells(p, i),
                   Publish(i, intent[i])
            PROVE  Done
    <3>1. Promise!Announce(i)
      BY <2>1, <2>tells, Announces
    <3> QED
      BY <3>1 DEF Promise!Next
  <2>on. \A p \in Procs : /\ pc[p] \notin {"idle", "tellExpired"} => on[p] \in Intents
                          /\ Handler(p)
    BY InvLocals
  <2>2. CASE Begins
    <3>1. ASSUME NEW w \in Workers, ExpireStale(w) PROVE Done
      <4>1. Overdue \in SUBSET Intents /\ "expired" \in Endings
        BY DEF Overdue, Endings, SafetyInv, TypeInv, TypeOK, TablesOK
      <4>2. \A i \in Overdue : intent[i] \notin Endings /\ intent'[i] = "expired"
        BY <3>1, <4>1 DEF ExpireStale, Overdue, Endings
      <4>3. UNCHANGED told /\ \A i \in Intents \ Overdue : intent'[i] = intent[i]
        BY <3>1, <4>1 DEF ExpireStale
      <4> QED
        BY <2>ends, <4>1, <4>2, <4>3
    <3> QED
      BY <2>2, <2>same, <3>1 DEF Begins, Authorize, Submit, Sweep, Resume, ReapSelect
  <2>3. ASSUME NEW p \in Procs, AuthorizeStep(p) PROVE Done
    <3>1. CASE TellAuthorized(p)
      BY <2>1, <3>1, Invisible
      DEF TellAuthorized, Publish, NothingEnds, EndingsUntold, SafetyInv, TypeInv, TypeOK, Topics
    <3>2. CASE ExpireOnRead(p)
      BY <2>same, <2>moves, <2>on, <3>2 DEF ExpireOnRead, IsAt, Endings, IntentStatuses
    <3>3. CASE CommitAuthorization(p)
      BY <2>moves, <2>on, <3>3 DEF CommitAuthorization, CanAuthorize, IsAt, Endings, IntentStatuses
    <3>4. CASE SettleSimulated(p)
      BY <2>same, <2>moves, <2>on, <3>4 DEF SettleSimulated, IsAt, Endings, IntentStatuses
    <3> QED
      BY <2>3, <2>same, <3>1, <3>2, <3>3, <3>4
      DEF AuthorizeStep, RollBackAuthorization, Pin, RetireSimulated
  <2>4. ASSUME NEW p \in Procs, SubmitStep(p) PROVE Done
    <3>1. CASE SettleIntent(p)
      BY <2>same, <2>moves, <2>on, <3>1 DEF SettleIntent, IsAt, Endings, IntentStatuses
    <3> QED
      BY <2>4, <2>same, <3>1 DEF SubmitStep, Broadcast, RecordSignature, Poll
  <2>5. ASSUME NEW p \in Procs, FinalizeStep(p) PROVE Done
    <3>1. CASE FinalizeIntent(p)
      BY <2>same, <2>moves, <2>on, <3>1 DEF FinalizeIntent, IsAt, Endings, IntentStatuses
    <3>2. CASE FailIntent(p)
      BY <2>same, <2>moves, <2>on, <3>2 DEF FailIntent, IsAt, Endings, IntentStatuses
    <3>3. CASE AbandonIntent(p)
      BY <2>same, <2>moves, <2>on, <3>3 DEF AbandonIntent, IsAt, Endings, IntentStatuses
    <3>4. CASE TellOutcome(p)
      <4>1. PICK i \in Intents : i = on[p]
        BY <2>on, <3>4 DEF TellOutcome
      <4>2. Tells(p, i) /\ UNCHANGED intent
        BY <3>4, <4>1 DEF TellOutcome, Tells
      <4>3. Publish(i, intent[i])
        <5>1. CASE pc[p] = "tellSucceeded"
          BY <2>on, <3>4, <4>1, <5>1 DEF TellOutcome, Handler, Publish
        <5>2. CASE pc[p] = "tellFailed"
          BY <2>on, <3>4, <4>1, <5>2 DEF TellOutcome, Handler, Publish
        <5> QED
          BY <3>4, <5>1, <5>2 DEF TellOutcome
      <4> QED
        BY <2>tells, <4>2, <4>3
    <3>5. CASE TellExpired(p)
      <4>1. PICK i \in batch[p] : Publish(i, "expired")
        BY <3>5 DEF TellExpired
      <4>2. i \in Intents /\ Tells(p, i) /\ intent[i] = "expired" /\ UNCHANGED intent
        BY <2>on, <3>5 DEF TellExpired, Tells, LocalsOK, Handler
      <4> QED
        BY <2>tells, <4>1, <4>2
    <3> QED
      BY <2>5, <2>same, <3>1, <3>2, <3>3, <3>4, <3>5
      DEF FinalizeStep, ClaimSucceeded, ClaimFailed, Claim, Complete, RefuseCompletion
  <2>6. ASSUME NEW p \in Procs, TakeLock(p) \/ Fail(p) PROVE Done
    BY <2>6, <2>same DEF TakeLock, EnterSubmit, Reap, Fail
  <2>7. CASE Environment \/ UNCHANGED vars
    BY <1>2, <2>7, <2>same DEF Environment, vars, ComesDue, Provision, BlockhashExpires, GrowsOld
  <2> QED
    BY <2>2, <2>3, <2>4, <2>5, <2>6, <2>7 DEF Next, Step
<1> QED
  BY <1>1, <1>2

\* Attempts, locks, claims, sweeps, crashes and the cluster together keep the
\* promise: money moves once and while the Payment is open, its ending is final
\* and true of the chain, and announced once.
THEOREM PromiseKept == Spec => KeepsPromise
<1>1. Init => Promise!Init
  <2> SUFFICES ASSUME Init PROVE Promise!Init
    OBVIOUS
  <2>1. {i \in Intents : Moved(i)} = {}
    BY DEF Init, Moved
  <2> QED
    BY <2>1 DEF Init, Promise!Init, Promise!Endings, Topics
<1>2. SafetyInv /\ SafetyInv' /\ ToldInv /\ [Next]_vars => [Promise!Next]_(Promise!promise)
  BY PromiseStep
<1> QED
  BY <1>1, <1>2, ToldHolds, PTL DEF Spec, KeepsPromise, Promise!Spec

=============================================================================
