----------------------- MODULE PaymentLifecycleProofs -----------------------
(***************************************************************************)
(* The safety of PaymentLifecycle, for any number of intents, attempts,    *)
(* messages, requests and workers, any cap and any number of failures.     *)
(***************************************************************************)
EXTENDS PaymentInvariant, TLAPS

USE DEF tables, outside, locals

LEMMA GotoLocals ==
  ASSUME LocalsInv, NEW p \in Procs, NEW label \in PCs, Goto(p, label),
         label \in {"idle", "tellExpired"} \/ on[p] \in Intents
  PROVE  LocalsInv'
  BY DEF LocalsInv, LocalsOK, Goto

LEMMA BeginLocals ==
  ASSUME LocalsInv, NEW p \in Procs, NEW label \in PCs, NEW i \in Intents,
         NEW a \in Attempts \cup {None}, NEW s \in Signatures \cup {None},
         Begin(p, label, i, a, s)
  PROVE  LocalsInv'
  BY DEF LocalsInv, LocalsOK, Begin

LEMMA FinishLocals ==
  ASSUME LocalsInv, NEW p \in Procs, Finish(p)
  PROVE  LocalsInv'
  BY DEF LocalsInv, LocalsOK, Finish, PCs

LEMMA LocalsUnchanged ==
  ASSUME LocalsInv, UNCHANGED locals
  PROVE  LocalsInv'
  BY DEF LocalsInv, LocalsOK

LEMMA UnlockType ==
  ASSUME locked \in [Intents -> Procs \cup {None}], NEW p, Unlock(p)
  PROVE  locked' \in [Intents -> Procs \cup {None}]
  BY DEF Unlock

LEMMA PublishType ==
  ASSUME told \in [Intents -> [Topics -> Nat]], NEW i \in Intents,
         NEW t \in Topics, Publish(i, t)
  PROVE  told' \in [Intents -> [Topics -> Nat]]
  BY DEF Publish

LEMMA SetStatusType ==
  ASSUME intent \in [Intents -> IntentStatuses], NEW i, NEW to \in IntentStatuses,
         SetStatus(i, to)
  PROVE  intent' \in [Intents -> IntentStatuses]
  BY DEF SetStatus

\* The UPDATEs of a row: its pin, its status, or its status and signature.
LEMMA PinRow ==
  ASSUME attempt \in [Attempts -> AttemptRows], RowsInv,
         NEW a \in Attempts, attempt[a].status # "none", NEW m \in Msgs,
         attempt' = [attempt EXCEPT ![a].msg = m]
  PROVE  attempt' \in [Attempts -> AttemptRows] /\ RowsInv'
  BY DEF RowsInv, AttemptRows, NoRow

LEMMA UpdateRow ==
  ASSUME attempt \in [Attempts -> AttemptRows], RowsInv,
         NEW a \in Attempts, attempt[a].status # "none",
         NEW s \in AttemptStatuses \ {"none"}, NEW g \in Signatures \cup {None},
         \/ attempt' = [attempt EXCEPT ![a].status = s]
         \/ attempt' = [attempt EXCEPT ![a].status = s, ![a].sig = g]
  PROVE  attempt' \in [Attempts -> AttemptRows] /\ RowsInv'
  BY DEF RowsInv, AttemptRows, NoRow

LEMMA UpdateRows ==
  ASSUME attempt \in [Attempts -> AttemptRows], RowsInv,
         NEW S \in SUBSET Attempts, \A a \in S : attempt[a].status # "none",
         NEW s \in AttemptStatuses \ {"none"}, NEW g \in Signatures \cup {None},
         \/ attempt' = [a \in Attempts |->
              IF a \in S THEN [attempt[a] EXCEPT !.status = s] ELSE attempt[a]]
         \/ attempt' = [a \in Attempts |->
              IF a \in S THEN [attempt[a] EXCEPT !.status = s, !.sig = g] ELSE attempt[a]]
  PROVE  attempt' \in [Attempts -> AttemptRows] /\ RowsInv'
<1> DEFINE other(a) == attempt'[a] = attempt[a]
           update(a) == \/ attempt'[a] = [attempt[a] EXCEPT !.status = s]
                        \/ attempt'[a] = [attempt[a] EXCEPT !.status = s, !.sig = g]
<1>1. attempt' = [a \in Attempts |-> attempt'[a]]
  OBVIOUS
<1>2. ASSUME NEW a \in Attempts
      PROVE  /\ attempt'[a] \in AttemptRows
             /\ IF attempt'[a].status = "none" THEN attempt'[a] = NoRow
                                               ELSE attempt'[a].intent \in Intents
  <2>1. CASE a \in S
    <3>1. update(a)
      BY <2>1
    <3>2. attempt[a].intent \in Intents /\ attempt[a] \in AttemptRows
      BY <2>1 DEF RowsInv
    <3> QED
      BY <3>1, <3>2 DEF AttemptRows
  <2>2. CASE a \notin S
    BY <2>2 DEF RowsInv
  <2> QED
    BY <2>1, <2>2
<1> QED
  BY <1>1, <1>2 DEF RowsInv

LEMMA InitTypeInv == Init => TypeInv
  BY ConstantsAssumption
  DEF Init, TypeInv, TypeOK, TablesOK, OutsideOK, LocalsOK, LocalsInv, RowsInv,
      AttemptRows, NoRow, PCs, IntentStatuses, AttemptStatuses, ChainStatuses,
      Topics, Signatures, Procs, LiveIntents

\* One step per action: where the process is, then what the action writes.
LEMMA TypeInvStep == TypeInv /\ [Next]_vars => TypeInv'
<1> SUFFICES ASSUME TypeInv, [Next]_vars PROVE TypeInv'
  OBVIOUS
<1> USE DEF TypeInv, TypeOK, TablesOK, OutsideOK
<1>authorize. ASSUME NEW p \in Requests, NEW i \in Intents, Authorize(p, i) PROVE TypeInv'
  <2>1. LocalsInv'
    BY <1>authorize, BeginLocals DEF Authorize, PCs, Procs
  <2> QED
    BY <1>authorize, <2>1 DEF Authorize, RowsInv, LocalsInv
<1>submit. ASSUME NEW p \in Requests, NEW i \in Intents, NEW m \in Msgs, Submit(p, i, m)
           PROVE  TypeInv'
  <2>1. LocalsInv'
    BY <1>submit, BeginLocals DEF Submit, PCs, Procs, Signatures
  <2> QED
    BY <1>submit, <2>1 DEF Submit, RowsInv, LocalsInv
<1>expireStale. ASSUME NEW p \in Workers, ExpireStale(p) PROVE TypeInv'
  <2>1. LocalsInv'
    BY <1>expireStale DEF ExpireStale, LocalsInv, LocalsOK, PCs, Procs, Overdue
  <2>2. intent' \in [Intents -> IntentStatuses]
    BY <1>expireStale DEF ExpireStale, IntentStatuses
  <2> QED
    BY <1>expireStale, <2>1, <2>2 DEF ExpireStale, RowsInv, LocalsInv
<1>sweep. ASSUME NEW p \in Workers, NEW a \in Attempts, Sweep(p, a) PROVE TypeInv'
  <2>1. attempt[a].intent \in Intents
    BY <1>sweep DEF Sweep, RowsInv
  <2>2. LocalsInv'
    BY <1>sweep, <2>1, BeginLocals DEF Sweep, PCs, Procs, Signatures
  <2> QED
    BY <1>sweep, <2>2 DEF Sweep, RowsInv, LocalsInv
<1>resume. ASSUME NEW p \in Workers, NEW a \in Attempts, Resume(p, a) PROVE TypeInv'
  <2>1. attempt[a].intent \in Intents /\ attempt[a].sig \in Signatures
    BY <1>resume DEF Resume, Resumable, RowsInv, AttemptRows
  <2>2. LocalsInv'
    BY <1>resume, <2>1, BeginLocals DEF Resume, PCs, Procs
  <2> QED
    BY <1>resume, <2>2 DEF Resume, RowsInv, LocalsInv
<1>reapSelect. ASSUME NEW p \in Workers, NEW a \in Attempts, ReapSelect(p, a) PROVE TypeInv'
  <2>1. attempt[a].intent \in Intents /\ attempt[a].msg \in Signatures \cup {None}
    BY <1>reapSelect DEF ReapSelect, Reapable, RowsInv, AttemptRows, Signatures
  <2>2. LocalsInv'
    BY <1>reapSelect, <2>1, BeginLocals DEF ReapSelect, PCs, Procs
  <2> QED
    BY <1>reapSelect, <2>2 DEF ReapSelect, RowsInv, LocalsInv
<1>expireOnRead. ASSUME NEW p \in Procs, ExpireOnRead(p) PROVE TypeInv'
  <2>1. on[p] \in Intents
    BY <1>expireOnRead DEF ExpireOnRead, LocalsInv
  <2>2. LocalsInv'
    <3>1. CASE Finish(p)
      BY <3>1, FinishLocals
    <3>2. CASE ~Finish(p)
      <4>1. /\ pc' = [pc EXCEPT ![p] = "tellExpired"]
            /\ batch' = [batch EXCEPT ![p] = {on[p]}]
            /\ UNCHANGED <<on, row, tx>>
        BY <1>expireOnRead, <3>2 DEF ExpireOnRead
      <4> QED
        BY <2>1, <4>1 DEF LocalsInv, LocalsOK, PCs
    <3> QED
      BY <3>1, <3>2
  <2>3. intent' \in [Intents -> IntentStatuses]
    BY <1>expireOnRead, SetStatusType DEF ExpireOnRead, IntentStatuses
  <2> QED
    BY <1>expireOnRead, <2>2, <2>3 DEF ExpireOnRead, RowsInv, LocalsInv
<1>commit. ASSUME NEW p \in Procs, CommitAuthorization(p) PROVE TypeInv'
  <2>1. on[p] \in Intents
    BY <1>commit DEF CommitAuthorization, LocalsInv
  <2>2. LocalsInv'
    BY <1>commit, <2>1 DEF CommitAuthorization, LocalsInv, LocalsOK, PCs
  <2>3. intent' \in [Intents -> IntentStatuses]
    BY <1>commit, SetStatusType DEF CommitAuthorization, IntentStatuses
  <2>4. attempt' \in [Attempts -> AttemptRows] /\ RowsInv'
    BY <1>commit, <2>1 DEF CommitAuthorization, RowsInv, AttemptRows, NoRow, AttemptStatuses
  <2> QED
    BY <1>commit, <2>2, <2>3, <2>4 DEF CommitAuthorization, LocalsInv
<1>rollBack. ASSUME NEW p \in Procs, RollBackAuthorization(p) PROVE TypeInv'
  <2>1. LocalsInv'
    BY <1>rollBack, FinishLocals DEF RollBackAuthorization
  <2> QED
    BY <1>rollBack, <2>1 DEF RollBackAuthorization, RowsInv, LocalsInv
<1>tellAuthorized. ASSUME NEW p \in Procs, TellAuthorized(p) PROVE TypeInv'
  <2>1. on[p] \in Intents
    BY <1>tellAuthorized DEF TellAuthorized, LocalsInv
  <2>2. LocalsInv'
    BY <1>tellAuthorized, <2>1, GotoLocals DEF TellAuthorized, PCs
  <2>3. told' \in [Intents -> [Topics -> Nat]]
    BY <1>tellAuthorized, <2>1, PublishType DEF TellAuthorized, Topics
  <2> QED
    BY <1>tellAuthorized, <2>2, <2>3 DEF TellAuthorized, RowsInv, LocalsInv
<1>pin. ASSUME NEW p \in Procs, Pin(p) PROVE TypeInv'
  <2>1. LocalsInv'
    BY <1>pin, FinishLocals DEF Pin
  <2>2. CASE UNCHANGED <<attempt, old, spendOf>>
    BY <1>pin, <2>1, <2>2 DEF Pin, RowsInv, LocalsInv
  <2>3. ASSUME NEW a \in Attempts, NEW m \in Msgs, attempt[a].status = "authorized",
               attempt' = [attempt EXCEPT ![a].msg = m],
               old' = old \ {a}, spendOf' = [spendOf EXCEPT ![m] = on[p]]
        PROVE  TypeInv'
    <3>1. attempt' \in [Attempts -> AttemptRows] /\ RowsInv'
      BY <2>3, PinRow
    <3>2. spendOf' \in [Msgs -> Intents \cup {None}] /\ old' \in SUBSET Attempts
      BY <2>3 DEF LocalsInv, LocalsOK
    <3> QED
      BY <1>pin, <2>1, <3>1, <3>2 DEF Pin, LocalsInv
  <2> QED
    BY <1>pin, <2>2, <2>3 DEF Pin
<1>retire. ASSUME NEW p \in Procs, RetireSimulated(p) PROVE TypeInv'
  <2>1. on[p] \in Intents
    BY <1>retire DEF RetireSimulated, LocalsInv
  <2>2. LocalsInv'
    BY <1>retire, <2>1 DEF RetireSimulated, LocalsInv, LocalsOK, PCs, Signatures
  <2> DEFINE hit == {a \in Attempts : attempt[a].intent = on[p]
                                      /\ attempt[a].status = "authorized"}
  <2>3. attempt' = [a \in Attempts |-> IF a \in hit
           THEN [attempt[a] EXCEPT !.status = "succeeded", !.sig = on[p]] ELSE attempt[a]]
    BY <1>retire DEF RetireSimulated
  <2>4. "succeeded" \in AttemptStatuses \ {"none"} /\ on[p] \in Signatures \cup {None}
    BY <2>1 DEF AttemptStatuses, Signatures
  <2>5. attempt' \in [Attempts -> AttemptRows] /\ RowsInv'
    BY <2>3, <2>4, UpdateRows
  <2> QED
    BY <1>retire, <2>2, <2>5 DEF RetireSimulated, LocalsInv
<1>settleSimulated. ASSUME NEW p \in Procs, SettleSimulated(p) PROVE TypeInv'
  <2>1. on[p] \in Intents
    BY <1>settleSimulated DEF SettleSimulated, LocalsInv
  <2>2. LocalsInv'
    BY <1>settleSimulated, <2>1, GotoLocals, FinishLocals DEF SettleSimulated, PCs
  <2>3. intent' \in [Intents -> IntentStatuses]
    BY <1>settleSimulated, SetStatusType DEF SettleSimulated, IntentStatuses
  <2> QED
    BY <1>settleSimulated, <2>2, <2>3 DEF SettleSimulated, RowsInv, LocalsInv

<1>enterSubmit. ASSUME NEW p \in Procs, EnterSubmit(p) PROVE TypeInv'
  <2>1. on[p] \in Intents
    BY <1>enterSubmit DEF EnterSubmit, LocalsInv
  <2>2. LocalsInv'
    <3>1. CASE Finish(p)
      BY <3>1, FinishLocals
    <3>2. CASE ~Finish(p)
      <4>1. PICK a \in Attempts :
              /\ pc' = [pc EXCEPT ![p] = "broadcast"]
              /\ row' = [row EXCEPT ![p] = a]
              /\ UNCHANGED <<on, tx, batch>>
        BY <1>enterSubmit, <3>2 DEF EnterSubmit
      <4> QED
        BY <2>1, <4>1 DEF LocalsInv, LocalsOK, PCs
    <3> QED
      BY <3>1, <3>2
  <2>3. locked' \in [Intents -> Procs \cup {None}]
    BY <1>enterSubmit DEF EnterSubmit
  <2> QED
    BY <1>enterSubmit, <2>2, <2>3 DEF EnterSubmit, RowsInv, LocalsInv
<1>broadcast. ASSUME NEW p \in Procs, Broadcast(p) PROVE TypeInv'
  <2>1. LocalsInv'
    BY <1>broadcast, GotoLocals, FinishLocals DEF Broadcast, LocalsInv, PCs
  <2>2. locked' \in [Intents -> Procs \cup {None}]
    BY <1>broadcast, UnlockType DEF Broadcast
  <2>3. chain' \in [Msgs -> ChainStatuses]
    BY <1>broadcast DEF Broadcast, ChainStatuses
  <2> QED
    BY <1>broadcast, <2>1, <2>2, <2>3 DEF Broadcast, RowsInv, LocalsInv
<1>record. ASSUME NEW p \in Procs, RecordSignature(p) PROVE TypeInv'
  <2>1. LocalsInv'
    BY <1>record, GotoLocals, FinishLocals DEF RecordSignature, LocalsInv, PCs
  <2>2. locked' \in [Intents -> Procs \cup {None}]
    BY <1>record, UnlockType DEF RecordSignature
  <2>3. attempt' \in [Attempts -> AttemptRows] /\ RowsInv'
    <3>1. CASE UNCHANGED attempt
      BY <3>1 DEF RowsInv
    <3>2. CASE attempt[row[p]].status = "authorized" /\ row[p] \in Attempts
      <4>1. tx[p] \in Signatures \cup {None} /\ "settling" \in AttemptStatuses \ {"none"}
        BY DEF LocalsInv, LocalsOK, AttemptStatuses
      <4> QED
        BY <1>record, <3>2, <4>1, UpdateRow DEF RecordSignature
    <3>3. CASE row[p] \notin Attempts
      BY <1>record, <3>3 DEF RecordSignature, RowsInv
    <3> QED
      BY <1>record, <3>1, <3>2, <3>3 DEF RecordSignature
  <2> QED
    BY <1>record, <2>1, <2>2, <2>3 DEF RecordSignature, LocalsInv
<1>settle. ASSUME NEW p \in Procs, SettleIntent(p) PROVE TypeInv'
  <2>1. LocalsInv'
    BY <1>settle, GotoLocals, FinishLocals DEF SettleIntent, LocalsInv, PCs
  <2>2. locked' \in [Intents -> Procs \cup {None}]
    BY <1>settle, UnlockType DEF SettleIntent
  <2>3. intent' \in [Intents -> IntentStatuses]
    BY <1>settle, SetStatusType DEF SettleIntent, IntentStatuses
  <2> QED
    BY <1>settle, <2>1, <2>2, <2>3 DEF SettleIntent, RowsInv, LocalsInv
<1>poll. ASSUME NEW p \in Procs, Poll(p) PROVE TypeInv'
  <2>1. LocalsInv'
    BY <1>poll, GotoLocals, FinishLocals DEF Poll, LocalsInv, PCs
  <2> QED
    BY <1>poll, <2>1 DEF Poll, RowsInv, LocalsInv
<1>claim. ASSUME NEW p \in Procs, NEW s \in {"succeeded", "failed"},
                 NEW label \in {"complete", "failIntent"}, on[p] \in Intents,
                 Claim(p, s, label)
          PROVE  TypeInv'
  <2>1. LocalsInv'
    BY <1>claim, GotoLocals, FinishLocals DEF Claim, PCs
  <2>2. attempt' \in [Attempts -> AttemptRows] /\ RowsInv'
    <3>1. CASE UNCHANGED attempt
      BY <3>1 DEF RowsInv
    <3>2. CASE attempt' = [a \in Attempts |-> IF a \in Claimable(tx[p])
                 THEN [attempt[a] EXCEPT !.status = s] ELSE attempt[a]]
      <4>1. /\ Claimable(tx[p]) \in SUBSET Attempts
            /\ \A a \in Claimable(tx[p]) : attempt[a].status # "none"
            /\ s \in AttemptStatuses \ {"none"}
            /\ None \in Signatures \cup {None}
        BY DEF Claimable, AttemptStatuses
      <4> QED
        BY <3>2, <4>1, UpdateRows
    <3> QED
      BY <1>claim, <3>1, <3>2 DEF Claim
  <2> QED
    BY <1>claim, <2>1, <2>2 DEF Claim, LocalsInv
<1>claimSucceeded. ASSUME NEW p \in Procs, ClaimSucceeded(p) PROVE TypeInv'
  BY <1>claimSucceeded, <1>claim DEF ClaimSucceeded, LocalsInv
<1>claimFailed. ASSUME NEW p \in Procs, ClaimFailed(p) PROVE TypeInv'
  BY <1>claimFailed, <1>claim DEF ClaimFailed, LocalsInv
<1>complete. ASSUME NEW p \in Procs, Complete(p) PROVE TypeInv'
  <2>1. LocalsInv'
    BY <1>complete, GotoLocals DEF Complete, LocalsInv, PCs
  <2>2. payment' \in [Intents -> Signatures \cup {None}]
    BY <1>complete DEF Complete, LocalsInv, LocalsOK
  <2> QED
    BY <1>complete, <2>1, <2>2 DEF Complete, RowsInv, LocalsInv
<1>refuse. ASSUME NEW p \in Procs, RefuseCompletion(p) PROVE TypeInv'
  <2>1. LocalsInv'
    BY <1>refuse, FinishLocals DEF RefuseCompletion
  <2> QED
    BY <1>refuse, <2>1 DEF RefuseCompletion, RowsInv, LocalsInv
<1>finalize. ASSUME NEW p \in Procs, FinalizeIntent(p) PROVE TypeInv'
  <2>1. LocalsInv'
    BY <1>finalize, GotoLocals, FinishLocals DEF FinalizeIntent, LocalsInv, PCs
  <2>2. intent' \in [Intents -> IntentStatuses]
    BY <1>finalize, SetStatusType DEF FinalizeIntent, IntentStatuses
  <2> QED
    BY <1>finalize, <2>1, <2>2 DEF FinalizeIntent, RowsInv, LocalsInv
<1>failIntent. ASSUME NEW p \in Procs, FailIntent(p) PROVE TypeInv'
  <2>1. LocalsInv'
    BY <1>failIntent, GotoLocals, FinishLocals DEF FailIntent, LocalsInv, PCs
  <2>2. intent' \in [Intents -> IntentStatuses]
    BY <1>failIntent, SetStatusType DEF FailIntent, IntentStatuses
  <2> QED
    BY <1>failIntent, <2>1, <2>2 DEF FailIntent, RowsInv, LocalsInv
<1>tellOutcome. ASSUME NEW p \in Procs, TellOutcome(p) PROVE TypeInv'
  <2>1. on[p] \in Intents
    BY <1>tellOutcome DEF TellOutcome, LocalsInv
  <2>2. LocalsInv'
    BY <1>tellOutcome, FinishLocals DEF TellOutcome
  <2>3. locked' \in [Intents -> Procs \cup {None}]
    BY <1>tellOutcome, UnlockType DEF TellOutcome
  <2>4. told' \in [Intents -> [Topics -> Nat]]
    BY <1>tellOutcome, <2>1, PublishType DEF TellOutcome, Topics
  <2> QED
    BY <1>tellOutcome, <2>2, <2>3, <2>4 DEF TellOutcome, RowsInv, LocalsInv
<1>tellExpired. ASSUME NEW p \in Procs, TellExpired(p) PROVE TypeInv'
  <2>1. PICK i \in batch[p] :
          /\ Publish(i, "expired")
          /\ IF batch[p] = {i} THEN Finish(p)
             ELSE /\ batch' = [batch EXCEPT ![p] = @ \ {i}]
                  /\ UNCHANGED <<pc, on, row, tx>>
    BY <1>tellExpired DEF TellExpired
  <2>2. i \in Intents
    BY DEF LocalsInv, LocalsOK
  <2>3. LocalsInv'
    <3>1. CASE Finish(p)
      BY <3>1, FinishLocals
    <3>2. CASE ~Finish(p)
      BY <2>1, <3>2 DEF LocalsInv, LocalsOK
    <3> QED
      BY <3>1, <3>2
  <2>4. told' \in [Intents -> [Topics -> Nat]]
    BY <2>1, <2>2, PublishType DEF Topics
  <2> QED
    BY <1>tellExpired, <2>3, <2>4 DEF TellExpired, RowsInv, LocalsInv
<1>reap. ASSUME NEW p \in Procs, Reap(p) PROVE TypeInv'
  <2>1. on[p] \in Intents
    BY <1>reap DEF Reap, LocalsInv
  <2>2. LocalsInv'
    BY <1>reap, <2>1, GotoLocals, FinishLocals DEF Reap, PCs
  <2>3. locked' \in [Intents -> Procs \cup {None}]
    BY <1>reap DEF Reap
  <2>4. attempt' \in [Attempts -> AttemptRows] /\ RowsInv'
    <3>1. CASE UNCHANGED attempt
      BY <3>1 DEF RowsInv
    <3>2. CASE StillAsSelected(p) /\ row[p] \in Attempts
      <4>1. "failed" \in AttemptStatuses \ {"none"} /\ attempt[row[p]].status # "none"
        BY <3>2 DEF AttemptStatuses, StillAsSelected
      <4> QED
        BY <1>reap, <3>2, <4>1, UpdateRow DEF Reap
    <3>3. CASE row[p] \notin Attempts
      BY <1>reap, <3>3 DEF Reap, RowsInv
    <3> QED
      BY <1>reap, <3>1, <3>2, <3>3 DEF Reap
  <2>5. old' \in SUBSET Attempts
    BY <1>reap DEF Reap
  <2> QED
    BY <1>reap, <2>2, <2>3, <2>4, <2>5 DEF Reap, LocalsInv
<1>abandon. ASSUME NEW p \in Procs, AbandonIntent(p) PROVE TypeInv'
  <2>1. LocalsInv'
    BY <1>abandon, GotoLocals, FinishLocals DEF AbandonIntent, LocalsInv, PCs
  <2>2. locked' \in [Intents -> Procs \cup {None}]
    BY <1>abandon, UnlockType DEF AbandonIntent
  <2>3. intent' \in [Intents -> IntentStatuses]
    BY <1>abandon, SetStatusType DEF AbandonIntent, IntentStatuses
  <2> QED
    BY <1>abandon, <2>1, <2>2, <2>3 DEF AbandonIntent, RowsInv, LocalsInv
<1>fail. ASSUME NEW p \in Procs, Fail(p) PROVE TypeInv'
  <2>1. LocalsInv'
    BY <1>fail, FinishLocals DEF Fail
  <2>2. locked' \in [Intents -> Procs \cup {None}]
    BY <1>fail, UnlockType DEF Fail
  <2> QED
    BY <1>fail, <2>1, <2>2 DEF Fail, RowsInv, LocalsInv
<1>environment. CASE Environment
  <2>1. LocalsInv'
    BY <1>environment, LocalsUnchanged DEF Environment, ComesDue, Provision, Land, BlockhashExpires, GrowsOld
  <2> QED
    BY <1>environment, <2>1
    DEF Environment, ComesDue, Provision, Land, BlockhashExpires, GrowsOld, RowsInv, LocalsInv, ChainStatuses
<1>stutter. CASE UNCHANGED vars
  BY <1>stutter, LocalsUnchanged DEF vars, RowsInv, LocalsInv
<1> QED
  BY <1>authorize, <1>submit, <1>expireStale, <1>sweep, <1>resume, <1>reapSelect,
     <1>expireOnRead, <1>commit, <1>rollBack, <1>tellAuthorized, <1>pin, <1>retire,
     <1>settleSimulated, <1>enterSubmit, <1>broadcast, <1>record, <1>settle, <1>poll,
     <1>claimSucceeded, <1>claimFailed, <1>complete, <1>refuse, <1>finalize, <1>failIntent,
     <1>tellOutcome, <1>tellExpired, <1>reap, <1>abandon, <1>fail, <1>environment, <1>stutter
  DEF Next, Begins, Step, TakeLock, AuthorizeStep, SubmitStep, FinalizeStep

\* Every variable keeps its type: no handler loses track of the intent it
\* works on, and no row is updated into a value it cannot have.
THEOREM TypeCorrect == Spec => []TypeOK
<1>1. Init => TypeInv
  BY InitTypeInv
<1>2. TypeInv /\ [Next]_vars => TypeInv'
  BY TypeInvStep
<1>3. TypeInv => TypeOK
  BY DEF TypeInv
<1> QED
  BY <1>1, <1>2, <1>3, PTL DEF Spec

=============================================================================
