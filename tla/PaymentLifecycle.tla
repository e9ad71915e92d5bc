-------------------------- MODULE PaymentLifecycle --------------------------
(***************************************************************************)
(* A Payment in the Prydd backend, from the moment a merchant's intent is  *)
(* payable to the moment the merchant has been told how it ended.          *)
(*                                                                         *)
(* Several processes work on the same rows: HTTP requests (Requests) run   *)
(* CheckoutController.authorize and .settle, and the scheduler of each     *)
(* instance (Workers) runs the settlement sweep and the expiry cron.  They *)
(* share no transaction: what keeps them apart is a conditional UPDATE per *)
(* step, one advisory lock per intent, and the age of a row.  Every await  *)
(* between two statements is a step here, so the handlers interleave, and  *)
(* Fail(p) ends any of them anywhere.                                      *)
(*                                                                         *)
(* The rail is direct_usdc, the only one buildSettlement and               *)
(* submitSettlement accept: the provider completes at once and opens no    *)
(* off-ramp row.  A live Payment is refused before it is authorized unless *)
(* its merchant has such an endpoint; a sandbox one asks for none.         *)
(* Amounts are one unit and the day and month windows of the Consumer are  *)
(* one counter.                                                            *)
(***************************************************************************)
EXTENDS Naturals, FiniteSets

CONSTANTS
  Intents,      \* payment_intents rows, already created and payable
  TestIntents,  \* those whose mode is 'test'
  Attempts,     \* identities a payment_attempts row can have
  Msgs,         \* compiled Spend messages; a message's bytes fix its signature
  Requests,     \* HTTP requests in progress
  Workers,      \* schedulers, one per backend instance
  Cap,          \* the Consumer's capacity, in Payments
  MaxFails,     \* bound: how many handlers die or throw part of the way
  None

ASSUME ConstantsAssumption ==
  /\ TestIntents \subseteq Intents
  /\ Intents \cap Msgs = {}
  /\ Requests \cap Workers = {}
  /\ None \notin Intents \cup Attempts \cup Msgs \cup Requests \cup Workers
  /\ Cap \in Nat
  /\ MaxFails \in Nat

Procs == Requests \cup Workers
LiveIntents == Intents \ TestIntents

IntentStatuses ==
  {"created", "authorized", "settling", "succeeded", "failed", "expired"}
AttemptStatuses == {"none", "authorized", "settling", "succeeded", "failed"}
ChainStatuses == {"unsent", "sent", "landed", "err"}
Topics == {"authorized", "succeeded", "failed", "expired"}

\* A live Spend is identified by the message the fee payer signed; a sandbox
\* settlement carries test_<intentId>, here the intent itself.
Signatures == Msgs \cup Intents

AttemptRows == [intent : Intents \cup {None},
                status : AttemptStatuses,
                msg    : Msgs \cup {None},
                sig    : Signatures \cup {None}]

NoRow == [intent |-> None, status |-> "none", msg |-> None, sig |-> None]

PCs == {"idle", "expire", "tellExpired",
        "reserve", "tellAuthorized", "pin",
        "simClaim", "simSettling",
        "submit", "broadcast", "record", "settle", "poll",
        "claimSucceeded", "complete", "finalize", "tellSucceeded",
        "claimFailed", "failIntent", "tellFailed",
        "reap", "abandon"}

VARIABLES
  intent,    \* payment_intents.status
  due,       \* intents whose expires_at has passed
  attempt,   \* payment_attempts rows
  old,       \* attempts untouched for the window the sweep waits for
  payment,   \* payments row of an intent: its tx_signature
  used,      \* capacity_counters.total_raw
  told,      \* how often each payment.* event of an intent was published
  chain,     \* what the cluster knows of a message
  stale,     \* messages whose blockhash has expired
  spendOf,   \* the intent a built message pays
  endpoint,  \* intents whose merchant has a settlement endpoint
  locked,    \* holder of the advisory lock payment-submit:<intent>
  pc, on, row, tx, batch,  \* a process: where it is, and its local values
  fails      \* handlers that died part of the way so far

tables == <<intent, due, attempt, old, payment, used>>
outside == <<chain, stale, spendOf, endpoint>>
locals == <<pc, on, row, tx, batch>>
vars == <<intent, due, attempt, old, payment, used, told, chain, stale,
          spendOf, endpoint, locked, pc, on, row, tx, batch, fails>>

TablesOK ==
  /\ intent \in [Intents -> IntentStatuses]
  /\ due \in SUBSET Intents
  /\ attempt \in [Attempts -> AttemptRows]
  /\ old \in SUBSET Attempts
  /\ payment \in [Intents -> Signatures \cup {None}]
  /\ used \in Nat

OutsideOK ==
  /\ chain \in [Msgs -> ChainStatuses]
  /\ stale \in SUBSET Msgs
  /\ spendOf \in [Msgs -> Intents \cup {None}]
  /\ endpoint \in SUBSET Intents

LocalsOK ==
  /\ pc \in [Procs -> PCs]
  /\ on \in [Procs -> Intents \cup {None}]
  /\ row \in [Procs -> Attempts \cup {None}]
  /\ tx \in [Procs -> Signatures \cup {None}]
  /\ batch \in [Procs -> SUBSET Intents]

TypeOK ==
  /\ TablesOK
  /\ OutsideOK
  /\ LocalsOK
  /\ told \in [Intents -> [Topics -> Nat]]
  /\ locked \in [Intents -> Procs \cup {None}]
  /\ fails \in Nat

Init ==
  /\ intent = [i \in Intents |-> "created"]
  /\ due = {}
  /\ attempt = [a \in Attempts |-> NoRow]
  /\ old = {}
  /\ payment = [i \in Intents |-> None]
  /\ used = 0
  /\ told = [i \in Intents |-> [t \in Topics |-> 0]]
  /\ chain = [m \in Msgs |-> "unsent"]
  /\ stale = {}
  /\ spendOf = [m \in Msgs |-> None]
  /\ endpoint = LiveIntents
  /\ locked = [i \in Intents |-> None]
  /\ pc = [p \in Procs |-> "idle"]
  /\ on = [p \in Procs |-> None]
  /\ row = [p \in Procs |-> None]
  /\ tx = [p \in Procs |-> None]
  /\ batch = [p \in Procs |-> {}]
  /\ fails = 0

-----------------------------------------------------------------------------
(* Rows and processes *)

LiveAttempt(a) == attempt[a].status \in {"authorized", "settling"}

\* PaymentIntentService.transition: one UPDATE gated on the expected status.
\* Fault: the status read earlier is trusted and the UPDATE is not gated.
IsAt_Unconditional(i, from) == TRUE
IsAt(i, from) == intent[i] = from

SetStatus(i, to) == intent' = [intent EXCEPT ![i] = to]

\* A process moves to another step of the handler it runs.
Goto(p, label) ==
  /\ pc' = [pc EXCEPT ![p] = label]
  /\ UNCHANGED <<on, row, tx, batch>>

\* It takes up intent i, attempt a and message or signature s, at a step.
Begin(p, label, i, a, s) ==
  /\ pc' = [pc EXCEPT ![p] = label]
  /\ on' = [on EXCEPT ![p] = i]
  /\ row' = [row EXCEPT ![p] = a]
  /\ tx' = [tx EXCEPT ![p] = s]
  /\ UNCHANGED batch

\* It returns, throws or dies: nothing it held in memory survives.
Finish(p) ==
  /\ pc' = [pc EXCEPT ![p] = "idle"]
  /\ on' = [on EXCEPT ![p] = None]
  /\ row' = [row EXCEPT ![p] = None]
  /\ tx' = [tx EXCEPT ![p] = None]
  /\ batch' = [batch EXCEPT ![p] = {}]

Unlock(p) == locked' = [i \in Intents |-> IF locked[i] = p THEN None ELSE locked[i]]

Publish(i, topic) == told' = [told EXCEPT ![i][topic] = @ + 1]

-----------------------------------------------------------------------------
(* authorize and authorizeSimulated *)

\* The intent is read: it must be created, and an overdue one is expired
\* here rather than by the cron.
Authorize(r, i) ==
  /\ pc[r] = "idle"
  /\ intent[i] = "created"
  /\ Begin(r, IF i \in due THEN "expire" ELSE "reserve", i, None, None)
  /\ UNCHANGED <<tables, outside, told, locked, fails>>

\* Expire on read. The losing side of a race gets the state conflict.
ExpireOnRead(r) ==
  /\ pc[r] = "expire"
  /\ \/ /\ IsAt(on[r], "created")
        /\ SetStatus(on[r], "expired")
        /\ pc' = [pc EXCEPT ![r] = "tellExpired"]
        /\ batch' = [batch EXCEPT ![r] = {on[r]}]
        /\ UNCHANGED <<on, row, tx>>
     \/ /\ ~IsAt(on[r], "created")
        /\ Finish(r)
        /\ UNCHANGED intent
  /\ UNCHANGED <<due, attempt, old, payment, used, outside, told, locked, fails>>

\* One database transaction: reserve capacity (a sandbox Payment spends none),
\* move created -> authorized, insert the attempt behind the one-live index.
\* Fault: an intent whose attempt was reaped may be authorized again.
CanAuthorize_AfterReap(i) ==
  /\ IsAt(i, "created") \/ IsAt(i, "authorized")
  /\ \A a \in Attempts : attempt[a].intent = i => ~LiveAttempt(a)
CanAuthorize(i) ==
  /\ IsAt(i, "created")
  /\ i \in LiveIntents => used < Cap
  /\ \A a \in Attempts : attempt[a].intent = i => ~LiveAttempt(a)

CommitAuthorization(r) ==
  /\ pc[r] = "reserve"
  /\ CanAuthorize(on[r])
  /\ SetStatus(on[r], "authorized")
  /\ used' = IF on[r] \in LiveIntents THEN used + 1 ELSE used
  /\ \E a \in Attempts :
       /\ attempt[a].status = "none"
       /\ attempt' = [attempt EXCEPT ![a] =
            [intent |-> on[r], status |-> "authorized", msg |-> None, sig |-> None]]
       /\ row' = [row EXCEPT ![r] = a]
  /\ pc' = [pc EXCEPT ![r] = "tellAuthorized"]
  /\ UNCHANGED <<on, tx, batch, due, old, payment, outside, told, locked, fails>>

\* Any refusal rolls all three back.
\* Fault: a refusal also releases the capacity the rollback already returned.
RollBackAuthorization_Releases(r) ==
  /\ pc[r] = "reserve"
  /\ ~CanAuthorize(on[r])
  /\ used' = used - 1
  /\ Finish(r)
  /\ UNCHANGED <<intent, due, attempt, old, payment, outside, told, locked, fails>>
RollBackAuthorization(r) ==
  /\ pc[r] = "reserve"
  /\ ~CanAuthorize(on[r])
  /\ Finish(r)
  /\ UNCHANGED <<tables, outside, told, locked, fails>>

\* payment.authorized, after the commit; then the live path pins what it built
\* and the sandbox path settles.
TellAuthorized(r) ==
  /\ pc[r] = "tellAuthorized"
  /\ Publish(on[r], "authorized")
  /\ Goto(r, IF on[r] \in LiveIntents THEN "pin" ELSE "simClaim")
  /\ UNCHANGED <<tables, outside, locked, fails>>

\* pinSettlement: the message built for this request goes on the intent's live
\* authorized attempt, and its bytes to the Consumer for signing. A message
\* nobody pinned is never seen again, so building it is part of this step.
Pin(r) ==
  /\ pc[r] = "pin"
  /\ \/ \E a \in Attempts, m \in Msgs :
          /\ attempt[a].intent = on[r]
          /\ attempt[a].status = "authorized"
          /\ spendOf[m] = None
          /\ attempt' = [attempt EXCEPT ![a].msg = m]
          /\ old' = old \ {a}
          /\ spendOf' = [spendOf EXCEPT ![m] = on[r]]
     \/ /\ \A a \in Attempts :
             attempt[a].intent = on[r] => attempt[a].status # "authorized"
        /\ UNCHANGED <<attempt, old, spendOf>>
  /\ Finish(r)
  /\ UNCHANGED <<intent, due, payment, used, chain, stale, endpoint, told, locked, fails>>

-----------------------------------------------------------------------------
(* simulateSettlement: the sandbox, statement by statement *)

\* The live attempt is retired under the synthetic signature.  Nothing checks
\* how many rows the UPDATE touched.
RetireSimulated(r) ==
  /\ pc[r] = "simClaim"
  /\ LET hit == {a \in Attempts : attempt[a].intent = on[r]
                                  /\ attempt[a].status = "authorized"}
     IN /\ attempt' = [a \in Attempts |-> IF a \in hit
                         THEN [attempt[a] EXCEPT !.status = "succeeded",
                                                 !.sig = on[r]]
                         ELSE attempt[a]]
        /\ old' = old \ hit
  /\ pc' = [pc EXCEPT ![r] = "simSettling"]
  /\ tx' = [tx EXCEPT ![r] = on[r]]
  /\ UNCHANGED <<on, row, batch, intent, due, payment, used, outside, told,
                 locked, fails>>

SettleSimulated(r) ==
  /\ pc[r] = "simSettling"
  /\ \/ /\ IsAt(on[r], "authorized")
        /\ SetStatus(on[r], "settling")
        /\ Goto(r, "complete")
     \/ /\ ~IsAt(on[r], "authorized")
        /\ Finish(r)
        /\ UNCHANGED intent
  /\ UNCHANGED <<due, attempt, old, payment, used, outside, told, locked, fails>>

-----------------------------------------------------------------------------
(* submitSettlement, under the advisory lock *)

\* POST /checkout/settle with the bytes of some message.
Submit(r, i, m) ==
  /\ pc[r] = "idle"
  /\ intent[i] \notin {"succeeded", "failed"}
  /\ Begin(r, "submit", i, None, m)
  /\ UNCHANGED <<tables, outside, told, locked, fails>>

\* What the locked section checks before the fee payer signs: a live attempt
\* that is not already settling, an intent not overdue, and bytes equal to
\* the pinned message.
\* Fault: the bytes are not compared with the pin.
Submittable_AnyBytes(i, a, m) ==
  /\ attempt[a].intent = i
  /\ attempt[a].status = "authorized"
  /\ i \notin due
Submittable(i, a, m) ==
  /\ attempt[a].intent = i
  /\ attempt[a].status = "authorized"
  /\ i \notin due
  /\ attempt[a].msg = m

EnterSubmit(r) ==
  /\ pc[r] = "submit"
  /\ locked[on[r]] = None
  /\ \/ \E a \in Attempts :
          /\ Submittable(on[r], a, tx[r])
          /\ pc' = [pc EXCEPT ![r] = "broadcast"]
          /\ row' = [row EXCEPT ![r] = a]
          /\ locked' = [locked EXCEPT ![on[r]] = r]
          /\ UNCHANGED <<on, tx, batch>>
     \/ \* Refused, or a settling attempt whose signature is only read back.
        /\ \A a \in Attempts : ~Submittable(on[r], a, tx[r])
        /\ Finish(r)
        /\ UNCHANGED locked
  /\ UNCHANGED <<tables, outside, told, fails>>

\* The authority signs and sends. The call may throw with the transaction
\* already on its way: the attempt then keeps no signature.
Broadcast(r) ==
  /\ pc[r] = "broadcast"
  /\ chain' = [chain EXCEPT ![tx[r]] = IF @ = "unsent" THEN "sent" ELSE @]
  /\ \/ /\ Goto(r, "record")
        /\ UNCHANGED locked
     \/ /\ Finish(r)
        /\ Unlock(r)
  /\ UNCHANGED <<tables, stale, spendOf, endpoint, told, fails>>

\* The signature is recorded if the attempt is still authorized.
RecordSignature(r) ==
  /\ pc[r] = "record"
  /\ \/ /\ attempt[row[r]].status = "authorized"
        /\ attempt' = [attempt EXCEPT ![row[r]].status = "settling",
                                      ![row[r]].sig = tx[r]]
        /\ old' = old \ {row[r]}
        /\ Goto(r, "settle")
        /\ UNCHANGED locked
     \/ /\ attempt[row[r]].status # "authorized"
        /\ Finish(r)
        /\ Unlock(r)
        /\ UNCHANGED <<attempt, old>>
  /\ UNCHANGED <<intent, due, payment, used, outside, told, fails>>

\* Then, in a statement of its own, the intent. The confirmation poll starts
\* detached, with the lock released.
SettleIntent(r) ==
  /\ pc[r] = "settle"
  /\ \/ /\ IsAt(on[r], "authorized")
        /\ SetStatus(on[r], "settling")
        /\ Goto(r, "poll")
     \/ /\ ~IsAt(on[r], "authorized")
        /\ Finish(r)
        /\ UNCHANGED intent
  /\ Unlock(r)
  /\ UNCHANGED <<due, attempt, old, payment, used, outside, told, fails>>

-----------------------------------------------------------------------------
(* SettlementConfirmationService: verdicts and the two finalizers *)

\* A transaction that landed with an error is confirmed too: the error is the
\* verdict, and is read before the confirmation level.
\* Fault: the confirmation level is read alone.
Confirmed_IgnoresError(m) == chain[m] \in {"landed", "err"}
Confirmed(m) == chain[m] = "landed"

\* awaitConfirmation: a verdict, or none within the budget.
Poll(p) ==
  /\ pc[p] = "poll"
  /\ \/ chain[tx[p]] = "err" /\ Goto(p, "claimFailed")
     \/ Confirmed(tx[p]) /\ Goto(p, "claimSucceeded")
     \/ Finish(p)
  /\ UNCHANGED <<tables, outside, told, locked, fails>>

\* The rows an UPDATE ... WHERE tx_signature = s AND status = 'settling' hits.
Claimable(s) == {a \in Attempts : attempt[a].sig = s /\ attempt[a].status = "settling"}

Claim(p, status, next) ==
  /\ \/ /\ Claimable(tx[p]) # {}
        /\ attempt' = [a \in Attempts |-> IF a \in Claimable(tx[p])
                         THEN [attempt[a] EXCEPT !.status = status]
                         ELSE attempt[a]]
        /\ old' = old \ Claimable(tx[p])
        /\ Goto(p, next)
     \/ /\ Claimable(tx[p]) = {}
        /\ Finish(p)
        /\ UNCHANGED <<attempt, old>>
  /\ UNCHANGED <<intent, due, payment, used, outside, told, locked, fails>>

\* finalizeSucceeded claims the attempt before anything else happens.
ClaimSucceeded(p) == pc[p] = "claimSucceeded" /\ Claim(p, "succeeded", "complete")

\* The sandbox request writes the payments row of its own accord; everybody
\* else first resolves the merchant's endpoint, which throws if there is none.
EndpointFound(p) == p \in Requests \/ on[p] \in endpoint

\* completeClaimedSettlement: the payments row, unique per intent.
Complete(p) ==
  /\ pc[p] = "complete"
  /\ EndpointFound(p)
  /\ payment' = [payment EXCEPT ![on[p]] = IF @ = None THEN tx[p] ELSE @]
  /\ Goto(p, "finalize")
  /\ UNCHANGED <<intent, due, attempt, old, used, outside, told, locked, fails>>

\* getSettlementAddressForSettlement refuses: the tick logs it and goes on.
RefuseCompletion(p) ==
  /\ pc[p] = "complete"
  /\ ~EndpointFound(p)
  /\ Finish(p)
  /\ UNCHANGED <<tables, outside, told, locked, fails>>

\* finalizeIntentSucceeded: a conflict is silent, only the winner publishes.
FinalizeIntent(p) ==
  /\ pc[p] = "finalize"
  /\ \/ /\ IsAt(on[p], "settling")
        /\ SetStatus(on[p], "succeeded")
        /\ Goto(p, "tellSucceeded")
     \/ /\ ~IsAt(on[p], "settling")
        /\ Finish(p)
        /\ UNCHANGED intent
  /\ UNCHANGED <<due, attempt, old, payment, used, outside, told, locked, fails>>

\* finalizeFailed: claim, then fail the intent, then publish.
ClaimFailed(p) == pc[p] = "claimFailed" /\ Claim(p, "failed", "failIntent")

FailIntent(p) ==
  /\ pc[p] = "failIntent"
  /\ \/ /\ IsAt(on[p], "settling")
        /\ SetStatus(on[p], "failed")
        /\ Goto(p, "tellFailed")
     \/ /\ ~IsAt(on[p], "settling")
        /\ Finish(p)
        /\ UNCHANGED intent
  /\ UNCHANGED <<due, attempt, old, payment, used, outside, told, locked, fails>>

\* The publish that ends a handler, and the lock it may still hold.
TellOutcome(p) ==
  /\ \/ pc[p] = "tellSucceeded" /\ Publish(on[p], "succeeded")
     \/ pc[p] = "tellFailed" /\ Publish(on[p], "failed")
  /\ Finish(p)
  /\ Unlock(p)
  /\ UNCHANGED <<tables, outside, fails>>

-----------------------------------------------------------------------------
(* The crons: expireStale and the three legs of reconcileSettling *)

\* One UPDATE expires every overdue created intent; each is published after.
\* Fault: whatever was not paid in time expires, an authorized intent too.
Overdue_Unpaid == {i \in due : intent[i] \in {"created", "authorized"}}
Overdue == {i \in due : intent[i] = "created"}

ExpireStale(w) ==
  /\ pc[w] = "idle"
  /\ Overdue # {}
  /\ intent' = [i \in Intents |-> IF i \in Overdue THEN "expired" ELSE intent[i]]
  /\ pc' = [pc EXCEPT ![w] = "tellExpired"]
  /\ batch' = [batch EXCEPT ![w] = Overdue]
  /\ UNCHANGED <<on, row, tx, due, attempt, old, payment, used, outside, told,
                 locked, fails>>

TellExpired(p) ==
  /\ pc[p] = "tellExpired"
  /\ \E i \in batch[p] :
       /\ Publish(i, "expired")
       /\ IF batch[p] = {i} THEN Finish(p)
          ELSE /\ batch' = [batch EXCEPT ![p] = @ \ {i}]
               /\ UNCHANGED <<pc, on, row, tx>>
  /\ UNCHANGED <<tables, outside, locked, fails>>

\* A settling row older than its blockhash, with no verdict, is dead.
\* Fault: no verdict is taken for a failure at once.
Expired_AtOnce(a) == TRUE
\* Fault: a transaction that never lands is waited for.
Expired_Never(a) == FALSE
Expired(a) == a \in old

\* sweepSettlingLeg: a younger row may be read too early for its verdict to
\* show, and waits for the next tick.
Sweep(w, a) ==
  /\ pc[w] = "idle"
  /\ attempt[a].status = "settling"
  /\ attempt[a].sig \in Msgs
  /\ LET m == attempt[a].sig
     IN \/ /\ Confirmed(m)
           /\ Begin(w, "claimSucceeded", attempt[a].intent, a, m)
        \/ /\ chain[m] = "err" \/ (~Confirmed(m) /\ Expired(a))
           /\ Begin(w, "claimFailed", attempt[a].intent, a, m)
  /\ UNCHANGED <<tables, outside, told, locked, fails>>

\* resumeClaimedSettlements: claimed, and then the process was lost.
\* Without an off-ramp row, with or without a payments row.
\* Fault: a settlement whose payments row exists is taken for finished.
Resumable_Unpaid(a) ==
  /\ attempt[a].status = "succeeded"
  /\ intent[attempt[a].intent] = "settling"
  /\ payment[attempt[a].intent] = None
  /\ a \in old
Resumable(a) ==
  /\ attempt[a].status = "succeeded"
  /\ intent[attempt[a].intent] = "settling"
  /\ attempt[a].sig # None
  /\ a \in old

Resume(w, a) ==
  /\ pc[w] = "idle"
  /\ Resumable(a)
  /\ Begin(w, "complete", attempt[a].intent, a, attempt[a].sig)
  /\ UNCHANGED <<tables, outside, told, locked, fails>>

\* reapAuthorized selects a row and its pin; then it waits for the lock.
\* Fault: a pinned attempt is left to be submitted some day.
Reapable_Unpinned(a) ==
  attempt[a].status = "authorized" /\ a \in old /\ attempt[a].msg = None
Reapable(a) == attempt[a].status = "authorized" /\ a \in old

ReapSelect(w, a) ==
  /\ pc[w] = "idle"
  /\ Reapable(a)
  /\ Begin(w, "reap", attempt[a].intent, a, attempt[a].msg)
  /\ UNCHANGED <<tables, outside, told, locked, fails>>

\* Fault: the pin the row has by now is not compared with the one selected.
StillAsSelected_AnyPin(w) == attempt[row[w]].status = "authorized"
StillAsSelected(w) ==
  attempt[row[w]].status = "authorized" /\ attempt[row[w]].msg = tx[w]
\* Fault: a pinned attempt without a signature counts as abandoned.
OrphanSuspected_Never(m) == FALSE
OrphanSuspected(m) == m # None

\* The UPDATE hits only a row still authorized with the pin it had. A pinned
\* attempt may have been paid: its intent is left for ops. An unpinned one
\* was abandoned, and its intent fails in the next statement.
Reap(w) ==
  /\ pc[w] = "reap"
  /\ locked[on[w]] = None
  /\ IF StillAsSelected(w)
     THEN /\ attempt' = [attempt EXCEPT ![row[w]].status = "failed"]
          /\ old' = old \ {row[w]}
          /\ IF ~OrphanSuspected(tx[w])
             THEN /\ Goto(w, "abandon")
                  /\ locked' = [locked EXCEPT ![on[w]] = w]
             ELSE Finish(w) /\ UNCHANGED locked
     ELSE Finish(w) /\ UNCHANGED <<attempt, old, locked>>
  /\ UNCHANGED <<intent, due, payment, used, outside, told, fails>>

AbandonIntent(w) ==
  /\ pc[w] = "abandon"
  /\ \/ /\ IsAt(on[w], "authorized")
        /\ SetStatus(on[w], "failed")
        /\ Goto(w, "tellFailed")
        /\ UNCHANGED locked
     \/ /\ ~IsAt(on[w], "authorized")
        /\ Finish(w)
        /\ Unlock(w)
        /\ UNCHANGED intent
  /\ UNCHANGED <<due, attempt, old, payment, used, outside, told, fails>>

-----------------------------------------------------------------------------
(* Failures, and the world outside *)

\* The handler throws, or its process dies: the database connection goes with
\* it, and so does the lock.
Fail(p) ==
  /\ pc[p] # "idle"
  /\ fails < MaxFails
  /\ fails' = fails + 1
  /\ Finish(p)
  /\ Unlock(p)
  /\ UNCHANGED <<tables, outside, told>>

ComesDue(i) ==
  /\ i \notin due
  /\ due' = due \cup {i}
  /\ UNCHANGED <<intent, attempt, old, payment, used, outside, told, locked,
                 locals, fails>>

\* The merchant of a sandbox intent is provisioned; an endpoint is not lost.
Provision(i) ==
  /\ i \notin endpoint
  /\ endpoint' = endpoint \cup {i}
  /\ UNCHANGED <<tables, chain, stale, spendOf, told, locked, locals, fails>>

\* A transaction is executed while its blockhash is valid, with or without
\* an error.
Land(m) ==
  /\ chain[m] = "sent"
  /\ m \notin stale
  /\ \E verdict \in {"landed", "err"} : chain' = [chain EXCEPT ![m] = verdict]
  /\ UNCHANGED <<tables, stale, spendOf, endpoint, told, locked, locals, fails>>

BlockhashExpires(m) ==
  /\ spendOf[m] # None
  /\ m \notin stale
  /\ stale' = stale \cup {m}
  /\ UNCHANGED <<tables, chain, spendOf, endpoint, told, locked, locals, fails>>

\* A row is left alone for the window its status waits for: two minutes while
\* authorized or settling, one while succeeded. Two minutes outlive the
\* blockhash of any message built before the row was last written.
GrowsOld(a) ==
  /\ a \notin old
  /\ attempt[a].status \in {"authorized", "settling", "succeeded"}
  /\ attempt[a].msg # None => attempt[a].msg \in stale
  /\ old' = old \cup {a}
  /\ UNCHANGED <<intent, due, attempt, payment, used, outside, told, locked,
                 locals, fails>>

-----------------------------------------------------------------------------

\* The steps of a handler that is running.
AuthorizeStep(p) ==
  \/ ExpireOnRead(p) \/ CommitAuthorization(p) \/ RollBackAuthorization(p)
  \/ TellAuthorized(p) \/ Pin(p) \/ RetireSimulated(p) \/ SettleSimulated(p)

SubmitStep(p) ==
  Broadcast(p) \/ RecordSignature(p) \/ SettleIntent(p) \/ Poll(p)

FinalizeStep(p) ==
  \/ ClaimSucceeded(p) \/ Complete(p) \/ RefuseCompletion(p) \/ FinalizeIntent(p)
  \/ ClaimFailed(p) \/ FailIntent(p) \/ AbandonIntent(p)
  \/ TellOutcome(p) \/ TellExpired(p)

TakeLock(p) == EnterSubmit(p) \/ Reap(p)

Step(p) == AuthorizeStep(p) \/ SubmitStep(p) \/ FinalizeStep(p)

Begins ==
  \/ \E r \in Requests, i \in Intents : Authorize(r, i)
  \/ \E r \in Requests, i \in Intents, m \in Msgs : Submit(r, i, m)
  \/ \E w \in Workers : ExpireStale(w)
  \/ \E w \in Workers, a \in Attempts : Sweep(w, a) \/ Resume(w, a) \/ ReapSelect(w, a)

Environment ==
  \/ \E i \in Intents : ComesDue(i) \/ Provision(i)
  \/ \E m \in Msgs : Land(m) \/ BlockhashExpires(m)
  \/ \E a \in Attempts : GrowsOld(a)

Next ==
  \/ Begins
  \/ \E p \in Procs : Step(p) \/ TakeLock(p) \/ Fail(p)
  \/ Environment

Spec == Init /\ [][Next]_vars
-----------------------------------------------------------------------------
(* What must hold *)

\* The Spend of an intent was executed: the Consumer's money moved.
Moved(i) == \E m \in Msgs : spendOf[m] = i /\ chain[m] = "landed"

Closed(i) == intent[i] \in {"failed", "expired"}

\* A Payment the merchant is told failed or expired, or whose intent says so,
\* never moved money: neither the reaper's abandonment, nor the sweep's
\* blockhash verdict, nor an expiry can overtake a Spend that lands
\* (settlement-confirmation.service.ts, the reaper's quarantine rule).
FailureIsHonest ==
  \A i \in Intents :
    Closed(i) \/ told[i]["failed"] > 0 \/ told[i]["expired"] > 0 => ~Moved(i)

\* A live Payment that succeeded is backed by the chain: its payments row
\* carries the signature of a Spend of this intent that landed, whichever of
\* poll, sweep and resume wrote it.
SuccessIsBacked ==
  \A i \in LiveIntents :
    intent[i] = "succeeded" \/ told[i]["succeeded"] > 0 =>
      /\ payment[i] \in Msgs
      /\ spendOf[payment[i]] = i
      /\ chain[payment[i]] = "landed"

\* The merchant hears one ending at most, and hears it once, through the race
\* of poll, sweep, resume, reaper and expiry (the single publish site).
OutcomeToldOnce ==
  \A i \in Intents :
    told[i]["succeeded"] + told[i]["failed"] + told[i]["expired"] <= 1

\* The double-settlement guard: an intent has one attempt and one pinned
\* message in its whole life, so a Consumer cannot be charged twice for it.
SingleSpend ==
  /\ \A a, b \in Attempts :
       attempt[a].intent = attempt[b].intent /\ attempt[a].intent # None => a = b
  /\ \A m, n \in Msgs : spendOf[m] = spendOf[n] /\ spendOf[m] # None => m = n

\* Capacity commits with the authorization it pays for and is never given back:
\* the counter is one unit per attempt a live intent ever had, the failed and the
\* reaped ones too. A crash, a refusal or a lost race neither leaks headroom nor
\* authorizes beyond the cap.
CapacityMatchesAttempts ==
  /\ used = Cardinality({a \in Attempts : attempt[a].intent \in LiveIntents})
  /\ used <= Cap

\* The fee payer signs only what was pinned on an attempt, and a row never
\* names another message than the one broadcast for it.
AuthoritySignsOnlyPinned ==
  /\ \A m \in Msgs : chain[m] # "unsent" =>
       \E a \in Attempts : attempt[a].msg = m /\ attempt[a].intent = spendOf[m]
  /\ \A a \in Attempts : attempt[a].sig \in Msgs => attempt[a].sig = attempt[a].msg

\* An intent with a pinned message fails only on a verdict about that message:
\* no reaper writes failed over an ambiguous broadcast.
PinnedFailsOnVerdict ==
  [][\A i \in Intents, m \in Msgs :
       intent'[i] = "failed" /\ intent[i] # "failed" /\ spendOf[m] = i =>
         chain[m] = "err" \/ (chain[m] # "landed" /\ m \in stale)]_vars

\* Money that moved is never forgotten by the rows: its attempt can still
\* settle, settled, or was quarantined with the intent kept authorized.
MovedMoneyStaysOpen ==
  \A a \in Attempts :
    attempt[a].msg # None /\ chain[attempt[a].msg] = "landed" =>
      \/ attempt[a].status \in {"authorized", "settling", "succeeded"}
      \/ attempt[a].sig = None /\ intent[attempt[a].intent] = "authorized"

-----------------------------------------------------------------------------
(* The promise the rows implement *)

Promise == INSTANCE PaymentPromise WITH
  outcome <- [i \in Intents |-> IF intent[i] \in {"succeeded", "failed", "expired"}
                                THEN intent[i] ELSE "open"],
  moved <- {i \in Intents : Moved(i)},
  announced <- [i \in Intents |->
                 [e \in {"succeeded", "failed", "expired"} |-> told[i][e]]]

\* Attempts, locks, claims and sweeps together implement PaymentPromise: money
\* moves once and only while the intent is open, an ending is final, true of
\* the chain, and announced once, after it was decided.
KeepsPromise == Promise!Spec

-----------------------------------------------------------------------------
(* Fairness, and what it buys *)

\* A running handler goes on.  Postgres queues the waiters of an advisory
\* lock, and every reconcileSettling tick visits every row of its three legs,
\* so a row that keeps qualifying is reached whatever else the worker does.
Fairness ==
  /\ \A p \in Procs : WF_vars(Step(p)) /\ SF_vars(TakeLock(p))
  /\ SF_vars(\E w \in Workers : ExpireStale(w))
  /\ \A a \in Attempts :
       /\ SF_vars(\E w \in Workers : Sweep(w, a))
       /\ SF_vars(\E w \in Workers : Resume(w, a))
       /\ SF_vars(\E w \in Workers : ReapSelect(w, a))
       /\ WF_vars(GrowsOld(a))
  /\ \A m \in Msgs : WF_vars(BlockhashExpires(m))

FairSpec == Spec /\ Fairness

\* A broadcast attempt gets a verdict: the sweep is the tail behind the poll,
\* also after the process that polled died.
SettlingResolves ==
  \A a \in Attempts :
    attempt[a].status = "settling" ~> attempt[a].status \in {"succeeded", "failed"}

\* A claimed settlement is completed, also after the process that claimed it
\* died at any of its statements, once the merchant has an endpoint: the resume leg
\* asks for one on behalf of a sandbox Payment too, and until there is one an
\* interrupted sandbox Payment stays settling.
ClaimedCompletes ==
  \A a \in Attempts, i \in Intents :
    (/\ attempt[a].intent = i /\ attempt[a].status = "succeeded"
     /\ intent[i] = "settling" /\ i \in endpoint)
      ~> (intent[i] = "succeeded")

\* An authorized attempt does not block its intent for ever: it is submitted,
\* or reaped.
AuthorizedIsReleased ==
  \A a \in Attempts :
    attempt[a].status = "authorized" ~> attempt[a].status # "authorized"

\* submitSettlement's comment on the window between its two writes: "the
\* window is what the stuck-authorized reaper (task 4.4) recovers from".
SubmitWindowRecovered ==
  \A a \in Attempts, i \in Intents :
    (attempt[a].intent = i /\ attempt[a].status = "settling" /\ intent[i] = "authorized")
      ~> (intent[i] # "authorized")

\* The sweep as "the tail safety net behind the active poll": an intent that
\* is settling ends, one way or the other.
SettlingIntentEnds ==
  \A i \in Intents :
    intent[i] = "settling" ~> intent[i] \in {"succeeded", "failed"}

=============================================================================
