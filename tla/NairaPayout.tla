----------------------------- MODULE NairaPayout -----------------------------
(***************************************************************************)
(* The deferred rail: a claimed settlement whose merchant is paid in naira *)
(* by Blockradar.  It is modelled as it runs with the conversion switched  *)
(* on (BLOCKRADAR_SOLANA_NATIVE_ENABLED), which the pilot leaves off.      *)
(*                                                                         *)
(* Four parties share an off-ramp row.  Completion (the process that       *)
(* claimed the attempt, or the resume leg of a sweep) opens it and asks    *)
(* for the conversion; Blockradar converts, and reports with webhooks that *)
(* are repeated until acknowledged and may overtake each other; the        *)
(* receiver moves the row and completes the Payment; and a reconciler      *)
(* fails a row that stayed silent.  The attempt is claimed already, so     *)
(* PaymentLifecycle's verdicts are past; its Complete is refined here.     *)
(***************************************************************************)
EXTENDS Naturals, FiniteSets

CONSTANTS
  Settlements,  \* claimed attempts: signature, intent and off-ramp row
  Workers,      \* processes that complete a claimed settlement
  Hooks,        \* webhook requests in progress
  Timers,       \* runs of the off-ramp reconciler
  MaxFails,     \* bound: how many handlers throw or die part of the way
  None

ASSUME ConstantsAssumption ==
  /\ Workers \cap Hooks = {} /\ Workers \cap Timers = {} /\ Hooks \cap Timers = {}
  /\ None \notin Settlements
  /\ MaxFails \in Nat

Procs == Workers \cup Hooks \cup Timers
Kinds == {"processing", "paid", "failed"}
RampStatuses == {"none", "pending", "converting", "paid", "failed"}
Topics == {"payout.initiated", "payout.completed", "payout.failed", "payment.succeeded"}
PCs == {"idle", "link", "open", "withdraw", "tellInitiated", "record",
        "processing", "paid", "complete", "tellCompleted",
        "failed", "tellFailed", "timeout", "tellTimeout", "reopen"}

VARIABLES
  intent,   \* payment_intents.status
  claimed,  \* settlements whose attempt is claimed
  lapsed,   \* claims old enough for the resume leg
  payment,  \* settlements with a payments row
  ramp,     \* settlement_offramps.status
  linked,   \* off-ramp rows that carry a payment_id
  quiet,    \* off-ramp rows untouched for the stuck window
  asked,    \* how often the conversion was asked for
  bank,     \* what Blockradar knows: asked, landed, refused
  sent,     \* webhooks Blockradar delivers until acknowledged
  acted,    \* inbound_webhook_events: deliveries already claimed
  told,     \* how often each event was published
  pc, on, kind, saw, was,  \* a process and what it read
  fails

settled == <<intent, claimed, lapsed, payment>>
ramps == <<ramp, linked, quiet>>
provider == <<asked, bank, sent>>
locals == <<pc, on, kind, saw, was>>
vars == <<intent, claimed, lapsed, payment, ramp, linked, quiet, asked, bank,
          sent, acted, told, pc, on, kind, saw, was, fails>>

TypeOK ==
  /\ intent \in [Settlements -> {"settling", "succeeded"}]
  /\ claimed \in SUBSET Settlements
  /\ lapsed \in SUBSET Settlements
  /\ payment \in SUBSET Settlements
  /\ ramp \in [Settlements -> RampStatuses]
  /\ linked \in SUBSET Settlements
  /\ quiet \in SUBSET Settlements
  /\ asked \in [Settlements -> Nat]
  /\ bank \in [Settlements -> {"none", "asked", "landed", "refused"}]
  /\ sent \in SUBSET (Settlements \X Kinds)
  /\ acted \in SUBSET (Settlements \X Kinds)
  /\ told \in [Settlements -> [Topics -> Nat]]
  /\ pc \in [Procs -> PCs]
  /\ on \in [Procs -> Settlements \cup {None}]
  /\ kind \in [Procs -> Kinds \cup {None}]
  /\ saw \in [Procs -> BOOLEAN]
  /\ was \in [Procs -> RampStatuses]
  /\ fails \in Nat

Init ==
  /\ intent = [s \in Settlements |-> "settling"]
  /\ claimed = {} /\ lapsed = {} /\ payment = {}
  /\ ramp = [s \in Settlements |-> "none"]
  /\ linked = {} /\ quiet = {}
  /\ asked = [s \in Settlements |-> 0]
  /\ bank = [s \in Settlements |-> "none"]
  /\ sent = {} /\ acted = {}
  /\ told = [s \in Settlements |-> [t \in Topics |-> 0]]
  /\ pc = [p \in Procs |-> "idle"]
  /\ on = [p \in Procs |-> None]
  /\ kind = [p \in Procs |-> None]
  /\ saw = [p \in Procs |-> FALSE]
  /\ was = [p \in Procs |-> "none"]
  /\ fails = 0

-----------------------------------------------------------------------------
Goto(p, label) == pc' = [pc EXCEPT ![p] = label] /\ UNCHANGED <<on, kind, saw, was>>

Begin(p, label, s, k, st) ==
  /\ pc' = [pc EXCEPT ![p] = label]
  /\ on' = [on EXCEPT ![p] = s]
  /\ kind' = [kind EXCEPT ![p] = k]
  /\ was' = [was EXCEPT ![p] = st]
  /\ UNCHANGED saw

Finish(p) ==
  /\ pc' = [pc EXCEPT ![p] = "idle"]
  /\ on' = [on EXCEPT ![p] = None]
  /\ kind' = [kind EXCEPT ![p] = None]
  /\ saw' = [saw EXCEPT ![p] = FALSE]
  /\ was' = [was EXCEPT ![p] = "none"]

Publish(s, topic) == told' = [told EXCEPT ![s][topic] = @ + 1]

\* A write to the row restarts its clock.
\* Fault: the provider's own word is written for a conversion under way.
SetRamp_Verbatim(s, to) ==
  /\ ramp' = [ramp EXCEPT ![s] = IF to = "converting" THEN "processing" ELSE to]
  /\ quiet' = quiet \ {s}
SetRamp(s, to) ==
  /\ ramp' = [ramp EXCEPT ![s] = to]
  /\ quiet' = quiet \ {s}

-----------------------------------------------------------------------------
(* completeClaimedSettlement over handleIncomingSettlement *)

\* finalizeSucceeded won the claim and goes on to completion.
ClaimSettlement(w, s) ==
  /\ pc[w] = "idle"
  /\ s \notin claimed
  /\ claimed' = claimed \cup {s}
  /\ Begin(w, "link", s, None, "none")
  /\ UNCHANGED <<intent, lapsed, payment, ramps, provider, acted, told, fails>>

\* A deferred payout in order has both rows, and is left alone.
\* Fault: only a settlement without an off-ramp row is looked for.
Resumable_NoRamp(s) == s \in lapsed /\ intent[s] = "settling" /\ ramp[s] = "none"
Resumable(s) ==
  /\ s \in lapsed
  /\ intent[s] = "settling"
  /\ s \notin payment \/ ramp[s] = "none"

Resume(w, s) ==
  /\ pc[w] = "idle"
  /\ Resumable(s)
  /\ Begin(w, "link", s, None, "none")
  /\ UNCHANGED <<settled, ramps, provider, acted, told, fails>>

\* resolvePaymentId: the payments row as it is before this completion wrote it.
ReadLink(w) ==
  /\ pc[w] = "link"
  /\ saw' = [saw EXCEPT ![w] = on[w] \in payment]
  /\ pc' = [pc EXCEPT ![w] = "open"]
  /\ UNCHANGED <<on, kind, was, settled, ramps, provider, acted, told, fails>>

\* The insert is unique per signature; who conflicts asks for nothing.
\* Fault: a completion run again opens the row again.
Unopened_Always(s) == TRUE
Unopened(s) == ramp[s] = "none"

OpenRamp(w) ==
  /\ pc[w] = "open"
  /\ \/ /\ Unopened(on[w])
        /\ SetRamp(on[w], "pending")
        /\ linked' = IF saw[w] THEN linked \cup {on[w]} ELSE linked
        /\ Goto(w, "withdraw")
     \/ /\ ~Unopened(on[w])
        /\ Goto(w, "record")
        /\ UNCHANGED ramps
  /\ UNCHANGED <<settled, provider, acted, told, fails>>

\* POST withdraw-fiat. It may throw with the request already accepted.
Withdraw(w) ==
  /\ pc[w] = "withdraw"
  /\ asked' = [asked EXCEPT ![on[w]] = @ + 1]
  /\ bank' = [bank EXCEPT ![on[w]] = IF @ = "none" THEN "asked" ELSE @]
  /\ Goto(w, "tellInitiated") \/ Finish(w)
  /\ UNCHANGED <<settled, ramps, sent, acted, told, fails>>

TellInitiated(w) ==
  /\ pc[w] = "tellInitiated"
  /\ Publish(on[w], "payout.initiated")
  /\ Goto(w, "record")
  /\ UNCHANGED <<settled, ramps, provider, acted, fails>>

\* The payments row; the completion is pending, so the intent stays settling.
RecordPayment(w) ==
  /\ pc[w] = "record"
  /\ payment' = payment \cup {on[w]}
  /\ Finish(w)
  /\ UNCHANGED <<intent, claimed, lapsed, ramps, provider, acted, told, fails>>

-----------------------------------------------------------------------------
(* BlockradarWebhookController.receive *)

\* The delivery is claimed before it is acted on; a replay is acknowledged.
Receive(h, s, k) ==
  /\ pc[h] = "idle"
  /\ <<s, k>> \in sent \ acted
  /\ acted' = acted \cup {<<s, k>>}
  /\ Begin(h, k, s, k, "none")
  /\ UNCHANGED <<settled, ramps, provider, told, fails>>

HandleProcessing(h) ==
  /\ pc[h] = "processing"
  /\ \/ ramp[on[h]] = "pending" /\ SetRamp(on[h], "converting")
     \/ ramp[on[h]] # "pending" /\ UNCHANGED <<ramp, quiet>>
  /\ Finish(h)
  /\ UNCHANGED <<linked, settled, provider, acted, told, fails>>

\* Only a pending row becomes paid.
\* Fault: the row's status is not part of the UPDATE.
Payable_Any(s) == TRUE
Payable(s) == ramp[s] = "pending"

HandlePaid(h) ==
  /\ pc[h] = "paid"
  /\ \/ Payable(on[h]) /\ SetRamp(on[h], "paid") /\ Goto(h, "complete")
     \/ ~Payable(on[h]) /\ Finish(h) /\ UNCHANGED <<ramp, quiet>>
  /\ UNCHANGED <<linked, settled, provider, acted, told, fails>>

\* completeDeferredSettlement, for a row that carries a payment_id: the gated
\* transition with its event, between which a crash only loses the event.
CompleteDeferred(h) ==
  LET completes == on[h] \in linked /\ intent[on[h]] = "settling"
  IN /\ pc[h] = "complete"
     /\ intent' = [intent EXCEPT ![on[h]] = IF completes THEN "succeeded" ELSE @]
     /\ told' = [told EXCEPT ![on[h]]["payment.succeeded"] =
                   IF completes THEN @ + 1 ELSE @]
     /\ Goto(h, "tellCompleted")
     /\ UNCHANGED <<claimed, lapsed, payment, ramps, provider, acted, fails>>

HandleFailed(h) ==
  /\ pc[h] = "failed"
  /\ \/ ramp[on[h]] = "pending" /\ SetRamp(on[h], "failed") /\ Goto(h, "tellFailed")
     \/ ramp[on[h]] # "pending" /\ Finish(h) /\ UNCHANGED <<ramp, quiet>>
  /\ UNCHANGED <<linked, settled, provider, acted, told, fails>>

\* The payout event that ends a delivery. The publish may throw although it
\* went out, and the delivery is released all the same.
TellPayout(h) ==
  /\ \/ pc[h] = "tellCompleted" /\ Publish(on[h], "payout.completed")
     \/ pc[h] = "tellFailed" /\ Publish(on[h], "payout.failed")
  /\ \/ UNCHANGED <<acted, fails>>
     \/ fails < MaxFails /\ fails' = fails + 1 /\ acted' = acted \ {<<on[h], kind[h]>>}
  /\ Finish(h)
  /\ UNCHANGED <<settled, ramps, provider>>

\* A throw releases the claim and answers 500, so Blockradar delivers again.
Throws(h) ==
  /\ pc[h] # "idle"
  /\ fails < MaxFails
  /\ fails' = fails + 1
  /\ acted' = acted \ {<<on[h], kind[h]>>}
  /\ Finish(h)
  /\ UNCHANGED <<settled, ramps, provider, told>>

-----------------------------------------------------------------------------
(* OfframpReconcilerService.tick *)

\* Fault: a conversion under way is waited for without end.
Stuck_PendingOnly(s) == ramp[s] = "pending" /\ s \in quiet
Stuck(s) == ramp[s] \in {"pending", "converting"} /\ s \in quiet

SelectStuck(t, s) ==
  /\ pc[t] = "idle"
  /\ Stuck(s)
  /\ Begin(t, "timeout", s, None, ramp[s])
  /\ UNCHANGED <<settled, ramps, provider, acted, told, fails>>

\* The webhook that landed since the selection wins.
\* Fault: the selection is trusted.
StillStuck_Trusted(t) == TRUE
StillStuck(t) == ramp[on[t]] = was[t]

TimeOut(t) ==
  /\ pc[t] = "timeout"
  /\ \/ StillStuck(t) /\ SetRamp(on[t], "failed") /\ Goto(t, "tellTimeout")
     \/ ~StillStuck(t) /\ Finish(t) /\ UNCHANGED <<ramp, quiet>>
  /\ UNCHANGED <<linked, settled, provider, acted, told, fails>>

\* The publish may throw, and may have gone out although it threw: then the
\* row is put back as it was.
TellTimeout(t) ==
  /\ pc[t] = "tellTimeout"
  /\ \/ Publish(on[t], "payout.failed") /\ Finish(t) /\ UNCHANGED fails
     \/ /\ fails < MaxFails
        /\ fails' = fails + 1
        /\ Publish(on[t], "payout.failed") \/ UNCHANGED told
        /\ Goto(t, "reopen")
  /\ UNCHANGED <<settled, ramps, provider, acted>>

Reopen(t) ==
  /\ pc[t] = "reopen"
  /\ \/ /\ ramp[on[t]] = "failed"
        /\ ramp' = [ramp EXCEPT ![on[t]] = was[t]]
        /\ quiet' = quiet \cup {on[t]}
     \/ /\ ramp[on[t]] # "failed"
        /\ UNCHANGED <<ramp, quiet>>
  /\ Finish(t)
  /\ UNCHANGED <<linked, settled, provider, acted, told, fails>>

-----------------------------------------------------------------------------
(* A process dies; Blockradar, and time *)

Crash(p) ==
  /\ pc[p] # "idle"
  /\ fails < MaxFails
  /\ fails' = fails + 1
  /\ Finish(p)
  /\ UNCHANGED <<settled, ramps, provider, acted, told>>

Converts(s) ==
  /\ bank[s] = "asked"
  /\ sent' = sent \cup {<<s, "processing">>}
  /\ UNCHANGED <<settled, ramps, asked, bank, acted, told, locals, fails>>

PaysOut(s) ==
  /\ bank[s] = "asked"
  /\ \/ bank' = [bank EXCEPT ![s] = "landed"] /\ sent' = sent \cup {<<s, "paid">>}
     \/ bank' = [bank EXCEPT ![s] = "refused"] /\ sent' = sent \cup {<<s, "failed">>}
  /\ UNCHANGED <<settled, ramps, asked, acted, told, locals, fails>>

Lapses(s) ==
  /\ s \in claimed \ lapsed
  /\ lapsed' = lapsed \cup {s}
  /\ UNCHANGED <<intent, claimed, payment, ramps, provider, acted, told, locals, fails>>

GoesQuiet(s) ==
  /\ ramp[s] \in {"pending", "converting"}
  /\ s \notin quiet
  /\ quiet' = quiet \cup {s}
  /\ UNCHANGED <<ramp, linked, settled, provider, acted, told, locals, fails>>

-----------------------------------------------------------------------------
CompletionStep(w) ==
  ReadLink(w) \/ OpenRamp(w) \/ Withdraw(w) \/ TellInitiated(w) \/ RecordPayment(w)

HookStep(h) ==
  \/ HandleProcessing(h) \/ HandlePaid(h) \/ CompleteDeferred(h)
  \/ HandleFailed(h) \/ TellPayout(h)

TimerStep(t) == TimeOut(t) \/ TellTimeout(t) \/ Reopen(t)

Step(p) == CompletionStep(p) \/ HookStep(p) \/ TimerStep(p)

Next ==
  \/ \E w \in Workers, s \in Settlements : ClaimSettlement(w, s) \/ Resume(w, s)
  \/ \E h \in Hooks, s \in Settlements, k \in Kinds : Receive(h, s, k)
  \/ \E t \in Timers, s \in Settlements : SelectStuck(t, s)
  \/ \E p \in Procs : Step(p) \/ Crash(p)
  \/ \E h \in Hooks : Throws(h)
  \/ \E s \in Settlements : Converts(s) \/ PaysOut(s) \/ Lapses(s) \/ GoesQuiet(s)

Spec == Init /\ [][Next]_vars

-----------------------------------------------------------------------------
(* What must hold *)

\* The conversion is asked for once at most, however often the completion is
\* run again (the unique signature of handleIncomingSettlement).
AskedOnce == \A s \in Settlements : asked[s] <= 1

\* A paid row says so for ever, and truly: no timeout selected earlier, no
\* reopening and no late webhook overwrites it.
PaidStaysPaid ==
  [][\A s \in Settlements :
       /\ ramp[s] = "paid" => ramp'[s] = "paid"
       /\ ramp'[s] = "paid" => bank[s] = "landed"]_vars

\* payout.completed goes out once at most, and only for naira that landed,
\* through replays, timeouts and reopened rows.
CompletedToldOnce ==
  \A s \in Settlements :
    /\ told[s]["payout.completed"] <= 1
    /\ told[s]["payout.completed"] > 0 => bank[s] = "landed"

-----------------------------------------------------------------------------
(* The promise the rows keep *)

Promise == INSTANCE PayoutPromise WITH
  payout <- [s \in Settlements |->
               IF ramp[s] \in {"pending", "converting"} THEN "open" ELSE ramp[s]],
  requests <- asked,
  payment <- intent,
  receipts <- [s \in Settlements |-> told[s]["payment.succeeded"]],
  notices <- [s \in Settlements |-> told[s]["payout.completed"]]

\* Completions run again, webhooks that repeat and overtake, and timeouts that
\* are taken back implement PayoutPromise: one conversion, a paid payout final
\* and true, and the Payment completed and announced once and only by it.
KeepsPromise == Promise!Spec

-----------------------------------------------------------------------------
(* Fairness: handlers go on, Blockradar repeats what was not acknowledged,   *)
(* and every sweep and every reconciler run takes up every row due.          *)
Fairness ==
  /\ \A p \in Procs : WF_vars(Step(p))
  /\ \A s \in Settlements :
       /\ SF_vars(\E w \in Workers : Resume(w, s))
       /\ SF_vars(\E t \in Timers : SelectStuck(t, s))
       /\ \A k \in Kinds : SF_vars(\E h \in Hooks : Receive(h, s, k))
       /\ WF_vars(Lapses(s)) /\ WF_vars(GoesQuiet(s))

FairSpec == Spec /\ Fairness

\* A claimed settlement gets its off-ramp row and its payments row, wherever
\* its first completion died.
ClaimedGetsItsRows ==
  \A s \in Settlements : s \in claimed ~> ramp[s] # "none" /\ s \in payment

\* An off-ramp row does not stay open for ever: a report or the timeout ends it.
OpenPayoutEnds ==
  \A s \in Settlements :
    ramp[s] \in {"pending", "converting"} ~> ramp[s] \in {"paid", "failed"}

\* The receiver's promise: "On a 'paid' event (naira landed) it builds a
\* SettlementCompletion and drives completion".
LandedNairaCompletes ==
  \A s \in Settlements : bank[s] = "landed" ~> intent[s] = "succeeded"

=============================================================================
