----------------------------- MODULE ActivityFeed -----------------------------
(***************************************************************************)
(* The transfers table of one Consumer: what the app shows as Activity.    *)
(*                                                                         *)
(* Five writers meet in a row.  /transfers/submit broadcasts a Send and    *)
(* then writes it PENDING; the chain webhook and the replay of the chain   *)
(* write what landed, CONFIRMED; a tick asks the cluster about the rows    *)
(* that stay PENDING; and the completion of a Payment links its row to the *)
(* payments row.  None of them waits for another.  The replay starts at a  *)
(* bookmark, which the webhook moves as well.                              *)
(*                                                                         *)
(* Each transaction moves money once, so a row is a transaction here.  The *)
(* worth stamped on a row and the notice of an arrival are left out.       *)
(***************************************************************************)
EXTENDS Naturals, FiniteSets

CONSTANTS
  Txs,
  Mixes,       \* bound: which kinds of transaction meet, a set of [Txs -> Kinds]
  Submitters, Hooks, Replayers, Tickers, Completers,  \* handlers
  MaxFails,    \* bound: how many handlers throw or die, or reads fail
  None

Tailers == Hooks \cup Replayers
Procs == Submitters \cup Tailers \cup Tickers \cup Completers

\* A Send of /transfers/prepare, the Spend a Payment settled with, a transaction
\* of others, or none.
Kinds == {"send", "pay", "arrival", "none"}

Final == {"CONFIRMED", "FAILED"}
Rows == [status : {"PENDING"} \cup Final, intent : BOOLEAN, linked : BOOLEAN]

ASSUME ConstantsAssumption ==
  /\ IsFiniteSet(Txs) /\ None \notin Txs \cup Rows
  /\ Mixes \subseteq [Txs -> Kinds]
  /\ Hooks \cap Replayers = {}
  /\ Submitters \cap (Tailers \cup Tickers \cup Completers) = {}
  /\ Tailers \cap (Tickers \cup Completers) = {} /\ Tickers \cap Completers = {}
  /\ MaxFails \in Nat

Slots == 0..Cardinality(Txs)
Verdicts == {"none", "landed", "errored", "unknown"}

VARIABLES
  kind,      \* what a transaction is, from the start
  fate,      \* what became of a transaction
  slot,      \* where it landed
  lapsed,    \* Sends past the lifetime of their blockhash
  old,       \* Sends whose row has been PENDING past PENDING_EXPIRY_MS
  prepared,  \* Sends with a transfer-intent record
  paid,      \* Pays with a payments row
  row,       \* transfers
  bookmark,  \* tailer_state.last_indexed_slot
  claims,    \* inbound_webhook_events
  acked,     \* deliveries the provider makes no more
  pc, on,    \* a handler and its transaction
  link,      \* whether a tailer found a payments row
  expired, verdict,  \* what a tick read
  todo,      \* what a replay has yet to write
  fails

chain == <<kind, fate, slot, lapsed>>
webhook == <<claims, acked>>
read == <<link, expired, verdict, todo>>
vars == <<kind, fate, slot, lapsed, old, prepared, paid, row, bookmark, claims, acked,
          pc, on, link, expired, verdict, todo, fails>>

Sends == {t \in Txs : kind[t] = "send"}
Pays == {t \in Txs : kind[t] = "pay"}

TypeOK ==
  /\ kind \in Mixes
  /\ fate \in [Txs -> {"none", "flying", "landed", "errored", "lost"}]
  /\ slot \in [Txs -> Slots]
  /\ lapsed \subseteq Sends /\ old \subseteq lapsed
  /\ prepared \subseteq Sends \ lapsed
  /\ paid \subseteq {t \in Pays : fate[t] = "landed"}
  /\ row \in [Txs -> Rows \cup {None}]
  /\ bookmark \in Slots
  /\ claims \subseteq Txs /\ acked \subseteq Txs
  /\ pc \in [Procs -> {"idle", "broadcast", "write", "erase", "next", "correlate",
                       "upsert", "mark", "ask", "settle", "link"}]
  /\ on \in [Procs -> Txs \cup {None}]
  /\ \A p \in Procs : pc[p] \notin {"idle", "next"} => on[p] # None
  /\ link \in [Tailers -> BOOLEAN]
  /\ expired \in [Tickers -> BOOLEAN]
  /\ verdict \in [Tickers -> Verdicts]
  /\ todo \in [Tailers -> SUBSET Txs]
  /\ fails \in 0..MaxFails

Init ==
  /\ kind \in Mixes
  /\ fate = [t \in Txs |-> "none"]
  /\ slot = [t \in Txs |-> 0]
  /\ lapsed = {} /\ old = {} /\ prepared = {} /\ paid = {}
  /\ row = [t \in Txs |-> None]
  /\ bookmark = 0
  /\ claims = {} /\ acked = {}
  /\ pc = [p \in Procs |-> "idle"]
  /\ on = [p \in Procs |-> None]
  /\ link = [p \in Tailers |-> FALSE]
  /\ expired = [p \in Tickers |-> FALSE]
  /\ verdict = [p \in Tickers |-> "none"]
  /\ todo = [p \in Tailers |-> {}]
  /\ fails = 0

-----------------------------------------------------------------------------
Step(p, from, to) == pc[p] = from /\ pc' = [pc EXCEPT ![p] = to] /\ UNCHANGED on
Begin(p, to, t) ==
  /\ pc[p] = "idle"
  /\ pc' = [pc EXCEPT ![p] = to] /\ on' = [on EXCEPT ![p] = t]
Finish(p) == pc' = [pc EXCEPT ![p] = "idle"] /\ on' = [on EXCEPT ![p] = None]
\* What a handler read goes with it.
Forget(p) ==
  /\ link' = IF p \in Tailers THEN [link EXCEPT ![p] = FALSE] ELSE link
  /\ todo' = IF p \in Tailers THEN [todo EXCEPT ![p] = {}] ELSE todo
  /\ expired' = IF p \in Tickers THEN [expired EXCEPT ![p] = FALSE] ELSE expired
  /\ verdict' = IF p \in Tickers THEN [verdict EXCEPT ![p] = "none"] ELSE verdict
Fail == fails < MaxFails /\ fails' = fails + 1

\* The status guard of every write: what is final stays.
\* Fault: the write takes its own status.
Kept_Incoming(status, incoming) == incoming
Kept(status, incoming) == IF status \in Final THEN status ELSE incoming

-----------------------------------------------------------------------------
(* The chain and the clock *)

Tip == CHOOSE n \in Slots : n \in {slot[t] : t \in Txs} /\ \A t \in Txs : slot[t] <= n

\* A Send lands while its blockhash lives; what others send lands when it likes.
Land(t) ==
  /\ kind[t] # "none"
  /\ fate[t] = IF t \in Sends THEN "flying" ELSE "none"
  /\ \/ /\ fate' = [fate EXCEPT ![t] = "landed"]
        /\ \E n \in {Tip, Tip + 1} \ {0} : slot' = [slot EXCEPT ![t] = n]
     \/ /\ t \in Sends
        /\ fate' = [fate EXCEPT ![t] = "errored"]
        /\ UNCHANGED slot
  /\ UNCHANGED <<kind, lapsed, old, prepared, paid, row, bookmark, webhook, pc, on, read, fails>>

\* Intent and blockhash last as long as each other: what has not landed never will.
Lapse(t) ==
  /\ t \in Sends \ lapsed
  /\ t \in prepared \/ fate[t] # "none"
  /\ lapsed' = lapsed \cup {t}
  /\ prepared' = prepared \ {t}
  /\ fate' = [fate EXCEPT ![t] = IF @ = "flying" THEN "lost" ELSE @]
  /\ UNCHANGED <<kind, slot, old, paid, row, bookmark, webhook, pc, on, read, fails>>

Pending(t) == row[t] # None /\ row[t].status = "PENDING"

\* A row is old two minutes after it was written, a blockhash within one.
GrowOld(t) ==
  /\ Pending(t) /\ t \in lapsed \ old
  /\ old' = old \cup {t}
  /\ UNCHANGED <<chain, prepared, paid, row, bookmark, webhook, pc, on, read, fails>>

-----------------------------------------------------------------------------
(* TransferService *)

Prepare(t) ==
  /\ t \notin prepared \cup lapsed /\ fate[t] = "none"
  /\ prepared' = prepared \cup {t}
  /\ UNCHANGED <<chain, old, paid, row, bookmark, webhook, pc, on, read, fails>>

\* A row with the intent's id answers a replay; without the intent there is no Send.
Submit(p, t) ==
  /\ ~(row[t] # None /\ row[t].intent)
  /\ t \in prepared
  /\ Begin(p, "broadcast", t)
  /\ UNCHANGED <<chain, old, prepared, paid, row, bookmark, webhook, read, fails>>

\* The cluster takes one signature once, however often it is sent.
Sent(t) == [fate EXCEPT ![t] = IF @ = "none" THEN "flying" ELSE @]

Broadcast(p) ==
  /\ Step(p, "broadcast", "write")
  /\ on[p] \notin lapsed
  /\ fate' = Sent(on[p])
  /\ UNCHANGED <<kind, slot, lapsed, old, prepared, paid, row, bookmark, webhook, read, fails>>

\* A dead blockhash or a signature already processed is refused, and a node that
\* fails to answer may have sent it: no row is written.
BroadcastThrows(p) ==
  /\ pc[p] = "broadcast"
  /\ \/ /\ on[p] \in lapsed \/ fate[on[p]] # "none"
        /\ UNCHANGED <<fate, fails>>
     \/ /\ Fail
        /\ fate' = fate \/ (on[p] \notin lapsed /\ fate' = Sent(on[p]))
  /\ Finish(p)
  /\ UNCHANGED <<kind, slot, lapsed, old, prepared, paid, row, bookmark, webhook, read>>

\* A row the webhook wrote first is adopted.
WriteRow(p) ==
  LET t == on[p]
  IN /\ Step(p, "write", "erase")
     /\ row' = [row EXCEPT ![t] =
          IF row[t] = None THEN [status |-> "PENDING", intent |-> TRUE, linked |-> FALSE]
          ELSE [row[t] EXCEPT !.status = Kept(row[t].status, "PENDING"), !.intent = TRUE]]
     /\ UNCHANGED <<chain, old, prepared, paid, bookmark, webhook, read, fails>>

EraseIntent(p) ==
  /\ pc[p] = "erase"
  /\ prepared' = prepared \ {on[p]}
  /\ Finish(p)
  /\ UNCHANGED <<chain, old, paid, row, bookmark, webhook, read, fails>>

-----------------------------------------------------------------------------
(* TailerService.upsertConfirmedTransfer, for a delivery or in a replay *)

Correlate(p) ==
  /\ Step(p, "correlate", "upsert")
  /\ link' = [link EXCEPT ![p] = on[p] \in paid]
  /\ UNCHANGED <<chain, old, prepared, paid, row, bookmark, webhook, expired, verdict, todo, fails>>

Upsert(p) ==
  LET t == on[p]
  IN /\ Step(p, "upsert", "mark")
     /\ row' = [row EXCEPT ![t] =
          IF row[t] = None THEN [status |-> "CONFIRMED", intent |-> FALSE, linked |-> link[p]]
          ELSE [row[t] EXCEPT !.status = Kept(row[t].status, "CONFIRMED"),
                              !.linked = row[t].linked \/ link[p]]]
     /\ link' = [link EXCEPT ![p] = FALSE]
     /\ UNCHANGED <<chain, old, prepared, paid, bookmark, webhook, expired, verdict, todo, fails>>

\* The bookmark only moves up.  A delivery is acknowledged, a replay goes on.
Mark(p) ==
  /\ pc[p] = "mark"
  /\ bookmark' = IF slot[on[p]] > bookmark THEN slot[on[p]] ELSE bookmark
  /\ \/ p \in Hooks /\ Finish(p) /\ acked' = acked \cup {on[p]}
     \/ p \in Replayers /\ Step(p, "mark", "next") /\ UNCHANGED acked
  /\ UNCHANGED <<chain, old, prepared, paid, row, claims, read, fails>>

-----------------------------------------------------------------------------
(* WebhookController *)

\* A delivery that is claimed already is acknowledged as a replay.
Deliver(p, t) ==
  /\ fate[t] = "landed" /\ t \notin acked
  /\ \/ /\ t \notin claims
        /\ claims' = claims \cup {t}
        /\ Begin(p, "correlate", t)
        /\ UNCHANGED acked
     \/ /\ t \in claims /\ pc[p] = "idle"
        /\ acked' = acked \cup {t}
        /\ UNCHANGED <<claims, pc, on>>
  /\ UNCHANGED <<chain, old, prepared, paid, row, bookmark, read, fails>>

\* The claim is released and the provider told to deliver again.
HookThrows(p) ==
  /\ pc[p] # "idle" /\ Fail
  /\ claims' = claims \ {on[p]}
  /\ Finish(p) /\ Forget(p)
  /\ UNCHANGED <<chain, old, prepared, paid, row, bookmark, acked>>

\* The kill switch acknowledges what it does not read, and providers give up.
Unheard(t) ==
  /\ fate[t] = "landed" /\ t \notin acked
  /\ acked' = acked \cup {t}
  /\ UNCHANGED <<chain, old, prepared, paid, row, bookmark, claims, pc, on, read, fails>>

-----------------------------------------------------------------------------
(* ReconcilerService: the replay of the wallet *)

\* From the bookmark, or from a payment that lies before it.
\* Fault: always from the bookmark.
Since_Bookmark(target) == bookmark
Since(target) == IF target # None /\ slot[target] < bookmark THEN slot[target] ELSE bookmark

Replay(p, target) ==
  /\ Begin(p, "next", None)
  /\ todo' = [todo EXCEPT ![p] =
       {t \in Txs : fate[t] = "landed" /\ slot[t] >= Since(target)}]
  /\ UNCHANGED <<chain, old, prepared, paid, row, bookmark, webhook, link, expired, verdict, fails>>

Sweep(p) == Replay(p, None)

Indexed(t) == row[t] # None /\ row[t].linked /\ row[t].status = "CONFIRMED"

\* PaymentActivityService, on payment.succeeded and every minute.
Repair(p, t) == t \in paid /\ ~Indexed(t) /\ Replay(p, t)

\* Oldest first; a transaction that cannot be read just then is passed over.
NextTransfer(p) ==
  /\ pc[p] = "next"
  /\ \/ todo[p] = {} /\ Finish(p) /\ UNCHANGED <<todo, fails>>
     \/ \E t \in todo[p] :
          /\ \A u \in todo[p] : slot[t] <= slot[u]
          /\ todo' = [todo EXCEPT ![p] = @ \ {t}]
          /\ \/ /\ pc' = [pc EXCEPT ![p] = "correlate"] /\ on' = [on EXCEPT ![p] = t]
                /\ UNCHANGED fails
             \/ Fail /\ UNCHANGED <<pc, on>>
  /\ UNCHANGED <<chain, old, prepared, paid, row, bookmark, webhook, link, expired, verdict>>

-----------------------------------------------------------------------------
(* ReconcilerService.tick, one row of its batch *)

\* Fault: every row the tick selects counts as expired.
Expired_Selected(t) == TRUE
Expired(t) == t \in old

TickSelect(p, t) ==
  /\ Pending(t)
  /\ Begin(p, "ask", t)
  /\ expired' = [expired EXCEPT ![p] = Expired(t)]
  /\ UNCHANGED <<chain, old, prepared, paid, row, bookmark, webhook, link, verdict, todo, fails>>

TickAsk(p) ==
  /\ Step(p, "ask", "settle")
  /\ verdict' = [verdict EXCEPT ![p] =
       IF fate[on[p]] \in {"landed", "errored"} THEN fate[on[p]] ELSE "unknown"]
  /\ UNCHANGED <<chain, old, prepared, paid, row, bookmark, webhook, link, expired, todo, fails>>

\* Each write is guarded on PENDING.
TickSettle(p) ==
  LET t == on[p]
      to == IF verdict[p] = "landed" THEN "CONFIRMED"
            ELSE IF verdict[p] = "errored" \/ expired[p] THEN "FAILED" ELSE "PENDING"
  IN /\ pc[p] = "settle"
     /\ row' = IF Pending(t) THEN [row EXCEPT ![t].status = to] ELSE row
     /\ Finish(p) /\ Forget(p)
     /\ UNCHANGED <<chain, old, prepared, paid, bookmark, webhook, fails>>

-----------------------------------------------------------------------------
(* SettlementConfirmationService: the payments row, then the link *)

\* Fault: what was sent counts as settled.
Settled_Sent(t) == TRUE
Settled(t) == fate[t] = "landed"

RecordPayment(p, t) ==
  /\ t \in Pays \ paid /\ Settled(t)
  /\ paid' = paid \cup {t}
  /\ Begin(p, "link", t)
  /\ UNCHANGED <<chain, old, prepared, row, bookmark, webhook, read, fails>>

LinkTransfer(p) ==
  LET t == on[p]
  IN /\ pc[p] = "link"
     /\ row' = IF row[t] # None THEN [row EXCEPT ![t].linked = TRUE] ELSE row
     /\ Finish(p)
     /\ UNCHANGED <<chain, old, prepared, paid, bookmark, webhook, read, fails>>

-----------------------------------------------------------------------------
Die(p) ==
  /\ pc[p] # "idle" /\ Fail
  /\ Finish(p) /\ Forget(p)
  /\ UNCHANGED <<chain, old, prepared, paid, row, bookmark, webhook>>

Tail(p) == Correlate(p) \/ Upsert(p) \/ Mark(p)
Tick(p) == (\E t \in Sends : TickSelect(p, t)) \/ TickAsk(p) \/ TickSettle(p)
RepairOne(p) == \E t \in Pays : Repair(p, t)
Replaying(p) == NextTransfer(p) \/ Tail(p)

Next ==
  \/ \E t \in Txs : Land(t) \/ Unheard(t)
  \/ \E t \in Sends : Prepare(t) \/ Lapse(t) \/ GrowOld(t)
  \/ \E p \in Submitters :
       \/ \E t \in Sends : Submit(p, t)
       \/ Broadcast(p) \/ BroadcastThrows(p) \/ WriteRow(p) \/ EraseIntent(p)
  \/ \E p \in Hooks : (\E t \in Txs : Deliver(p, t)) \/ Tail(p) \/ HookThrows(p)
  \/ \E p \in Replayers : Sweep(p) \/ RepairOne(p) \/ Replaying(p)
  \/ \E p \in Tickers : Tick(p)
  \/ \E p \in Completers : (\E t \in Txs : RecordPayment(p, t)) \/ LinkTransfer(p)
  \/ \E p \in Procs : Die(p)

Spec == Init /\ [][Next]_vars

\* Time passes, and the crons run: the tick, the replays, and the repair of
\* payments, which has a timer of its own that no sweep holds up.
FairSpec ==
  /\ Spec
  /\ \A t \in Txs : WF_vars(Lapse(t) \/ GrowOld(t))
  /\ \A p \in Tickers : WF_vars(Tick(p))
  /\ \A p \in Replayers : WF_vars(Replaying(p)) /\ SF_vars(RepairOne(p))

-----------------------------------------------------------------------------
(* What the app shows of it *)

Promise == INSTANCE FeedPromise WITH
  shown <- [t \in Txs |-> IF row[t] = None THEN "none" ELSE row[t].status],
  linked <- {t \in Txs : row[t] # None /\ row[t].linked}

\* In whatever order submit, webhook, replay, tick and completion write a row, each
\* write is true of the chain, an end is the last word (tailer.service.ts:17-22), a
\* link is a settled Payment's, and the bookmark rises only to what is on show.
KeepsPromise == Promise!Spec

-----------------------------------------------------------------------------
(* Properties *)

\* No late writer moves a row that reached its end, in whatever order submit,
\* webhook, replay and tick come (tailer.service.ts:17-22).
StatusIsFinal ==
  [][\A t \in Txs :
       (row[t] # None /\ row[t].status \in Final) => row'[t].status = row[t].status]_vars

\* A Send shown as pending ends as what became of it, and stays so: CONFIRMED when
\* the money moved, FAILED when it did not and never will.
Truth(t) == IF fate[t] = "landed" THEN "CONFIRMED" ELSE "FAILED"
EndsAs(t, status) == row[t] # None /\ row[t].status = status
SendEndsTruly == \A t \in Txs : (Pending(t) /\ t \in Sends) ~> []EndsAs(t, Truth(t))

\* A settled Payment gets its Activity row, linked, although its delivery was
\* lost, the bookmark has passed it, or the tailer looked before the payments row
\* was there (payment-activity.service.ts:98-103).
PaymentGetsItsActivity == \A t \in Txs : t \in paid ~> Indexed(t)

=============================================================================
