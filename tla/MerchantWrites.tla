---------------------------- MODULE MerchantWrites ----------------------------
(***************************************************************************)
(* The two merchant-facing writes that move on an Idempotency-Key: a       *)
(* refund of a settled payment and the creation of a payment intent.       *)
(*                                                                         *)
(* Both run inside IdempotencyService.run, which looks the key up, does    *)
(* the work, and only then stores the answer: nothing reserves the key     *)
(* while the work is under way.  What stands between two requests with one *)
(* key is therefore the unique index each table has of its own.  A refund  *)
(* runs under an advisory lock of its payment as well, on a connection it  *)
(* keeps until it ends; everybody else takes a connection per statement.   *)
(*                                                                         *)
(* A request is served once.  A retry is another request with the same     *)
(* key, and a process may die, or a statement throw, anywhere.             *)
(***************************************************************************)
EXTENDS Integers, FiniteSets

CONSTANTS
  Requests,    \* HTTP requests
  Keys,        \* Idempotency-Key values of one merchant
  Payments,    \* payments rows
  Sandbox,     \* those of test-mode intents
  Manual,      \* those paid to an endpoint no authority of ours can reverse
  Bodies,      \* bodies of POST /v1/payment_intents, each with metadata
  Worth,       \* payments.usdc_settlement_raw
  Asks,        \* what a request may ask for: a key and a body
  Pool,        \* connections of the database pool
  MaxFails,    \* bound: how many requests die or throw part of the way
  All, None

ASSUME ConstantsAssumption ==
  /\ Sandbox \subseteq Payments /\ Manual \subseteq Payments
  /\ Worth \in Nat \ {0} /\ Pool \in Nat \ {0} /\ MaxFails \in Nat
  /\ All \notin Int /\ None \notin Bodies
  /\ Payments \cap Bodies = {}

\* A refund names its payment and an amount, or all that is left; an intent its terms.
RefundBodies == [payment : Payments, amount : Nat \cup {All}]
IsRefund(ask) == ask.body \notin Bodies

ASSUME AsksAssumption == \A ask \in Asks : ask.key \in Keys /\ ask.body \in Bodies \cup RefundBodies

Scopes == {"legacy", "cluster"}
RefundStatuses == {"pending", "succeeded", "failed"}
Refunds == [payment : Payments, amount : 1..Worth, status : RefundStatuses]
Intents == [terms : Bodies, metadata : Bodies \cup {None}]
Records == [body : Bodies \cup RefundBodies, reply : Refunds \cup Intents]

ASSUME NoneAssumption == None \notin Refunds \cup Intents \cup Records

\* A refund from "find" to "store" runs under the lock of its payment.
UnderLock == {"find", "decide", "insert", "existing", "simulate", "reverse",
              "succeed", "fail", "store"}
Busy == {"received", "locking", "look", "create", "publish", "metadata"} \cup UnderLock
Ends == {"answered", "refused", "conflict", "failed"}
PCs == {"idle"} \cup Busy \cup Ends

VARIABLES
  confirmed,   \* payments whose intent succeeded
  refunds,     \* refunds, by (merchant, key)
  intents,     \* payment_intents, by (merchant, cluster, key)
  stored,      \* idempotency_keys, by scope and key
  reversals,   \* how many reversals were sent to the chain under a key
  created,     \* how often payment.created was published for a key's intent
  ask,         \* what each request asks for
  pc,
  amount,      \* the amount a refund decided on
  reply,       \* what produce returned, in the end what the caller was told
  fails

outside == <<reversals, created>>
vars == <<confirmed, refunds, intents, stored, reversals, created, ask, pc,
          amount, reply, fails>>

TypeOK ==
  /\ confirmed \subseteq Payments
  /\ refunds \in [Keys -> Refunds \cup {None}]
  /\ intents \in [Keys -> Intents \cup {None}]
  /\ stored \in [Scopes -> [Keys -> Records \cup {None}]]
  /\ reversals \in [Keys -> Nat]
  /\ created \in [Keys -> Nat]
  /\ ask \in [Requests -> Asks \cup {None}]
  /\ pc \in [Requests -> PCs]
  /\ \A r \in Requests : pc[r] # "idle" => ask[r] \in Asks
  /\ amount \in [Requests -> Nat]
  /\ reply \in [Requests -> Refunds \cup Intents \cup {None}]
  /\ fails \in 0..MaxFails

Init ==
  /\ confirmed = {}
  /\ refunds = [k \in Keys |-> None]
  /\ intents = [k \in Keys |-> None]
  /\ stored = [s \in Scopes |-> [k \in Keys |-> None]]
  /\ reversals = [k \in Keys |-> 0]
  /\ created = [k \in Keys |-> 0]
  /\ ask = [r \in Requests |-> None]
  /\ pc = [r \in Requests |-> "idle"]
  /\ amount = [r \in Requests |-> 0]
  /\ reply = [r \in Requests |-> None]
  /\ fails = 0

-----------------------------------------------------------------------------
(* Connections, and the lock of a payment *)

Key(r) == ask[r].key
Body(r) == ask[r].body
Scope(r) == IF IsRefund(ask[r]) THEN "legacy" ELSE "cluster"
Goto(r, label) == pc' = [pc EXCEPT ![r] = label]

Refunding(r) == pc[r] \in Busy /\ IsRefund(ask[r])
Pinned == {r \in Requests : Refunding(r) /\ pc[r] # "received"}

\* A statement needs a connection: a refund has one from before it holds its
\* lock, and every service it calls uses that; the others wait for a free one.
\* Fault: the services under the lock take connections of their own.
CanQuery_FromPool(r) == Cardinality(Pinned) < Pool
CanQuery(r) == r \in Pinned \/ Cardinality(Pinned) < Pool

\* Fault: the lock is that of the key, so two keys decide at the same time.
Unlocked_PerKey(r) ==
  \A q \in Requests : Refunding(q) /\ pc[q] \in UnderLock => Key(q) # Key(r)
Unlocked(r) ==
  \A q \in Requests :
    Refunding(q) /\ pc[q] \in UnderLock => Body(q).payment # Body(r).payment

-----------------------------------------------------------------------------
(* A request arrives *)

\* PaymentLifecycle brings the intent of a payments row to succeeded.
Confirm(p) ==
  /\ p \notin confirmed
  /\ confirmed' = confirmed \cup {p}
  /\ UNCHANGED <<refunds, intents, stored, outside, ask, pc, amount, reply, fails>>

Receive(r, a) ==
  /\ pc[r] = "idle"
  /\ ask' = [ask EXCEPT ![r] = a]
  /\ Goto(r, IF IsRefund(a) THEN "received" ELSE "find")
  /\ UNCHANGED <<confirmed, refunds, intents, stored, outside, amount, reply, fails>>

\* The payments row is read, and a connection taken to wait for the lock on.
Connect(r) ==
  /\ pc[r] = "received" /\ CanQuery(r)
  /\ Goto(r, "locking")
  /\ UNCHANGED <<confirmed, refunds, intents, stored, outside, ask, amount, reply, fails>>

Lock(r) ==
  /\ pc[r] = "locking" /\ Unlocked(r)
  /\ Goto(r, "find")
  /\ UNCHANGED <<confirmed, refunds, intents, stored, outside, ask, amount, reply, fails>>

-----------------------------------------------------------------------------
(* IdempotencyService.run *)

\* A key of the cluster is looked for among the legacy ones as well.
Found(r) ==
  IF stored[Scope(r)][Key(r)] # None THEN stored[Scope(r)][Key(r)]
  ELSE stored["legacy"][Key(r)]

\* A stored answer is returned to the same body and refused to another one.
Find(r) ==
  /\ pc[r] = "find" /\ CanQuery(r)
  /\ \/ /\ Found(r) = None
        /\ Goto(r, IF IsRefund(ask[r]) THEN "decide" ELSE "look")
        /\ UNCHANGED reply
     \/ /\ Found(r) # None /\ Found(r).body # Body(r)
        /\ Goto(r, "conflict")
        /\ UNCHANGED reply
     \/ /\ Found(r) # None /\ Found(r).body = Body(r)
        /\ reply' = [reply EXCEPT ![r] = Found(r).reply]
        /\ Goto(r, "answered")
  /\ UNCHANGED <<confirmed, refunds, intents, stored, outside, ask, amount, fails>>

\* The loser of the unique index answers what the winner stored.
\* Fault: it answers what it has.
LostTo_Nobody(r) == "answered"
LostTo(r) == "find"

Store(r) ==
  /\ pc[r] = "store" /\ CanQuery(r)
  /\ IF stored[Scope(r)][Key(r)] = None
     THEN /\ stored' = [stored EXCEPT ![Scope(r)][Key(r)] =
                          [body |-> Body(r), reply |-> reply[r]]]
          /\ Goto(r, "answered")
     ELSE Goto(r, LostTo(r)) /\ UNCHANGED stored
  /\ UNCHANGED <<confirmed, refunds, intents, outside, ask, amount, reply, fails>>

-----------------------------------------------------------------------------
(* RefundService.execute *)

\* The units of a payment's worth its refunds hold: one of n holds n, unless it failed.
Held(p) ==
  {u \in Keys \X (1..Worth) :
     LET row == refunds[u[1]]
     IN row # None /\ row.payment = p /\ row.status # "failed" /\ u[2] <= row.amount}
Total(p) == Cardinality(Held(p))

Remainder(p) == Worth - Total(p)
Requested(r) == IF Body(r).amount = All THEN Remainder(Body(r).payment) ELSE Body(r).amount

\* Fault: a refund of nothing is let through.
Refundable_Zero(r) ==
  /\ Body(r).payment \in confirmed
  /\ Requested(r) \in 0..Worth /\ Requested(r) <= Remainder(Body(r).payment)
  /\ Body(r).payment \in Sandbox \/ Body(r).payment \notin Manual
Refundable(r) ==
  /\ Body(r).payment \in confirmed
  /\ Requested(r) \in 1..Worth /\ Requested(r) <= Remainder(Body(r).payment)
  /\ Body(r).payment \in Sandbox \/ Body(r).payment \notin Manual

Decide(r) ==
  /\ pc[r] = "decide" /\ CanQuery(r)
  /\ IF Refundable(r)
     THEN amount' = [amount EXCEPT ![r] = Requested(r)] /\ Goto(r, "insert")
     ELSE Goto(r, "refused") /\ UNCHANGED amount
  /\ UNCHANGED <<confirmed, refunds, intents, stored, outside, ask, reply, fails>>

\* One row per key: a second insert is refused by the unique index.
\* Fault: a row that failed is replaced.
Taken_UnlessFailed(k) == refunds[k] # None /\ refunds[k].status # "failed"
Taken(k) == refunds[k] # None

InsertRow(r) ==
  LET k == Key(r)
      p == Body(r).payment
  IN /\ pc[r] = "insert" /\ CanQuery(r)
     /\ IF Taken(k)
        THEN Goto(r, "existing") /\ UNCHANGED refunds
        ELSE /\ refunds' = [refunds EXCEPT ![k] =
                   [payment |-> p, amount |-> amount[r], status |-> "pending"]]
             /\ Goto(r, IF p \in Sandbox THEN "simulate" ELSE "reverse")
     /\ UNCHANGED <<confirmed, intents, stored, outside, ask, amount, reply, fails>>

\* The row of whoever came first is the answer, whatever it says.
TakeExisting(r) ==
  /\ pc[r] = "existing" /\ CanQuery(r)
  /\ reply' = [reply EXCEPT ![r] = refunds[Key(r)]]
  /\ Goto(r, "store")
  /\ UNCHANGED <<confirmed, refunds, intents, stored, outside, ask, amount, fails>>

SetStatus(r, status) == refunds' = [refunds EXCEPT ![Key(r)].status = status]
Succeeded(r) == [payment |-> Body(r).payment, amount |-> amount[r], status |-> "succeeded"]

\* A test-mode refund is recorded and nothing is sent.
Simulate(r) ==
  /\ pc[r] = "simulate" /\ CanQuery(r)
  /\ SetStatus(r, "succeeded")
  /\ reply' = [reply EXCEPT ![r] = Succeeded(r)]
  /\ Goto(r, "store")
  /\ UNCHANGED <<confirmed, intents, stored, outside, ask, amount, fails>>

\* Fault: the transfer is prepared, and never sent.
Send_Prepared(r) == UNCHANGED reversals
Send(r) == reversals' = [reversals EXCEPT ![Key(r)] = @ + 1]

\* provider.reverse: the transfer is signed and sent, and not waited for.
Reverse(r) ==
  /\ pc[r] = "reverse"
  /\ Send(r)
  /\ Goto(r, "succeed")
  /\ UNCHANGED <<confirmed, refunds, intents, stored, created, ask, amount, reply, fails>>

\* It throws, before the transfer was sent or after.
ReverseThrows(r) ==
  /\ pc[r] = "reverse" /\ fails < MaxFails
  /\ fails' = fails + 1
  /\ Send(r) \/ UNCHANGED reversals
  /\ Goto(r, "fail")
  /\ UNCHANGED <<confirmed, refunds, intents, stored, created, ask, amount, reply>>

RecordReversal(r) ==
  /\ pc[r] = "succeed" /\ CanQuery(r)
  /\ SetStatus(r, "succeeded")
  /\ reply' = [reply EXCEPT ![r] = Succeeded(r)]
  /\ Goto(r, "store")
  /\ UNCHANGED <<confirmed, intents, stored, outside, ask, amount, fails>>

\* Recording it is inside the same try: a throw there fails the row as well.
RecordingThrows(r) ==
  /\ pc[r] = "succeed" /\ fails < MaxFails
  /\ fails' = fails + 1
  /\ Goto(r, "fail")
  /\ UNCHANGED <<confirmed, refunds, intents, stored, outside, ask, amount, reply>>

FailRow(r) ==
  /\ pc[r] = "fail" /\ CanQuery(r)
  /\ SetStatus(r, "failed")
  /\ Goto(r, "failed")
  /\ UNCHANGED <<confirmed, intents, stored, outside, ask, amount, reply, fails>>

-----------------------------------------------------------------------------
(* PaymentIntentService.create, and the metadata the controller attaches *)

\* An intent of the key that exists is the answer: nothing is announced again.
Look(r) ==
  /\ pc[r] = "look" /\ CanQuery(r)
  /\ IF intents[Key(r)] = None
     THEN Goto(r, "create") /\ UNCHANGED reply
     ELSE /\ reply' = [reply EXCEPT ![r] = intents[Key(r)]]
          /\ Goto(r, IF intents[Key(r)].metadata = None THEN "metadata" ELSE "store")
  /\ UNCHANGED <<confirmed, refunds, intents, stored, outside, ask, amount, fails>>

\* The loser of the unique index reads the winner's intent.
AfterLoss(r) == "look"

Create(r) ==
  /\ pc[r] = "create" /\ CanQuery(r)
  /\ IF intents[Key(r)] = None
     THEN LET row == [terms |-> Body(r), metadata |-> None]
          IN /\ intents' = [intents EXCEPT ![Key(r)] = row]
             /\ reply' = [reply EXCEPT ![r] = row]
             /\ Goto(r, "publish")
     ELSE Goto(r, AfterLoss(r)) /\ UNCHANGED <<intents, reply>>
  /\ UNCHANGED <<confirmed, refunds, stored, outside, ask, amount, fails>>

PublishCreated(r) ==
  /\ pc[r] = "publish"
  /\ created' = [created EXCEPT ![Key(r)] = @ + 1]
  /\ Goto(r, "metadata")
  /\ UNCHANGED <<confirmed, refunds, intents, stored, reversals, ask, amount, reply, fails>>

\* Decided by the row as it was read, and written over whatever is there now.
AttachMetadata(r) ==
  LET row == [intents[Key(r)] EXCEPT !.metadata = Body(r)]
  IN /\ pc[r] = "metadata" /\ CanQuery(r)
     /\ intents' = [intents EXCEPT ![Key(r)] = row]
     /\ reply' = [reply EXCEPT ![r] = row]
     /\ Goto(r, "store")
     /\ UNCHANGED <<confirmed, refunds, stored, outside, ask, amount, fails>>

-----------------------------------------------------------------------------
\* A process dies or a statement throws: a lock and a connection go with it.
Die(r) ==
  /\ pc[r] \in Busy /\ fails < MaxFails
  /\ fails' = fails + 1
  /\ Goto(r, "failed")
  /\ UNCHANGED <<confirmed, refunds, intents, stored, outside, ask, amount, reply>>

Serve(r) ==
  \/ Connect(r) \/ Lock(r) \/ Find(r) \/ Store(r)
  \/ Decide(r) \/ InsertRow(r) \/ TakeExisting(r) \/ Simulate(r)
  \/ Reverse(r) \/ RecordReversal(r) \/ FailRow(r)
  \/ Look(r) \/ Create(r) \/ PublishCreated(r) \/ AttachMetadata(r)

Next ==
  \/ \E p \in Payments : Confirm(p)
  \/ \E r \in Requests, a \in Asks : Receive(r, a)
  \/ \E r \in Requests : Serve(r) \/ ReverseThrows(r) \/ RecordingThrows(r) \/ Die(r)

Spec == Init /\ [][Next]_vars

-----------------------------------------------------------------------------
(* Properties *)

\* A key sends one reversal in its life, whatever dies and whoever retries,
\* also with another body or for another payment (refund.service.ts:40-41).
ReversedOncePerKey == \A k \in Keys : reversals[k] <= 1

\* However requests with different keys interleave, the refunds of a payment
\* that are not failed never exceed what it settled for.
RefundsWithinPayment == \A p \in Payments : Total(p) <= Worth

\* Every answer under a key is the one answer stored for it, and was stored for
\* the body it is given to: replays agree, however the first requests raced.
AnsweredAsStored ==
  \A r \in Requests :
    pc[r] = "answered" =>
      LET record == stored[Scope(r)][Key(r)]
      IN record # None /\ record.body = Body(r) /\ record.reply = reply[r]

\* Whoever creates, races or retries, an intent is announced at most once.
CreatedToldOnce == \A k \in Keys : created[k] <= 1

\* The pool filled by refunds that wait for a lock does not stop its holder:
\* while a request is being served, some request can move (db.service.ts:149-150).
SomebodyMoves == (\E r \in Requests : pc[r] \in Busy) => \E r \in Requests : ENABLED Serve(r)

\* The integration guide (docs/specs/pay-with-prydd-integration-quickstart.md:305):
\* a retry with the same key returns the original refund.  So the row of a key
\* is never answered with a refusal to whoever asks for it again.
SameRefund(body, row) == row.payment = body.payment /\ body.amount \in {All, row.amount}
RetryReturnsTheRefund ==
  [][\A r \in Requests :
       pc[r] = "decide" /\ pc'[r] = "refused" /\ refunds[Key(r)] # None
         => ~SameRefund(Body(r), refunds[Key(r)])]_vars

-----------------------------------------------------------------------------
(* The promise the tables keep *)

Promise == INSTANCE MerchantPromise WITH
  settled <- confirmed,
  left <- [p \in Payments |-> Remainder(p)],
  refund <- refunds,
  sent <- reversals,
  agreed <- [k \in Keys |-> IF intents[k] = None THEN None ELSE intents[k].terms],
  announced <- created

\* Requests that race, retry and die implement MerchantPromise: what is left
\* of a payment, which every refund adds up anew, behaves as an account that a
\* key draws on once, and a refund succeeds only with its transfer sent.
KeepsPromise == Promise!Spec

=============================================================================
