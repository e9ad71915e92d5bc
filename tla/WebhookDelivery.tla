--------------------------- MODULE WebhookDelivery ---------------------------
(***************************************************************************)
(* How a merchant is told: an event on the log becomes one delivery row    *)
(* per matching endpoint, and a row is posted until it is answered or its  *)
(* attempts are used up.                                                   *)
(*                                                                         *)
(* Three kinds of process write the rows: the dispatcher of each instance  *)
(* (Consumers), which Kafka hands every event at least once; the retry     *)
(* tick of each instance (Sweepers), which also overlaps its own last run; *)
(* and an operator's manual redelivery (Operators).  There is no queue and *)
(* no lock: the conditional UPDATE of the tick is all that keeps two       *)
(* attempts at one row apart, and the outcome of an attempt is written     *)
(* unconditionally.                                                        *)
(***************************************************************************)
EXTENDS Naturals, FiniteSets

CONSTANTS
  Events,       \* payment.succeeded, .failed and .expired of known intents
  Endpoints,    \* enabled endpoints that subscribe to them
  Manual,       \* identities of rows an operator can add
  Consumers, Sweepers, Operators,
  MaxAttempts,  \* WEBHOOK_MAX_ATTEMPTS
  MaxHandled,   \* KAFKA_CONSUMER_MAX_ATTEMPTS
  MaxFails,     \* bound: how many handlers throw or die part of the way
  None

Procs == Consumers \cup Sweepers \cup Operators
Deliveries == (Events \X Endpoints) \cup Manual

ASSUME ConstantsAssumption ==
  /\ IsFiniteSet(Procs)
  /\ Consumers \cap Sweepers = {} /\ Consumers \cap Operators = {}
  /\ Sweepers \cap Operators = {}
  /\ (Events \X Endpoints) \cap Manual = {}
  /\ None \notin Events \cup Deliveries
  /\ MaxAttempts \in Nat \ {0} /\ MaxHandled \in Nat \ {0} /\ MaxFails \in Nat

Statuses == {"none", "pending", "failed", "succeeded", "exhausted"}
PCs == {"idle", "materialize", "claim", "reload", "post", "record"}

VARIABLES
  log,        \* an event: not published, queued, committed or dead-lettered
  seen,       \* failures a consumer remembers, lost with its process
  status,     \* webhook_deliveries.status
  attemptNo,  \* webhook_deliveries.attempt_no
  due,        \* rows whose next_retry_at has passed
  stale,      \* rows created longer ago than the pending window
  posts,      \* how many requests were tried for a row
  heard,      \* rows whose endpoint has answered 2xx
  pc, on, no, sel, answer,  \* a process, the row it has, as it read it
  ev, todo,   \* the event a consumer handles, and the endpoints left
  fails       \* handlers that threw or died so far

rows == <<status, attemptNo, due, stale>>
queue == <<log, seen>>
world == <<posts, heard>>
held == <<on, no, sel, answer>>
vars == <<log, seen, status, attemptNo, due, stale, posts, heard,
          pc, on, no, sel, answer, ev, todo, fails>>

TypeOK ==
  /\ log \in [Events -> {"none", "queued", "committed", "dead"}]
  /\ seen \in [Consumers -> [Events -> Nat]]
  /\ status \in [Deliveries -> Statuses]
  /\ attemptNo \in [Deliveries -> Nat]
  /\ due \in SUBSET Deliveries
  /\ stale \in SUBSET Deliveries
  /\ posts \in [Deliveries -> Nat]
  /\ heard \in SUBSET Deliveries
  /\ pc \in [Procs -> PCs]
  /\ on \in [Procs -> Deliveries \cup {None}]
  /\ no \in [Procs -> Nat]
  /\ sel \in [Procs -> Statuses]
  /\ answer \in [Procs -> BOOLEAN]
  /\ ev \in [Procs -> Events \cup {None}]
  /\ todo \in [Procs -> SUBSET Endpoints]
  /\ fails \in Nat

Init ==
  /\ log = [e \in Events |-> "none"]
  /\ seen = [c \in Consumers |-> [e \in Events |-> 0]]
  /\ status = [d \in Deliveries |-> "none"]
  /\ attemptNo = [d \in Deliveries |-> 0]
  /\ due = {}
  /\ stale = {}
  /\ posts = [d \in Deliveries |-> 0]
  /\ heard = {}
  /\ pc = [p \in Procs |-> "idle"]
  /\ on = [p \in Procs |-> None]
  /\ no = [p \in Procs |-> 0]
  /\ sel = [p \in Procs |-> "none"]
  /\ answer = [p \in Procs |-> FALSE]
  /\ ev = [p \in Procs |-> None]
  /\ todo = [p \in Procs |-> {}]
  /\ fails = 0

-----------------------------------------------------------------------------
(* Processes *)

Goto(p, label) == pc' = [pc EXCEPT ![p] = label]

\* It has row d, which it read with this attempt number.
Take(p, d, n) ==
  /\ on' = [on EXCEPT ![p] = d]
  /\ no' = [no EXCEPT ![p] = n]
  /\ UNCHANGED <<sel, answer>>

Drop(p) ==
  /\ on' = [on EXCEPT ![p] = None]
  /\ no' = [no EXCEPT ![p] = 0]
  /\ sel' = [sel EXCEPT ![p] = "none"]
  /\ answer' = [answer EXCEPT ![p] = FALSE]

\* It returns, throws or dies.
Finish(p) ==
  /\ Goto(p, "idle")
  /\ Drop(p)
  /\ ev' = [ev EXCEPT ![p] = None]
  /\ todo' = [todo EXCEPT ![p] = {}]

\* createDelivery: one automatic row per endpoint and event.
\* Fault: the first attempt's number is left to a default that is not there.
Create_Unnumbered(d) ==
  /\ status' = [status EXCEPT ![d] = "pending"]
  /\ attemptNo' = [attemptNo EXCEPT ![d] = None]
  /\ UNCHANGED <<due, stale>>
Create(d) ==
  /\ status' = [status EXCEPT ![d] = "pending"]
  /\ attemptNo' = [attemptNo EXCEPT ![d] = 1]
  /\ UNCHANGED <<due, stale>>

-----------------------------------------------------------------------------
(* KafkaEventConsumer and WebhookDispatcherService.handle *)

Publish(e) ==
  /\ log[e] = "none"
  /\ log' = [log EXCEPT ![e] = "queued"]
  /\ UNCHANGED <<seen, rows, world, pc, held, ev, todo, fails>>

\* An event whose offset is not committed goes to any member of the group:
\* after a rebalance, while another member still works on it.
Consume(c, e) ==
  /\ pc[c] = "idle"
  /\ log[e] = "queued"
  /\ Goto(c, "materialize")
  /\ ev' = [ev EXCEPT ![c] = e]
  /\ todo' = [todo EXCEPT ![c] = Endpoints]
  /\ UNCHANGED <<queue, rows, world, held, fails>>

\* Only a newly inserted row is attempted; a row that exists is passed over.
\* Fault: the insert does not conflict, a redelivered event starts over.
IsNew_Always(d) == TRUE
IsNew(d) == status[d] = "none"

Materialize(c) ==
  /\ pc[c] = "materialize"
  /\ \E p \in todo[c] :
       LET d == <<ev[c], p>>
       IN /\ todo' = [todo EXCEPT ![c] = @ \ {p}]
          /\ \/ /\ IsNew(d)
                /\ Create(d)
                /\ Take(c, d, 1)
                /\ Goto(c, "post")
             \/ /\ ~IsNew(d)
                /\ UNCHANGED <<rows, held, pc>>
  /\ UNCHANGED <<queue, world, ev, fails>>

\* The handler returned: the offset moves on.
\* Fault: the offset is committed when the handler starts its loop.
Handled_Early(c) == TRUE
\* Fault: it is committed when the merchant has taken every delivery.
Handled_Delivered(c) ==
  todo[c] = {} /\ \A p \in Endpoints : status[<<ev[c], p>>] = "succeeded"
Handled(c) == todo[c] = {}

Commit(c) ==
  /\ pc[c] = "materialize"
  /\ Handled(c)
  /\ log' = [log EXCEPT ![ev[c]] = IF @ = "queued" THEN "committed" ELSE @]
  /\ seen' = [seen EXCEPT ![c][ev[c]] = 0]
  /\ Finish(c)
  /\ UNCHANGED <<rows, world, fails>>

\* The handler threw: the event comes again, or goes to the dead-letter topic
\* when this consumer has seen it fail often enough; that publish may throw
\* too, with the count already forgotten.
HandlerThrows(c) ==
  /\ pc[c] # "idle"
  /\ fails < MaxFails
  /\ fails' = fails + 1
  /\ IF seen[c][ev[c]] + 1 >= MaxHandled
     THEN /\ seen' = [seen EXCEPT ![c][ev[c]] = 0]
          /\ \/ log' = [log EXCEPT ![ev[c]] = IF @ = "queued" THEN "dead" ELSE @]
             \/ UNCHANGED log
     ELSE /\ seen' = [seen EXCEPT ![c][ev[c]] = @ + 1]
          /\ UNCHANGED log
  /\ Finish(c)
  /\ UNCHANGED <<rows, world>>

-----------------------------------------------------------------------------
(* WebhookDeliveryService.attempt *)

\* The request, and what came of it: an answer in the 200s, or anything else,
\* the refusal of its address included.
Post(p) ==
  /\ pc[p] = "post"
  /\ posts' = [posts EXCEPT ![on[p]] = @ + 1]
  /\ \/ /\ answer' = [answer EXCEPT ![p] = TRUE]
        /\ heard' = heard \cup {on[p]}
     \/ /\ answer' = [answer EXCEPT ![p] = FALSE]
        /\ UNCHANGED heard
  /\ Goto(p, "record")
  /\ UNCHANGED <<queue, rows, on, no, sel, ev, todo, fails>>

\* After the outcome a dispatcher goes on with its endpoints.
Recorded(p) ==
  IF p \in Consumers
  THEN Goto(p, "materialize") /\ Drop(p) /\ UNCHANGED <<ev, todo>>
  ELSE Finish(p)

RecordSuccess(p) ==
  /\ pc[p] = "record"
  /\ answer[p]
  /\ status' = [status EXCEPT ![on[p]] = "succeeded"]
  /\ due' = due \ {on[p]}
  /\ Recorded(p)
  /\ UNCHANGED <<attemptNo, stale, queue, world, fails>>

\* The attempt number is the one the row was read with.
\* Fault: the number of the attempt to come is compared instead.
UsedUp_Early(p) == no[p] + 1 >= MaxAttempts
UsedUp(p) == no[p] >= MaxAttempts

WriteFailure(p) ==
  /\ status' = [status EXCEPT ![on[p]] = IF UsedUp(p) THEN "exhausted" ELSE "failed"]
  /\ due' = due \ {on[p]}
  /\ Recorded(p)
  /\ UNCHANGED <<attemptNo, stale, queue, world>>

RecordFailure(p) ==
  /\ pc[p] = "record"
  /\ ~answer[p]
  /\ WriteFailure(p)
  /\ UNCHANGED fails

\* The catch around the request is around the write of its success as well:
\* a database error there is recorded as a failed attempt.
SuccessNotWritten(p) ==
  /\ pc[p] = "record"
  /\ answer[p]
  /\ fails < MaxFails
  /\ fails' = fails + 1
  /\ WriteFailure(p)

-----------------------------------------------------------------------------
(* WebhookRetryService.tick.  Rows do not interact, so each one is selected  *)
(* on its own; between its selection and its claim anything may happen.      *)

\* Fault: a row a crash left pending is not looked for.
Retryable_FailedOnly(d) == status[d] = "failed" /\ d \in due
Retryable(d) ==
  \/ status[d] = "failed" /\ d \in due
  \/ status[d] = "pending" /\ d \in stale

Select(w, d) ==
  /\ pc[w] = "idle"
  /\ Retryable(d)
  /\ Goto(w, "claim")
  /\ on' = [on EXCEPT ![w] = d]
  /\ sel' = [sel EXCEPT ![w] = status[d]]
  /\ UNCHANGED <<queue, rows, world, no, answer, ev, todo, fails>>

\* The claim: the row must still have the status it was selected under. A
\* failed row becomes pending with the next number; a pending one only has
\* its next_retry_at stamped, which no selection of a pending row reads. Times
\* are compared at the claim; the code keeps those of the selection, and so
\* claims less.
Claimed(w) ==
  /\ status[on[w]] = sel[w]
  /\ sel[w] = "failed" => on[w] \in due
  /\ sel[w] = "pending" => on[w] \in stale

Claim(w) ==
  /\ pc[w] = "claim"
  /\ \/ /\ Claimed(w)
        /\ IF sel[w] = "failed"
           THEN /\ status' = [status EXCEPT ![on[w]] = "pending"]
                /\ attemptNo' = [attemptNo EXCEPT ![on[w]] = @ + 1]
           ELSE UNCHANGED <<status, attemptNo>>
        /\ Goto(w, "reload")
        /\ UNCHANGED <<held, ev, todo>>
     \/ /\ ~Claimed(w)
        /\ Finish(w)
        /\ UNCHANGED <<status, attemptNo>>
  /\ UNCHANGED <<queue, due, stale, world, fails>>

Reload(w) ==
  /\ pc[w] = "reload"
  /\ Take(w, on[w], attemptNo[on[w]])
  /\ Goto(w, "post")
  /\ UNCHANGED <<queue, rows, world, ev, todo, fails>>

-----------------------------------------------------------------------------
(* An operator, failures, and time *)

\* A manual row repeats one that exists, under the same event id.
Redeliver(q, d) ==
  /\ pc[q] = "idle"
  /\ status[d] = "none"
  /\ \E x \in Deliveries : status[x] # "none"
  /\ Create(d)
  /\ Take(q, d, 1)
  /\ Goto(q, "post")
  /\ UNCHANGED <<queue, world, ev, todo, fails>>

\* A process dies, and a consumer's count of failures with it; or a tick or a
\* request throws.
Crash(p) ==
  /\ pc[p] # "idle"
  /\ fails < MaxFails
  /\ fails' = fails + 1
  /\ seen' = [c \in Consumers |->
                IF c = p THEN [e \in Events |-> 0] ELSE seen[c]]
  /\ Finish(p)
  /\ UNCHANGED <<log, rows, world>>

ComesDue(d) ==
  /\ status[d] = "failed"
  /\ d \notin due
  /\ due' = due \cup {d}
  /\ UNCHANGED <<queue, status, attemptNo, stale, world, pc, held, ev, todo, fails>>

\* A request is aborted after ten seconds and the window is ten minutes: a row
\* does not grow stale under its first attempt.
GoesStale(d) ==
  /\ status[d] # "none"
  /\ d \notin stale
  /\ attemptNo[d] = 1 => \A p \in Procs : on[p] # d
  /\ stale' = stale \cup {d}
  /\ UNCHANGED <<queue, status, attemptNo, due, world, pc, held, ev, todo, fails>>

-----------------------------------------------------------------------------
Step(p) ==
  \/ Post(p) \/ RecordSuccess(p) \/ RecordFailure(p)
  \/ p \in Consumers /\ (Materialize(p) \/ Commit(p))
  \/ p \in Sweepers /\ (Claim(p) \/ Reload(p))

Next ==
  \/ \E e \in Events : Publish(e) \/ \E c \in Consumers : Consume(c, e)
  \/ \E p \in Procs : Step(p) \/ Crash(p) \/ SuccessNotWritten(p)
  \/ \E c \in Consumers : HandlerThrows(c)
  \/ \E w \in Sweepers, d \in Deliveries : Select(w, d)
  \/ \E q \in Operators, d \in Manual : Redeliver(q, d)
  \/ \E d \in Deliveries : ComesDue(d) \/ GoesStale(d)

Spec == Init /\ [][Next]_vars

-----------------------------------------------------------------------------
(* What must hold *)

\* An offset is committed only when every endpoint has its row, through
\* crashes, redelivered events and two members working on one event.
CommittedIsMaterialized ==
  \A e \in Events, p \in Endpoints :
    log[e] = "committed" => status[<<e, p>>] # "none"

\* A row is given up only after the endpoint was asked MaxAttempts times: no
\* overlap of sweeps and no claim that crashed uses up an attempt unasked.
ExhaustedWasTried ==
  \A d \in Deliveries : status[d] = "exhausted" => posts[d] >= MaxAttempts

\* The first attempt at an automatic row is one dispatcher's: two members that
\* work on one event after a rebalance never post one row together.
DispatchedOnce ==
  \A b, c \in Consumers : b # c /\ on[b] # None => on[b] # on[c]

\* WebhookRetryService's claim, "so two instances cannot both take it".
ClaimIsExclusive ==
  \A v, w \in Sweepers :
    v # w /\ pc[v] \in {"post", "record"} /\ pc[w] \in {"post", "record"} => on[v] # on[w]

-----------------------------------------------------------------------------
(* What the merchant sees of it *)

Promise == INSTANCE DeliveryPromise WITH
  event <- log, row <- status, attempt <- attemptNo, requests <- posts

\* Consumers, ticks and operators that overlap keep one promise: no event is
\* let go before its rows are there, no number is given without a request and
\* no outcome is written that the requests do not bear out.
KeepsPromise == Promise!Spec

-----------------------------------------------------------------------------
(* Fairness: a handler goes on, the group's members keep consuming, and each *)
(* tick takes up every due row: its batch is fifty rows.                     *)

Fairness ==
  /\ \A p \in Procs : WF_vars(Step(p))
  /\ \A e \in Events : SF_vars(\E c \in Consumers : Consume(c, e))
  /\ \A d \in Deliveries :
       /\ SF_vars(\E w \in Sweepers : Select(w, d))
       /\ WF_vars(ComesDue(d))
       /\ WF_vars(GoesStale(d))

FairSpec == Spec /\ Fairness

\* Every row reaches an end, whatever crashed between its creation and the
\* write of an outcome.
EveryDeliveryEnds ==
  \A d \in Deliveries :
    status[d] # "none" ~> status[d] \in {"succeeded", "exhausted"}

\* Every published event leaves the log: materialized, or dead-lettered.
EveryEventLeavesTheLog ==
  \A e \in Events : log[e] = "queued" ~> log[e] # "queued"

=============================================================================
