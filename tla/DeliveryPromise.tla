--------------------------- MODULE DeliveryPromise ---------------------------
(***************************************************************************)
(* What a merchant is promised about the events of its Payments, with no   *)
(* consumers, no ticks and no clocks.                                      *)
(*                                                                         *)
(* An event leaves the log when every endpoint has its row, or is given    *)
(* up.  A row tells of something that was published, is numbered by the    *)
(* attempts at it, and every number is paid for with a request.  A success *)
(* was answered by the endpoint, and a row given up was tried as often as  *)
(* was promised; but an outcome that comes late may still replace another. *)
(***************************************************************************)
EXTENDS Naturals

CONSTANTS Events, Endpoints, Manual, MaxAttempts

Deliveries == (Events \X Endpoints) \cup Manual

VARIABLES
  event,      \* none, queued, committed, dead
  row,        \* none, pending, failed, succeeded, exhausted
  attempt,    \* the number of the attempt at a row
  requests,   \* how often its endpoint was asked
  heard       \* rows whose endpoint has answered

promise == <<event, row, attempt, requests, heard>>

Init ==
  /\ event = [e \in Events |-> "none"]
  /\ row = [d \in Deliveries |-> "none"]
  /\ attempt = [d \in Deliveries |-> 0]
  /\ requests = [d \in Deliveries |-> 0]
  /\ heard = {}

Turn(e, from, to) ==
  /\ event[e] = from
  /\ event' = [event EXCEPT ![e] = to]
  /\ UNCHANGED <<row, attempt, requests, heard>>

Publish(e) == Turn(e, "none", "queued")
Accept(e) ==
  /\ \A ep \in Endpoints : row[<<e, ep>>] # "none"
  /\ Turn(e, "queued", "committed")
GiveUp(e) == Turn(e, "queued", "dead")

\* The row of an event published, or one that repeats a row there is.
Tell(d) ==
  /\ row[d] = "none"
  /\ \/ \E e \in Events, ep \in Endpoints : d = <<e, ep>> /\ event[e] # "none"
     \/ d \in Manual /\ \E x \in Deliveries : row[x] # "none"
  /\ row' = [row EXCEPT ![d] = "pending"]
  /\ attempt' = [attempt EXCEPT ![d] = 1]
  /\ UNCHANGED <<event, requests, heard>>

Ask(d) ==
  /\ row[d] # "none"
  /\ requests' = [requests EXCEPT ![d] = requests[d] + 1]
  /\ heard' = heard \/ heard' = heard \cup {d}
  /\ UNCHANGED <<event, row, attempt>>

Conclude(d, outcome) ==
  /\ row[d] # "none" /\ attempt[d] <= requests[d]
  /\ outcome = "succeeded" => d \in heard
  /\ outcome = "exhausted" => requests[d] >= MaxAttempts
  /\ row' = [row EXCEPT ![d] = outcome]
  /\ UNCHANGED <<event, attempt, requests, heard>>

Retry(d) ==
  /\ row[d] = "failed"
  /\ row' = [row EXCEPT ![d] = "pending"]
  /\ attempt' = [attempt EXCEPT ![d] = attempt[d] + 1]
  /\ UNCHANGED <<event, requests, heard>>

Next ==
  \/ \E e \in Events : Publish(e) \/ Accept(e) \/ GiveUp(e)
  \/ \E d \in Deliveries :
       \/ Tell(d) \/ Ask(d) \/ Retry(d)
       \/ \E outcome \in {"failed", "succeeded", "exhausted"} : Conclude(d, outcome)

Spec == Init /\ [][Next]_promise

=============================================================================
