----------------------- MODULE WebhookDeliveryProofs -----------------------
(***************************************************************************)
(* Proofs about WebhookDelivery, for any number of events, endpoints and   *)
(* processes.                                                              *)
(***************************************************************************)
EXTENDS WebhookDelivery, FiniteSetTheorems, TLAPS

USE DEF rows, queue, world, held

-----------------------------------------------------------------------------
(* Types, and what a process holds where *)

HolderOK(p) ==
  /\ pc[p] = "materialize" => p \in Consumers
  /\ pc[p] \in {"claim", "reload"} => p \in Sweepers
  /\ p \in Consumers /\ pc[p] # "idle" => ev[p] \in Events
  /\ IF pc[p] \in {"idle", "materialize"} THEN on[p] = None ELSE on[p] \in Deliveries
  /\ pc[p] = "claim" => sel[p] \in {"failed", "pending"}

TypeInv == TypeOK /\ \A p \in Procs : HolderOK(p)

\* The processes but p keep what they hold.
Others(p) ==
  \A q \in Procs \ {p} :
    /\ pc'[q] = pc[q] /\ on'[q] = on[q] /\ no'[q] = no[q] /\ sel'[q] = sel[q]
    /\ answer'[q] = answer[q] /\ ev'[q] = ev[q] /\ todo'[q] = todo[q]

LocalsOK ==
  /\ pc \in [Procs -> PCs]
  /\ on \in [Procs -> Deliveries \cup {None}]
  /\ no \in [Procs -> Nat]
  /\ sel \in [Procs -> Statuses]
  /\ answer \in [Procs -> BOOLEAN]
  /\ ev \in [Procs -> Events \cup {None}]
  /\ todo \in [Procs -> SUBSET Endpoints]

LEMMA TypeLocals ==
  ASSUME TypeInv
  PROVE  LocalsOK /\ \A p \in Procs : HolderOK(p)
  BY DEF TypeInv, TypeOK, LocalsOK

LEMMA HoldersFrame ==
  ASSUME \A q \in Procs : HolderOK(q), NEW p \in Procs, Others(p), HolderOK(p)'
  PROVE  \A q \in Procs : HolderOK(q)'
  BY DEF Others, HolderOK

LEMMA FinishHolds ==
  ASSUME TypeInv, NEW p \in Procs, Finish(p)
  PROVE  /\ LocalsOK' /\ Others(p) /\ HolderOK(p)'
         /\ pc'[p] = "idle" /\ on'[p] = None /\ ev'[p] = None
<1>1. LocalsOK
  BY TypeLocals
<1>2. /\ LocalsOK' /\ Others(p)
      /\ pc'[p] = "idle" /\ on'[p] = None /\ ev'[p] = None
  BY <1>1 DEF LocalsOK, Finish, Goto, Drop, Others, PCs, Statuses
<1> QED
  BY <1>2 DEF HolderOK

LEMMA RecordedHolds ==
  ASSUME TypeInv, NEW p \in Procs, pc[p] = "record", Recorded(p)
  PROVE  /\ LocalsOK' /\ Others(p) /\ HolderOK(p)'
         /\ pc'[p] \in {"idle", "materialize"} /\ on'[p] = None
         /\ p \in Consumers => ev'[p] = ev[p] /\ todo'[p] = todo[p]
<1>1. CASE p \in Consumers
  <2>1. Goto(p, "materialize") /\ Drop(p) /\ UNCHANGED <<ev, todo>>
    BY <1>1 DEF Recorded
  <2>2. LocalsOK /\ ev[p] \in Events
    BY <1>1, TypeLocals DEF HolderOK
  <2>3. /\ LocalsOK' /\ Others(p) /\ pc'[p] = "materialize" /\ on'[p] = None
        /\ ev'[p] = ev[p] /\ todo'[p] = todo[p]
    BY <2>1, <2>2 DEF LocalsOK, Goto, Drop, Others, PCs, Statuses
  <2> QED
    BY <1>1, <2>2, <2>3 DEF HolderOK
<1>2. CASE p \notin Consumers
  BY <1>2, FinishHolds DEF Recorded
<1> QED
  BY <1>1, <1>2

RowsOK ==
  /\ status \in [Deliveries -> Statuses]
  /\ attemptNo \in [Deliveries -> Nat]
  /\ due \in SUBSET Deliveries
  /\ stale \in SUBSET Deliveries

WorldOK ==
  /\ log \in [Events -> {"none", "queued", "committed", "dead"}]
  /\ seen \in [Consumers -> [Events -> Nat]]
  /\ posts \in [Deliveries -> Nat]
  /\ heard \in SUBSET Deliveries
  /\ fails \in Nat

LEMMA TypeParts == TypeOK <=> LocalsOK /\ RowsOK /\ WorldOK
  BY DEF TypeOK, LocalsOK, RowsOK, WorldOK

LEMMA TypePartsNext == TypeOK' <=> LocalsOK' /\ RowsOK' /\ WorldOK'
  BY DEF TypeOK, LocalsOK, RowsOK, WorldOK

LEMMA InitTypeInv == Init => TypeInv
<1> SUFFICES ASSUME Init PROVE TypeInv
  OBVIOUS
<1>1. TypeOK
  BY DEF Init, TypeOK, Statuses, PCs
<1>2. \A p \in Procs : HolderOK(p)
  BY DEF Init, HolderOK
<1> QED
  BY <1>1, <1>2 DEF TypeInv

LEMMA TypeInvStep == TypeInv /\ [Next]_vars => TypeInv'
<1> SUFFICES ASSUME TypeInv, [Next]_vars PROVE TypeInv'
  OBVIOUS
<1> LocalsOK /\ RowsOK /\ WorldOK /\ \A p \in Procs : HolderOK(p)
  BY TypeParts DEF TypeInv
<1> Consumers \subseteq Procs /\ Sweepers \subseteq Procs /\ Operators \subseteq Procs
  BY DEF Procs
<1>frame. ASSUME NEW p \in Procs, Others(p), HolderOK(p)', LocalsOK', RowsOK', WorldOK'
          PROVE  TypeInv'
  BY <1>frame, HoldersFrame, TypePartsNext DEF TypeInv
<1>1. ASSUME NEW e \in Events, Publish(e) PROVE TypeInv'
  <2>1. RowsOK' /\ LocalsOK' /\ \A q \in Procs : HolderOK(q)'
    BY <1>1 DEF Publish, RowsOK, LocalsOK, HolderOK
  <2>2. WorldOK'
    BY <1>1 DEF Publish, WorldOK
  <2> QED
    BY <2>1, <2>2, TypePartsNext DEF TypeInv
<1>2. ASSUME NEW e \in Events, NEW c \in Consumers, Consume(c, e) PROVE TypeInv'
  <2>1. LocalsOK' /\ Others(c) /\ pc'[c] = "materialize" /\ ev'[c] = e /\ on'[c] = on[c]
    BY <1>2 DEF Consume, Goto, LocalsOK, Others, PCs
  <2>2. HolderOK(c)'
    BY <1>2, <2>1 DEF HolderOK, Consume
  <2>3. RowsOK' /\ WorldOK'
    BY <1>2 DEF Consume, RowsOK, WorldOK
  <2> QED
    BY <1>frame, <2>1, <2>2, <2>3
<1>3. ASSUME NEW p \in Procs, Post(p) PROVE TypeInv'
  <2>1. /\ LocalsOK' /\ Others(p) /\ pc'[p] = "record" /\ on'[p] = on[p] /\ ev'[p] = ev[p]
    BY <1>3 DEF Post, Goto, LocalsOK, Others, PCs
  <2>2. HolderOK(p)' /\ on[p] \in Deliveries
    BY <1>3, <2>1 DEF HolderOK, Post
  <2>3. RowsOK' /\ WorldOK'
    BY <1>3, <2>2 DEF Post, RowsOK, WorldOK
  <2> QED
    BY <1>frame, <2>1, <2>2, <2>3
<1>4. ASSUME NEW p \in Procs, RecordSuccess(p) \/ RecordFailure(p) \/ SuccessNotWritten(p)
      PROVE  TypeInv'
  <2>1. pc[p] = "record" /\ Recorded(p) /\ on[p] \in Deliveries
    BY <1>4 DEF RecordSuccess, RecordFailure, SuccessNotWritten, WriteFailure, HolderOK
  <2>2. RowsOK' /\ WorldOK'
    BY <1>4, <2>1 DEF RecordSuccess, RecordFailure, SuccessNotWritten, WriteFailure,
                      RowsOK, WorldOK, Statuses
  <2> QED
    BY <1>frame, <2>1, <2>2, RecordedHolds
<1>5. ASSUME NEW c \in Consumers, Materialize(c) PROVE TypeInv'
  <2>1. PICK p \in todo[c] :
          /\ todo' = [todo EXCEPT ![c] = @ \ {p}]
          /\ \/ /\ Create(<<ev[c], p>>)
                /\ Take(c, <<ev[c], p>>, 1)
                /\ Goto(c, "post")
             \/ UNCHANGED <<rows, held, pc>>
    BY <1>5 DEF Materialize
  <2>2. ev[c] \in Events /\ on[c] = None /\ p \in Endpoints
    BY <1>5 DEF Materialize, HolderOK, LocalsOK
  <2>3. PICK d \in Deliveries : d = <<ev[c], p>>
    BY <2>2 DEF Deliveries
  <2>4. /\ LocalsOK' /\ Others(c) /\ ev'[c] = ev[c]
        /\ \/ pc'[c] = "post" /\ on'[c] = d
           \/ pc'[c] = "materialize" /\ on'[c] = None
    BY <1>5, <2>1, <2>2, <2>3 DEF Materialize, Take, Goto, LocalsOK, Others, PCs
  <2>5. HolderOK(c)'
    BY <2>2, <2>4 DEF HolderOK
  <2>6. RowsOK'
    BY <2>1, <2>3 DEF Create, RowsOK, Statuses
  <2>7. WorldOK'
    BY <1>5 DEF Materialize, WorldOK
  <2> QED
    BY <1>frame, <2>4, <2>5, <2>6, <2>7
<1>6. ASSUME NEW c \in Consumers, Commit(c) PROVE TypeInv'
  <2>1. ev[c] \in Events
    BY <1>6 DEF Commit, HolderOK
  <2>2. RowsOK' /\ WorldOK'
    BY <1>6, <2>1 DEF Commit, RowsOK, WorldOK
  <2> QED
    BY <1>6, <1>frame, <2>2, FinishHolds DEF Commit
<1>7. ASSUME NEW c \in Consumers, HandlerThrows(c) PROVE TypeInv'
  <2>1. ev[c] \in Events
    BY <1>7 DEF HandlerThrows, HolderOK
  <2>2. PICK e \in Events : e = ev[c]
    BY <2>1
  <2>3. seen' \in [Consumers -> [Events -> Nat]]
    BY <1>7, <2>2 DEF HandlerThrows, WorldOK
  <2>4. log' \in [Events -> {"none", "queued", "committed", "dead"}]
    BY <1>7, <2>2 DEF HandlerThrows, WorldOK
  <2>5. RowsOK' /\ WorldOK'
    BY <1>7, <2>3, <2>4 DEF HandlerThrows, RowsOK, WorldOK
  <2> QED
    BY <1>7, <1>frame, <2>5, FinishHolds DEF HandlerThrows
<1>8. ASSUME NEW p \in Procs, Crash(p) PROVE TypeInv'
  <2>1. RowsOK' /\ WorldOK'
    BY <1>8 DEF Crash, RowsOK, WorldOK
  <2> QED
    BY <1>8, <1>frame, <2>1, FinishHolds DEF Crash
<1>9. ASSUME NEW w \in Sweepers, NEW d \in Deliveries, Select(w, d) PROVE TypeInv'
  <2>1. /\ LocalsOK' /\ Others(w) /\ pc'[w] = "claim" /\ on'[w] = d /\ sel'[w] = status[d]
        /\ ev'[w] = ev[w]
    BY <1>9 DEF Select, Goto, LocalsOK, Others, PCs, RowsOK
  <2>2. HolderOK(w)'
    BY <1>9, <2>1, ConstantsAssumption DEF HolderOK, Select, Retryable
  <2>3. RowsOK' /\ WorldOK'
    BY <1>9 DEF Select, RowsOK, WorldOK
  <2> QED
    BY <1>frame, <2>1, <2>2, <2>3
<1>10. ASSUME NEW w \in Sweepers, Claim(w) PROVE TypeInv'
  <2>1. on[w] \in Deliveries
    BY <1>10 DEF Claim, HolderOK
  <2>2. RowsOK' /\ WorldOK'
    BY <1>10, <2>1 DEF Claim, RowsOK, WorldOK, Statuses
  <2>3. LocalsOK' /\ Others(w) /\ HolderOK(w)'
    <3>1. CASE Finish(w)
      BY <3>1, FinishHolds
    <3>2. CASE Goto(w, "reload") /\ UNCHANGED <<held, ev, todo>>
      BY <2>1, <3>2, ConstantsAssumption DEF Goto, LocalsOK, Others, HolderOK, PCs
    <3> QED
      BY <1>10, <3>1, <3>2 DEF Claim
  <2> QED
    BY <1>frame, <2>2, <2>3
<1>11. ASSUME NEW w \in Sweepers, Reload(w) PROVE TypeInv'
  <2>1. on[w] \in Deliveries
    BY <1>11 DEF Reload, HolderOK
  <2>2. LocalsOK' /\ Others(w) /\ pc'[w] = "post" /\ on'[w] = on[w]
    BY <1>11, <2>1 DEF Reload, Take, Goto, LocalsOK, RowsOK, Others, PCs
  <2>3. HolderOK(w)'
    BY <2>1, <2>2, ConstantsAssumption DEF HolderOK
  <2>4. RowsOK' /\ WorldOK'
    BY <1>11 DEF Reload, RowsOK, WorldOK
  <2> QED
    BY <1>frame, <2>2, <2>3, <2>4
<1>12. ASSUME NEW q \in Operators, NEW d \in Manual, Redeliver(q, d) PROVE TypeInv'
  <2>1. d \in Deliveries
    BY DEF Deliveries
  <2>2. LocalsOK' /\ Others(q) /\ pc'[q] = "post" /\ on'[q] = d
    BY <1>12, <2>1 DEF Redeliver, Take, Goto, LocalsOK, Others, PCs
  <2>3. HolderOK(q)'
    BY <2>1, <2>2, ConstantsAssumption DEF HolderOK
  <2>4. RowsOK'
    BY <1>12, <2>1 DEF Redeliver, Create, RowsOK, Statuses
  <2>5. WorldOK'
    BY <1>12 DEF Redeliver, WorldOK
  <2> QED
    BY <1>frame, <2>2, <2>3, <2>4, <2>5
<1>13. ASSUME NEW d \in Deliveries, ComesDue(d) \/ GoesStale(d) PROVE TypeInv'
  <2>1. RowsOK'
    BY <1>13 DEF ComesDue, GoesStale, RowsOK
  <2>2. LocalsOK' /\ WorldOK' /\ \A q \in Procs : HolderOK(q)'
    BY <1>13 DEF ComesDue, GoesStale, LocalsOK, WorldOK, HolderOK
  <2> QED
    BY <2>1, <2>2, TypePartsNext DEF TypeInv
<1>14. CASE UNCHANGED vars
  BY <1>14 DEF vars, TypeInv, TypeOK, HolderOK
<1> QED
  BY <1>1, <1>2, <1>3, <1>4, <1>5, <1>6, <1>7, <1>8, <1>9, <1>10, <1>11, <1>12, <1>13, <1>14
  DEF Next, Step

LEMMA TypeInvHolds == Spec => []TypeInv
  BY InitTypeInv, TypeInvStep, PTL DEF Spec

\* Rows, counts and processes keep their types through crashes and overlaps.
THEOREM TypeCorrect == Spec => []TypeOK
  BY TypeInvHolds, PTL DEF TypeInv

-----------------------------------------------------------------------------
(* Rows are made once, and committed events have theirs *)

\* The endpoints a consumer has been through have their row.
Materialized(c) ==
  pc[c] # "idle" =>
    \A e \in Events, ep \in Endpoints \ todo[c] : e = ev[c] => status[<<e, ep>>] # "none"

MadeInv ==
  /\ \A p \in Procs, d \in Deliveries : on[p] = d => status[d] # "none"
  /\ \A c \in Consumers : Materialized(c)
  /\ CommittedIsMaterialized

\* Who takes a new row finds it untaken.
Held(p) ==
  \A d \in Deliveries : on'[p] = d => on[p] = d \/ p \notin Consumers \/ status[d] = "none"

RowsStay == \A d \in Deliveries : status[d] # "none" => status'[d] # "none"

LEMMA MadeFrame ==
  ASSUME TypeInv, MadeInv, DispatchedOnce, NEW p \in Procs, Others(p), RowsStay, Held(p),
         \A d \in Deliveries : on'[p] = d => status'[d] # "none",
         p \in Consumers => Materialized(p)',
         \A e \in Events : log'[e] = "committed" =>
           log[e] = "committed" \/ \A ep \in Endpoints : status'[<<e, ep>>] # "none"
  PROVE  MadeInv' /\ DispatchedOnce'
<1> \A e \in Events, ep \in Endpoints : <<e, ep>> \in Deliveries
  BY DEF Deliveries
<1> Consumers \subseteq Procs
  BY DEF Procs
<1>1. \A q \in Procs, d \in Deliveries : on'[q] = d => status'[d] # "none"
  BY DEF Others, MadeInv, RowsStay
<1>2. \A c \in Consumers : Materialized(c)'
  BY DEF Others, MadeInv, RowsStay, Materialized
<1>3. CommittedIsMaterialized'
  BY DEF MadeInv, CommittedIsMaterialized, RowsStay
<1>4. DispatchedOnce'
  <2> SUFFICES ASSUME NEW b \in Consumers, NEW c \in Consumers, b # c, on'[b] # None,
                      on'[b] = on'[c]
               PROVE  FALSE
    BY DEF DispatchedOnce
  <2>1. /\ b # p => on'[b] = on[b]
        /\ c # p => on'[c] = on[c]
    BY DEF Others
  <2>2. b # p /\ on[b] # None => on[b] \in Deliveries /\ status[on[b]] # "none"
    BY TypeLocals DEF LocalsOK, MadeInv
  <2>3. c # p /\ on[c] # None => on[c] \in Deliveries /\ status[on[c]] # "none"
    BY TypeLocals DEF LocalsOK, MadeInv
  <2> QED
    BY <2>1, <2>2, <2>3 DEF Held, DispatchedOnce
<1> QED
  BY <1>1, <1>2, <1>3, <1>4 DEF MadeInv

\* A step that makes no row, and leaves p with the row it has or with none.
LEMMA MadeQuiet ==
  ASSUME TypeInv, MadeInv, DispatchedOnce, NEW p \in Procs, Others(p), RowsStay,
         on'[p] = None \/ on'[p] = on[p],
         p \in Consumers => pc'[p] = "idle" \/ (pc[p] # "idle" /\ ev'[p] = ev[p] /\ todo'[p] = todo[p]),
         \A e \in Events : log'[e] = "committed" =>
           log[e] = "committed" \/ \A ep \in Endpoints : status'[<<e, ep>>] # "none"
  PROVE  MadeInv' /\ DispatchedOnce'
<1> \A e \in Events, ep \in Endpoints : <<e, ep>> \in Deliveries
  BY DEF Deliveries
<1>1. Held(p) /\ \A d \in Deliveries : on'[p] = d => status'[d] # "none"
  BY ConstantsAssumption DEF Held, MadeInv, RowsStay
<1>2. p \in Consumers => Materialized(p)'
  BY DEF MadeInv, Materialized, RowsStay
<1> QED
  BY <1>1, <1>2, MadeFrame

LEMMA MadeInvStep == TypeInv /\ MadeInv /\ DispatchedOnce /\ [Next]_vars => MadeInv' /\ DispatchedOnce'
<1> SUFFICES ASSUME TypeInv, MadeInv, DispatchedOnce, [Next]_vars
             PROVE  MadeInv' /\ DispatchedOnce'
  OBVIOUS
<1> LocalsOK /\ RowsOK /\ WorldOK /\ \A p \in Procs : HolderOK(p)
  BY TypeParts DEF TypeInv
<1> Consumers \subseteq Procs /\ Sweepers \subseteq Procs /\ Operators \subseteq Procs
  BY DEF Procs
<1>1. ASSUME UNCHANGED <<status, on, pc, ev, todo>>,
             \A e \in Events : log'[e] = "committed" => log[e] = "committed"
      PROVE  MadeInv' /\ DispatchedOnce'
  BY <1>1 DEF MadeInv, DispatchedOnce, Materialized, CommittedIsMaterialized
<1>2. ASSUME NEW e \in Events, Publish(e) PROVE MadeInv' /\ DispatchedOnce'
  BY <1>1, <1>2 DEF Publish, WorldOK
<1>3. ASSUME NEW e \in Events, NEW c \in Consumers, Consume(c, e)
      PROVE  MadeInv' /\ DispatchedOnce'
  <2>1. Others(c) /\ todo'[c] = Endpoints /\ on'[c] = on[c] /\ UNCHANGED <<status, log>>
    BY <1>3 DEF Consume, Goto, LocalsOK, Others
  <2>2. Materialized(c)' /\ RowsStay /\ Held(c)
        /\ \A d \in Deliveries : on'[c] = d => status'[d] # "none"
    BY <2>1 DEF Materialized, RowsStay, Held, MadeInv
  <2> QED
    BY <2>1, <2>2, MadeFrame
<1>4. ASSUME NEW p \in Procs, Post(p) PROVE MadeInv' /\ DispatchedOnce'
  <2>1. Others(p) /\ on'[p] = on[p] /\ UNCHANGED <<status, log, ev, todo>> /\ pc[p] # "idle"
    BY <1>4 DEF Post, Goto, LocalsOK, Others
  <2> QED
    BY <2>1, MadeQuiet DEF RowsStay
<1>5. ASSUME NEW p \in Procs, RecordSuccess(p) \/ RecordFailure(p) \/ SuccessNotWritten(p)
      PROVE  MadeInv' /\ DispatchedOnce'
  <2>1. pc[p] = "record" /\ Recorded(p) /\ on[p] \in Deliveries /\ UNCHANGED log
    BY <1>5 DEF RecordSuccess, RecordFailure, SuccessNotWritten, WriteFailure, HolderOK
  <2>2. RowsStay
    BY <1>5, <2>1 DEF RecordSuccess, RecordFailure, SuccessNotWritten, WriteFailure, RowsOK, RowsStay
  <2> QED
    BY <2>1, <2>2, RecordedHolds, MadeQuiet
<1>6. ASSUME NEW c \in Consumers, Materialize(c) PROVE MadeInv' /\ DispatchedOnce'
  <2>1. PICK ep \in todo[c] :
          /\ todo' = [todo EXCEPT ![c] = @ \ {ep}]
          /\ \/ /\ IsNew(<<ev[c], ep>>)
                /\ Create(<<ev[c], ep>>)
                /\ Take(c, <<ev[c], ep>>, 1)
                /\ Goto(c, "post")
             \/ ~IsNew(<<ev[c], ep>>) /\ UNCHANGED <<rows, held, pc>>
    BY <1>6 DEF Materialize
  <2>2. /\ ev[c] \in Events /\ on[c] = None /\ ep \in Endpoints /\ pc[c] # "idle"
        /\ UNCHANGED <<log, ev>>
    BY <1>6 DEF Materialize, HolderOK, LocalsOK
  <2>3. PICK d \in Deliveries : d = <<ev[c], ep>>
    BY <2>2 DEF Deliveries
  <2>4. Others(c) /\ todo'[c] = todo[c] \ {ep} /\ (on'[c] = d \/ on'[c] = None)
    BY <1>6, <2>1, <2>2, <2>3 DEF Materialize, Take, Goto, LocalsOK, Others
  <2>5. RowsStay /\ status'[d] # "none" /\ (on'[c] = d => status[d] = "none")
    BY <2>1, <2>2, <2>3, ConstantsAssumption DEF Create, Take, IsNew, RowsOK, RowsStay, LocalsOK
  <2>6. Held(c) /\ \A x \in Deliveries : on'[c] = x => status'[x] # "none"
    BY <2>4, <2>5, ConstantsAssumption DEF Held
  <2>7. Materialized(c)'
    <3> SUFFICES ASSUME NEW e \in Events, NEW x \in Endpoints \ todo'[c], e = ev'[c]
                 PROVE  status'[<<e, x>>] # "none"
      BY DEF Materialized
    <3>1. <<e, x>> \in Deliveries
      BY DEF Deliveries
    <3>2. CASE x = ep
      BY <2>2, <2>3, <2>5, <3>2
    <3>3. CASE x # ep
      BY <2>2, <2>4, <2>5, <3>1, <3>3 DEF MadeInv, Materialized, RowsStay
    <3> QED
      BY <3>2, <3>3
  <2> QED
    BY <2>2, <2>4, <2>5, <2>6, <2>7, MadeFrame
<1>7. ASSUME NEW c \in Consumers, Commit(c) PROVE MadeInv' /\ DispatchedOnce'
  <2>1. PICK e \in Events : e = ev[c]
    BY <1>7 DEF Commit, HolderOK
  <2>2. \A ep \in Endpoints : status[<<e, ep>>] # "none"
    BY <1>7, <2>1 DEF Commit, Handled, MadeInv, Materialized
  <2>3. UNCHANGED status /\ \A f \in Events : log'[f] = "committed" => log[f] = "committed" \/ f = e
    BY <1>7, <2>1 DEF Commit, WorldOK
  <2> QED
    BY <1>7, <2>2, <2>3, FinishHolds, MadeQuiet DEF Commit, RowsStay
<1>8. ASSUME NEW p \in Procs, Finish(p), UNCHANGED status,
             \A e \in Events : log'[e] = "committed" => log[e] = "committed"
      PROVE  MadeInv' /\ DispatchedOnce'
  BY <1>8, FinishHolds, MadeQuiet DEF RowsStay
<1>9. ASSUME NEW c \in Consumers, HandlerThrows(c) PROVE MadeInv' /\ DispatchedOnce'
  BY <1>8, <1>9 DEF HandlerThrows, WorldOK
<1>10. ASSUME NEW p \in Procs, Crash(p) PROVE MadeInv' /\ DispatchedOnce'
  BY <1>8, <1>10 DEF Crash
<1>11. ASSUME NEW w \in Sweepers, NEW d \in Deliveries, Select(w, d)
       PROVE  MadeInv' /\ DispatchedOnce'
  <2>1. /\ Others(w) /\ on'[w] = d /\ UNCHANGED <<status, log>>
        /\ status[d] # "none" /\ w \notin Consumers
    BY <1>11, ConstantsAssumption DEF Select, Retryable, Goto, LocalsOK, Others
  <2>2. RowsStay /\ Held(w) /\ \A x \in Deliveries : on'[w] = x => status'[x] # "none"
    BY <2>1 DEF RowsStay, Held
  <2> QED
    BY <2>1, <2>2, MadeFrame
<1>12. ASSUME NEW w \in Sweepers, Claim(w) PROVE MadeInv' /\ DispatchedOnce'
  <2>1. on[w] \in Deliveries /\ w \notin Consumers /\ UNCHANGED log
    BY <1>12, ConstantsAssumption DEF Claim, HolderOK
  <2>2. RowsStay
    BY <1>12, <2>1 DEF Claim, RowsOK, RowsStay
  <2>3. Others(w) /\ (on'[w] = None \/ on'[w] = on[w])
    <3>1. CASE Finish(w)
      BY <3>1, FinishHolds
    <3>2. CASE Goto(w, "reload") /\ UNCHANGED <<held, ev, todo>>
      BY <3>2 DEF Goto, LocalsOK, Others
    <3> QED
      BY <1>12, <3>1, <3>2 DEF Claim
  <2> QED
    BY <2>1, <2>2, <2>3, MadeQuiet
<1>13. ASSUME NEW w \in Sweepers, Reload(w) PROVE MadeInv' /\ DispatchedOnce'
  <2>1. Others(w) /\ on'[w] = on[w] /\ w \notin Consumers /\ UNCHANGED <<status, log>>
    BY <1>13, ConstantsAssumption DEF Reload, Take, Goto, LocalsOK, Others
  <2> QED
    BY <2>1, MadeQuiet DEF RowsStay
<1>14. ASSUME NEW q \in Operators, NEW d \in Manual, Redeliver(q, d)
       PROVE  MadeInv' /\ DispatchedOnce'
  <2>1. d \in Deliveries /\ q \notin Consumers
    BY ConstantsAssumption DEF Deliveries
  <2>2. Others(q) /\ on'[q] = d /\ UNCHANGED log /\ RowsStay /\ status'[d] # "none"
    BY <1>14, <2>1 DEF Redeliver, Create, Take, Goto, LocalsOK, RowsOK, Others, RowsStay
  <2>3. Held(q) /\ \A x \in Deliveries : on'[q] = x => status'[x] # "none"
    BY <2>1, <2>2 DEF Held
  <2> QED
    BY <2>1, <2>2, <2>3, MadeFrame
<1>15. ASSUME NEW d \in Deliveries, ComesDue(d) \/ GoesStale(d) PROVE MadeInv' /\ DispatchedOnce'
  BY <1>1, <1>15 DEF ComesDue, GoesStale
<1>16. CASE UNCHANGED vars
  BY <1>1, <1>16 DEF vars
<1> QED
  BY <1>2, <1>3, <1>4, <1>5, <1>6, <1>7, <1>9, <1>10, <1>11, <1>12, <1>13, <1>14, <1>15, <1>16
  DEF Next, Step

LEMMA MadeHolds == Spec => [](TypeInv /\ MadeInv /\ DispatchedOnce)
<1>1. ASSUME Init PROVE MadeInv /\ DispatchedOnce
  <2> Consumers \subseteq Procs
    BY DEF Procs
  <2>1. /\ \A p \in Procs : on[p] = None /\ pc[p] = "idle"
        /\ \A e \in Events : log[e] = "none"
    BY <1>1 DEF Init
  <2>2. \A d \in Deliveries : d # None
    BY ConstantsAssumption
  <2>3. \A p \in Procs, d \in Deliveries : on[p] # d
    BY <2>1, <2>2
  <2> QED
    BY <2>1, <2>3 DEF MadeInv, DispatchedOnce, Materialized, CommittedIsMaterialized
<1> QED
  BY <1>1, MadeInvStep, TypeInvHolds, PTL DEF Spec

\* An offset moves past an event only when every endpoint has its row.
THEOREM CommittedHasRows == Spec => []CommittedIsMaterialized
  BY MadeHolds, PTL DEF MadeInv

\* No two dispatchers work on one row, whoever rebalances when.
THEOREM FirstAttemptIsOne == Spec => []DispatchedOnce
  BY MadeHolds, PTL

-----------------------------------------------------------------------------
(* A row's attempts are paid for with requests.  Who is about to write an    *)
(* outcome has sent a request no claim has used yet: only the first attempt  *)
(* and the one a failed row waits for are not yet covered.                   *)

Recording(d) == {p \in Procs : pc[p] = "record" /\ on[p] = d}
Records(p, d) == IF pc[p] = "record" /\ on[p] = d THEN 1 ELSE 0
Waits(d) == IF status[d] = "failed" THEN 1 ELSE 0

Covered(d) == posts[d] + 1 >= attemptNo[d] + Cardinality(Recording(d)) + Waits(d)

CountInv ==
  /\ \A d \in Deliveries : Covered(d)
  /\ \A p \in Procs : pc[p] \in {"post", "record"} => no[p] <= attemptNo[on[p]]
  /\ ExhaustedWasTried

LEMMA RecordingFinite ==
  ASSUME NEW d
  PROVE  IsFiniteSet(Recording(d)) /\ Cardinality(Recording(d)) \in Nat
<1>1. Recording(d) \in SUBSET Procs
  BY DEF Recording
<1>2. IsFiniteSet(Recording(d))
  BY <1>1, FS_Subset, ConstantsAssumption
<1> QED
  BY <1>2, FS_CardinalityType

LEMMA RecordingMoves ==
  ASSUME NEW p \in Procs, Others(p), NEW d
  PROVE  /\ Cardinality(Recording(d))' \in Nat
         /\ Cardinality(Recording(d))' + Records(p, d)
              = Cardinality(Recording(d)) + Records(p, d)'
<1>1. IsFiniteSet(Recording(d)) /\ Cardinality(Recording(d)) \in Nat
  BY RecordingFinite
<1>2. CASE pc'[p] = "record" /\ on'[p] = d
  <2>1. Recording(d)' = Recording(d) \cup {p}
    BY <1>2 DEF Recording, Others
  <2>2. Cardinality(Recording(d) \cup {p})
          = IF p \in Recording(d) THEN Cardinality(Recording(d)) ELSE Cardinality(Recording(d)) + 1
    BY <1>1, FS_AddElement
  <2>3. p \in Recording(d) <=> pc[p] = "record" /\ on[p] = d
    BY DEF Recording
  <2>4. Cardinality(Recording(d))' = Cardinality(Recording(d) \cup {p})
    BY <2>1
  <2> QED
    BY <1>1, <1>2, <2>2, <2>3, <2>4 DEF Records
<1>3. CASE ~(pc'[p] = "record" /\ on'[p] = d)
  <2>1. Recording(d)' = Recording(d) \ {p}
    BY <1>3 DEF Recording, Others
  <2>2. /\ IsFiniteSet(Recording(d) \ {p})
        /\ Cardinality(Recording(d) \ {p})
             = IF p \in Recording(d) THEN Cardinality(Recording(d)) - 1 ELSE Cardinality(Recording(d))
    BY <1>1, FS_RemoveElement
  <2>3. p \in Recording(d) <=> pc[p] = "record" /\ on[p] = d
    BY DEF Recording
  <2>4. Cardinality(Recording(d))' = Cardinality(Recording(d) \ {p})
    BY <2>1
  <2>5. Cardinality(Recording(d) \ {p}) \in Nat
    BY <2>2, FS_CardinalityType
  <2> QED
    BY <1>1, <1>3, <2>2, <2>3, <2>4, <2>5 DEF Records
<1> QED
  BY <1>2, <1>3

\* What a step of p alone must show, row by row.
LEMMA CountFrame ==
  ASSUME TypeInv, TypeInv', CountInv, NEW p \in Procs, Others(p),
         \A d \in Deliveries : posts[d] <= posts'[d],
         \A q \in Procs \ {p} : on[q] \in Deliveries => attemptNo[on[q]] <= attemptNo'[on[q]],
         \A d \in Deliveries :
           \/ Covered(d)'
           \/ posts'[d] + attemptNo[d] + Records(p, d) + Waits(d)
                >= posts[d] + attemptNo'[d] + Records(p, d)' + Waits(d)',
         pc'[p] \in {"post", "record"} => no'[p] <= attemptNo'[on'[p]],
         \A d \in Deliveries :
           status'[d] = "exhausted" => status[d] = "exhausted" \/ posts'[d] >= MaxAttempts
  PROVE  CountInv'
<1> /\ \A d \in Deliveries : /\ posts[d] \in Nat /\ attemptNo[d] \in Nat
                             /\ posts'[d] \in Nat /\ attemptNo'[d] \in Nat
    /\ \A q \in Procs : no[q] \in Nat /\ HolderOK(q)
    /\ MaxAttempts \in Nat
  BY ConstantsAssumption DEF TypeInv, TypeOK
<1>1. ASSUME NEW d \in Deliveries PROVE Covered(d)'
  <2>1. CASE Covered(d)'
    BY <2>1
  <2>2. CASE posts'[d] + attemptNo[d] + Records(p, d) + Waits(d)
               >= posts[d] + attemptNo'[d] + Records(p, d)' + Waits(d)'
    <3>1. posts[d] + 1 >= attemptNo[d] + Cardinality(Recording(d)) + Waits(d)
      BY DEF CountInv, Covered
    <3>2. Cardinality(Recording(d)) \in Nat
      BY RecordingFinite
    <3>3. /\ Cardinality(Recording(d))' \in Nat
          /\ Cardinality(Recording(d))' + Records(p, d)
               = Cardinality(Recording(d)) + Records(p, d)'
      BY RecordingMoves
    <3>4. /\ Waits(d) \in Nat /\ Waits(d)' \in Nat
          /\ Records(p, d) \in Nat /\ Records(p, d)' \in Nat
      BY DEF Waits, Records
    <3>5. posts'[d] + 1 >= attemptNo'[d] + Cardinality(Recording(d))' + Waits(d)'
      BY <2>2, <3>1, <3>2, <3>3, <3>4
    <3> QED
      BY <3>5 DEF Covered
  <2> QED
    BY <2>1, <2>2
<1>2. ASSUME NEW q \in Procs, pc'[q] \in {"post", "record"}
      PROVE  no'[q] <= attemptNo'[on'[q]]
  <2>1. CASE q = p
    BY <1>2, <2>1
  <2>2. CASE q # p
    <3>1. pc'[q] = pc[q] /\ on'[q] = on[q] /\ no'[q] = no[q]
      BY <2>2 DEF Others
    <3>2. on[q] \in Deliveries
      BY <1>2, <3>1 DEF HolderOK
    <3> QED
      BY <1>2, <3>1, <3>2 DEF CountInv
  <2> QED
    BY <2>1, <2>2
<1>3. ExhaustedWasTried'
  BY DEF CountInv, ExhaustedWasTried
<1> QED
  BY <1>1, <1>2, <1>3 DEF CountInv

\* Whoever is about to write an outcome has a request for the row's number.
LEMMA PaidFor ==
  ASSUME TypeInv, CountInv, NEW p \in Procs, pc[p] = "record"
  PROVE  on[p] \in Deliveries /\ attemptNo[on[p]] <= posts[on[p]]
<1>1. on[p] \in Deliveries
  BY DEF TypeInv, HolderOK
<1>2. posts[on[p]] + 1 >= attemptNo[on[p]] + Cardinality(Recording(on[p])) + Waits(on[p])
  BY <1>1 DEF CountInv, Covered
<1>3. IsFiniteSet(Recording(on[p])) /\ Cardinality(Recording(on[p])) \in Nat
  BY RecordingFinite
<1>4. Recording(on[p]) # {}
  BY DEF Recording
<1>5. Cardinality(Recording(on[p])) # 0
  BY <1>3, <1>4, FS_EmptySet
<1>6. Waits(on[p]) \in Nat /\ posts[on[p]] \in Nat /\ attemptNo[on[p]] \in Nat
  BY <1>1 DEF Waits, TypeInv, TypeOK
<1> QED
  BY <1>1, <1>2, <1>3, <1>5, <1>6

LEMMA CountStep ==
  TypeInv /\ TypeInv' /\ MadeInv /\ CountInv /\ [Next]_vars => CountInv'
<1> SUFFICES ASSUME TypeInv, TypeInv', MadeInv, CountInv, [Next]_vars
             PROVE  CountInv'
  OBVIOUS
<1> LocalsOK /\ RowsOK /\ WorldOK /\ \A p \in Procs : HolderOK(p)
  BY TypeParts DEF TypeInv
<1> Consumers \subseteq Procs /\ Sweepers \subseteq Procs /\ Operators \subseteq Procs
  BY DEF Procs
<1> MaxAttempts \in Nat
  BY ConstantsAssumption
<1>1. ASSUME UNCHANGED <<status, attemptNo, posts, pc, on, no>> PROVE CountInv'
  <2>1. \A d \in Deliveries : Recording(d)' = Recording(d)
    BY <1>1 DEF Recording
  <2>2. \A d \in Deliveries : Cardinality(Recording(d))' = Cardinality(Recording(d))
    BY <2>1
  <2>3. \A d \in Deliveries : Covered(d)'
    BY <1>1, <2>2 DEF CountInv, Covered, Waits
  <2>4. ExhaustedWasTried'
    BY <1>1 DEF CountInv, ExhaustedWasTried
  <2> QED
    BY <1>1, <2>3, <2>4 DEF CountInv
\* A step that leaves the rows and the requests alone and writes no outcome.
<1>2. ASSUME NEW p \in Procs, Others(p), UNCHANGED <<status, attemptNo, posts>>,
             pc'[p] # "record", pc'[p] = "post" => no'[p] <= attemptNo'[on'[p]]
      PROVE  CountInv'
  <2>1. \A d \in Deliveries : Records(p, d)' = 0 /\ Records(p, d) \in {0, 1}
    BY <1>2 DEF Records
  <2>2. \A d \in Deliveries : /\ posts[d] \in Nat /\ attemptNo[d] \in Nat /\ Waits(d) \in Nat
                              /\ Waits(d)' = Waits(d)
    BY <1>2 DEF Waits, WorldOK, RowsOK
  <2>3. \A d \in Deliveries :
          posts'[d] + attemptNo[d] + Records(p, d) + Waits(d)
            >= posts[d] + attemptNo'[d] + Records(p, d)' + Waits(d)'
    BY <1>2, <2>1, <2>2
  <2> QED
    BY <1>2, <2>2, <2>3, CountFrame
\* A row is made: nobody is at its outcome yet.
<1>3. ASSUME NEW p \in Procs, NEW d \in Deliveries, Others(p), status[d] = "none", Create(d),
             UNCHANGED posts, pc[p] # "record", pc'[p] = "post", on'[p] = d, no'[p] = 1
      PROVE  CountInv'
  <2>1. \A q \in Procs : on[q] # d
    BY <1>3 DEF MadeInv
  <2>2. Recording(d)' = {}
    BY <1>3, <2>1 DEF Recording, Others
  <2>3. attemptNo'[d] = 1 /\ status'[d] = "pending" /\ Waits(d)' = 0
        /\ \A x \in Deliveries \ {d} : attemptNo'[x] = attemptNo[x] /\ status'[x] = status[x]
    BY <1>3 DEF Create, Waits, RowsOK
  <2>4. Cardinality(Recording(d))' = 0
    BY <2>2, FS_EmptySet
  <2>5. Covered(d)'
    BY <1>3, <2>3, <2>4 DEF Covered, WorldOK
  <2>6. \A x \in Deliveries : Records(p, x) = 0 /\ Records(p, x)' = 0
    BY <1>3 DEF Records
  <2>7. \A x \in Deliveries \ {d} : Waits(x)' = Waits(x) /\ Waits(x) \in Nat
    BY <2>3 DEF Waits
  <2>8. \A x \in Deliveries \ {d} :
          posts'[x] + attemptNo[x] + Records(p, x) + Waits(x)
            >= posts[x] + attemptNo'[x] + Records(p, x)' + Waits(x)'
    BY <1>3, <2>3, <2>6, <2>7 DEF WorldOK, RowsOK
  <2> QED
    BY <1>3, <2>1, <2>3, <2>5, <2>8, CountFrame DEF WorldOK, RowsOK
<1>4. ASSUME NEW p \in Procs, Finish(p), UNCHANGED <<status, attemptNo, posts>>
      PROVE  CountInv'
  BY <1>2, <1>4, FinishHolds
<1>5. ASSUME NEW e \in Events, Publish(e) PROVE CountInv'
  BY <1>1, <1>5 DEF Publish
<1>6. ASSUME NEW e \in Events, NEW c \in Consumers, Consume(c, e) PROVE CountInv'
  <2>1. Others(c) /\ pc'[c] = "materialize" /\ UNCHANGED <<status, attemptNo, posts>>
    BY <1>6 DEF Consume, Goto, LocalsOK, Others
  <2> QED
    BY <1>2, <2>1
<1>7. ASSUME NEW p \in Procs, Post(p) PROVE CountInv'
  <2>1. /\ Others(p) /\ pc[p] = "post" /\ pc'[p] = "record" /\ on'[p] = on[p] /\ no'[p] = no[p]
        /\ UNCHANGED <<status, attemptNo>>
        /\ on[p] \in Deliveries
    BY <1>7 DEF Post, Goto, LocalsOK, Others, HolderOK
  <2>2. /\ posts'[on[p]] = posts[on[p]] + 1
        /\ \A d \in Deliveries \ {on[p]} : posts'[d] = posts[d]
    BY <1>7, <2>1 DEF Post, WorldOK
  <2>3. \A d \in Deliveries : /\ Records(p, d) = 0
                              /\ Records(p, d)' = IF d = on[p] THEN 1 ELSE 0
                              /\ Waits(d)' = Waits(d) /\ Waits(d) \in Nat
    BY <2>1 DEF Records, Waits
  <2>4. \A d \in Deliveries :
          /\ posts[d] <= posts'[d]
          /\ posts'[d] + attemptNo[d] + Records(p, d) + Waits(d)
               >= posts[d] + attemptNo'[d] + Records(p, d)' + Waits(d)'
    BY <2>1, <2>2, <2>3 DEF WorldOK, RowsOK
  <2>5. no[p] <= attemptNo[on[p]]
    BY <2>1 DEF CountInv
  <2> QED
    BY <2>1, <2>4, <2>5, CountFrame DEF RowsOK
\* The outcome is written by whoever has a request to show for it.
<1>8. ASSUME NEW p \in Procs, RecordSuccess(p) \/ RecordFailure(p) \/ SuccessNotWritten(p)
      PROVE  CountInv'
  <2>1. /\ pc[p] = "record" /\ Recorded(p) /\ on[p] \in Deliveries
        /\ UNCHANGED <<attemptNo, posts>>
    BY <1>8 DEF RecordSuccess, RecordFailure, SuccessNotWritten, WriteFailure, HolderOK
  <2>2. Others(p) /\ pc'[p] \notin {"post", "record"}
    BY <2>1, RecordedHolds
  <2>3. \A d \in Deliveries \ {on[p]} : status'[d] = status[d]
    BY <1>8, <2>1 DEF RecordSuccess, RecordFailure, SuccessNotWritten, WriteFailure, RowsOK
  <2>4. status'[on[p]] = "exhausted" => no[p] >= MaxAttempts
    BY <1>8, <2>1 DEF RecordSuccess, RecordFailure, SuccessNotWritten, WriteFailure, RowsOK, UsedUp
  <2>5. \A d \in Deliveries : /\ Records(p, d) = (IF d = on[p] THEN 1 ELSE 0)
                              /\ Records(p, d)' = 0
                              /\ Waits(d)' \in {0, 1} /\ Waits(d) \in {0, 1}
                              /\ d # on[p] => Waits(d)' = Waits(d)
    BY <2>1, <2>2, <2>3 DEF Records, Waits
  <2>6. \A d \in Deliveries :
          posts'[d] + attemptNo[d] + Records(p, d) + Waits(d)
            >= posts[d] + attemptNo'[d] + Records(p, d)' + Waits(d)'
    BY <2>1, <2>5 DEF WorldOK, RowsOK
  <2>7. posts[on[p]] >= attemptNo[on[p]]
    BY <2>1, PaidFor
  <2>8. no[p] <= attemptNo[on[p]]
    BY <2>1 DEF CountInv
  <2>9. status'[on[p]] = "exhausted" => posts'[on[p]] >= MaxAttempts
    BY <2>1, <2>4, <2>7, <2>8 DEF WorldOK, RowsOK, LocalsOK
  <2>10. \A d \in Deliveries :
           status'[d] = "exhausted" => status[d] = "exhausted" \/ posts'[d] >= MaxAttempts
    BY <2>3, <2>9
  <2> QED
    BY <2>1, <2>2, <2>6, <2>10, CountFrame DEF WorldOK, RowsOK
<1>9. ASSUME NEW c \in Consumers, Materialize(c) PROVE CountInv'
  <2>1. PICK ep \in todo[c] :
          /\ todo' = [todo EXCEPT ![c] = @ \ {ep}]
          /\ \/ /\ IsNew(<<ev[c], ep>>)
                /\ Create(<<ev[c], ep>>)
                /\ Take(c, <<ev[c], ep>>, 1)
                /\ Goto(c, "post")
             \/ UNCHANGED <<rows, held, pc>>
    BY <1>9 DEF Materialize
  <2>2. /\ ev[c] \in Events /\ ep \in Endpoints /\ pc[c] = "materialize" /\ UNCHANGED posts
    BY <1>9 DEF Materialize, HolderOK, LocalsOK
  <2>3. PICK d \in Deliveries : d = <<ev[c], ep>>
    BY <2>2 DEF Deliveries
  <2>4. Others(c)
    BY <1>9, <2>1 DEF Materialize, Take, Goto, LocalsOK, Others
  <2>5. CASE UNCHANGED <<rows, held, pc>>
    BY <1>1, <2>2, <2>5
  <2>6. CASE /\ IsNew(<<ev[c], ep>>) /\ Create(<<ev[c], ep>>)
             /\ Take(c, <<ev[c], ep>>, 1) /\ Goto(c, "post")
    <3>1. /\ status[d] = "none" /\ Create(d)
          /\ pc'[c] = "post" /\ on'[c] = d /\ no'[c] = 1
      BY <2>3, <2>6 DEF IsNew, Take, Goto, LocalsOK
    <3> QED
      BY <1>3, <2>2, <2>4, <3>1
  <2> QED
    BY <2>1, <2>5, <2>6
<1>10. ASSUME NEW c \in Consumers, Commit(c) \/ HandlerThrows(c) PROVE CountInv'
  BY <1>4, <1>10 DEF Commit, HandlerThrows
<1>11. ASSUME NEW p \in Procs, Crash(p) PROVE CountInv'
  BY <1>4, <1>11 DEF Crash
<1>12. ASSUME NEW w \in Sweepers, NEW d \in Deliveries, Select(w, d) PROVE CountInv'
  <2>1. Others(w) /\ pc'[w] = "claim" /\ UNCHANGED <<status, attemptNo, posts>>
    BY <1>12 DEF Select, Goto, LocalsOK, Others
  <2> QED
    BY <1>2, <2>1
<1>13. ASSUME NEW w \in Sweepers, Claim(w) PROVE CountInv'
  <2>1. pc[w] = "claim" /\ on[w] \in Deliveries /\ UNCHANGED posts
    BY <1>13 DEF Claim, HolderOK
  <2>2. Others(w) /\ pc'[w] \notin {"post", "record"}
    <3>1. CASE Finish(w)
      BY <3>1, FinishHolds
    <3>2. CASE Goto(w, "reload") /\ UNCHANGED <<held, ev, todo>>
      BY <3>2 DEF Goto, LocalsOK, Others
    <3> QED
      BY <1>13, <3>1, <3>2 DEF Claim
  <2>3. CASE UNCHANGED <<status, attemptNo>>
    BY <1>2, <2>1, <2>2, <2>3
  <2>4. CASE /\ status[on[w]] = "failed"
             /\ status' = [status EXCEPT ![on[w]] = "pending"]
             /\ attemptNo' = [attemptNo EXCEPT ![on[w]] = @ + 1]
    <3>1. /\ status'[on[w]] = "pending" /\ attemptNo'[on[w]] = attemptNo[on[w]] + 1
          /\ \A d \in Deliveries \ {on[w]} : status'[d] = status[d] /\ attemptNo'[d] = attemptNo[d]
      BY <2>1, <2>4 DEF RowsOK
    <3>2. \A d \in Deliveries : /\ Records(w, d) = 0 /\ Records(w, d)' = 0
                                /\ Waits(d) \in {0, 1} /\ Waits(d)' \in {0, 1}
                                /\ IF d = on[w] THEN Waits(d) = 1 /\ Waits(d)' = 0
                                   ELSE Waits(d)' = Waits(d)
      BY <2>1, <2>2, <2>4, <3>1 DEF Records, Waits
    <3>3. \A d \in Deliveries :
            /\ attemptNo[d] <= attemptNo'[d]
            /\ posts'[d] + attemptNo[d] + Records(w, d) + Waits(d)
                 >= posts[d] + attemptNo'[d] + Records(w, d)' + Waits(d)'
      BY <2>1, <3>1, <3>2 DEF WorldOK, RowsOK
    <3>4. \A d \in Deliveries : status'[d] = "exhausted" => status[d] = "exhausted"
      BY <3>1
    <3> QED
      BY <2>1, <2>2, <3>3, <3>4, CountFrame DEF WorldOK
  <2> QED
    BY <1>13, <2>3, <2>4 DEF Claim, Claimed
<1>14. ASSUME NEW w \in Sweepers, Reload(w) PROVE CountInv'
  <2>1. on[w] \in Deliveries
    BY <1>14 DEF Reload, HolderOK
  <2>2. /\ Others(w) /\ pc'[w] = "post" /\ on'[w] = on[w] /\ no'[w] = attemptNo[on[w]]
        /\ UNCHANGED <<status, attemptNo, posts>>
    BY <1>14 DEF Reload, Take, Goto, LocalsOK, Others
  <2>3. no'[w] <= attemptNo'[on'[w]]
    BY <2>1, <2>2 DEF RowsOK
  <2> QED
    BY <1>2, <2>2, <2>3
<1>15. ASSUME NEW q \in Operators, NEW d \in Manual, Redeliver(q, d) PROVE CountInv'
  <2>1. d \in Deliveries
    BY DEF Deliveries
  <2>2. /\ Others(q) /\ status[d] = "none" /\ Create(d) /\ UNCHANGED posts
        /\ pc[q] # "record" /\ pc'[q] = "post" /\ on'[q] = d /\ no'[q] = 1
    BY <1>15 DEF Redeliver, Take, Goto, LocalsOK, Others
  <2> QED
    BY <1>3, <2>1, <2>2
<1>16. ASSUME NEW d \in Deliveries, ComesDue(d) \/ GoesStale(d) PROVE CountInv'
  BY <1>1, <1>16 DEF ComesDue, GoesStale
<1>17. CASE UNCHANGED vars
  BY <1>1, <1>17 DEF vars
<1> QED
  BY <1>5, <1>6, <1>7, <1>8, <1>9, <1>10, <1>11, <1>12, <1>13, <1>14, <1>15, <1>16, <1>17
  DEF Next, Step

LEMMA InitCount == Init => CountInv
<1> SUFFICES ASSUME Init PROVE CountInv
  OBVIOUS
<1>1. ASSUME NEW d \in Deliveries PROVE Covered(d)
  <2>1. Recording(d) = {}
    BY DEF Init, Recording
  <2>2. Cardinality(Recording(d)) = 0
    BY <2>1, FS_EmptySet
  <2> QED
    BY <2>2 DEF Init, Covered, Waits
<1>2. ExhaustedWasTried
  BY DEF Init, ExhaustedWasTried
<1> QED
  BY <1>1, <1>2 DEF Init, CountInv

LEMMA CountHolds == Spec => [](TypeInv /\ CountInv)
  BY InitCount, CountStep, MadeHolds, TypeInvHolds, PTL DEF Spec

\* A row is given up only when its endpoint was asked MaxAttempts times, with
\* any number of overlapping sweeps, crashes and unconditional outcomes.
THEOREM ExhaustedTried == Spec => []ExhaustedWasTried
  BY CountHolds, PTL DEF CountInv

-----------------------------------------------------------------------------
(* What a process goes by is so: the answer it is about to write was given,  *)
(* and the event it handles was published.                                   *)

TrueInv ==
  /\ \A p \in Procs : pc[p] = "record" /\ answer[p] => on[p] \in heard
  /\ \A c \in Consumers : pc[c] # "idle" => log[ev[c]] # "none"

\* Answers are not taken back and events not unpublished.
Grows ==
  /\ heard \subseteq heard'
  /\ \A e \in Events : log[e] # "none" => log'[e] # "none"

LEMMA TrueFrame ==
  ASSUME TypeInv, TrueInv, NEW p \in Procs, Others(p), Grows,
         pc'[p] = "record" /\ answer'[p] => on'[p] \in heard',
         p \in Consumers /\ pc'[p] # "idle" =>
           log'[ev'[p]] # "none" \/ (pc[p] # "idle" /\ ev'[p] = ev[p])
  PROVE  TrueInv'
<1> Consumers \subseteq Procs /\ \A q \in Procs : HolderOK(q)
  BY DEF Procs, TypeInv
<1>1. \A q \in Procs : pc'[q] = "record" /\ answer'[q] => on'[q] \in heard'
  BY DEF Others, TrueInv, Grows
<1>2. \A c \in Consumers : pc'[c] # "idle" => log'[ev'[c]] # "none"
  BY DEF Others, TrueInv, Grows, HolderOK
<1> QED
  BY <1>1, <1>2 DEF TrueInv

LEMMA TrueStep == TypeInv /\ TrueInv /\ [Next]_vars => TrueInv'
<1> SUFFICES ASSUME TypeInv, TrueInv, [Next]_vars PROVE TrueInv'
  OBVIOUS
<1> LocalsOK /\ RowsOK /\ WorldOK /\ \A p \in Procs : HolderOK(p)
  BY TypeParts DEF TypeInv
<1> Consumers \subseteq Procs /\ Sweepers \subseteq Procs /\ Operators \subseteq Procs
  BY DEF Procs
<1>1. ASSUME UNCHANGED <<heard, pc, on, answer, ev>>, Grows PROVE TrueInv'
  BY <1>1 DEF TrueInv, Grows, HolderOK
<1>2. ASSUME NEW p \in Procs, Finish(p), Grows PROVE TrueInv'
  BY <1>2, FinishHolds, TrueFrame
<1>3. ASSUME NEW e \in Events, Publish(e) PROVE TrueInv'
  BY <1>1, <1>3 DEF Publish, Grows, WorldOK
<1>4. ASSUME NEW e \in Events, NEW c \in Consumers, Consume(c, e) PROVE TrueInv'
  <2>1. Others(c) /\ pc'[c] = "materialize" /\ log'[ev'[c]] # "none" /\ Grows
    BY <1>4 DEF Consume, Goto, LocalsOK, Others, Grows
  <2> QED
    BY <2>1, TrueFrame
<1>5. ASSUME NEW p \in Procs, Post(p) PROVE TrueInv'
  <2>1. /\ Others(p) /\ on'[p] = on[p] /\ ev'[p] = ev[p] /\ pc[p] # "idle"
        /\ answer'[p] => on[p] \in heard'
    BY <1>5 DEF Post, Goto, LocalsOK, Others
  <2>2. Grows
    BY <1>5 DEF Post, Grows
  <2> QED
    BY <2>1, <2>2, TrueFrame
<1>6. ASSUME NEW p \in Procs, RecordSuccess(p) \/ RecordFailure(p) \/ SuccessNotWritten(p)
      PROVE  TrueInv'
  <2>1. pc[p] = "record" /\ Recorded(p) /\ Grows
    BY <1>6 DEF RecordSuccess, RecordFailure, SuccessNotWritten, WriteFailure, Grows
  <2> QED
    BY <2>1, RecordedHolds, TrueFrame
<1>7. ASSUME NEW c \in Consumers, Materialize(c) PROVE TrueInv'
  <2>1. Others(c) /\ pc'[c] \in {"post", "materialize"} /\ ev'[c] = ev[c] /\ pc[c] # "idle"
    BY <1>7 DEF Materialize, Take, Goto, LocalsOK, Others
  <2>2. Grows
    BY <1>7 DEF Materialize, Grows
  <2> QED
    BY <2>1, <2>2, TrueFrame
<1>8. ASSUME NEW c \in Consumers, Commit(c) PROVE TrueInv'
  <2>1. Grows
    BY <1>8 DEF Commit, Grows, WorldOK
  <2> QED
    BY <1>2, <1>8, <2>1 DEF Commit
<1>9. ASSUME NEW c \in Consumers, HandlerThrows(c) PROVE TrueInv'
  <2>1. Grows
    BY <1>9 DEF HandlerThrows, Grows, WorldOK
  <2> QED
    BY <1>2, <1>9, <2>1 DEF HandlerThrows
<1>10. ASSUME NEW p \in Procs, Crash(p) PROVE TrueInv'
  BY <1>2, <1>10 DEF Crash, Grows
<1>11. ASSUME NEW w \in Sweepers, NEW d \in Deliveries, Select(w, d) PROVE TrueInv'
  <2>1. Others(w) /\ pc'[w] = "claim" /\ w \notin Consumers /\ Grows
    BY <1>11, ConstantsAssumption DEF Select, Goto, LocalsOK, Others, Grows
  <2> QED
    BY <2>1, TrueFrame
<1>12. ASSUME NEW w \in Sweepers, Claim(w) PROVE TrueInv'
  <2>1. Grows
    BY <1>12 DEF Claim, Grows
  <2>2. CASE Goto(w, "reload") /\ UNCHANGED <<held, ev, todo>>
    <3>1. Others(w) /\ pc'[w] = "reload" /\ w \notin Consumers
      BY <2>2, ConstantsAssumption DEF Goto, LocalsOK, Others
    <3> QED
      BY <2>1, <3>1, TrueFrame
  <2> QED
    BY <1>2, <1>12, <2>1, <2>2 DEF Claim
<1>13. ASSUME NEW w \in Sweepers, Reload(w) PROVE TrueInv'
  <2>1. Others(w) /\ pc'[w] = "post" /\ w \notin Consumers /\ Grows
    BY <1>13, ConstantsAssumption DEF Reload, Take, Goto, LocalsOK, Others, Grows
  <2> QED
    BY <2>1, TrueFrame
<1>14. ASSUME NEW q \in Operators, NEW d \in Manual, Redeliver(q, d) PROVE TrueInv'
  <2>1. Others(q) /\ pc'[q] = "post" /\ q \notin Consumers /\ Grows
    BY <1>14, ConstantsAssumption DEF Redeliver, Take, Goto, LocalsOK, Others, Grows
  <2> QED
    BY <2>1, TrueFrame
<1>15. ASSUME NEW d \in Deliveries, ComesDue(d) \/ GoesStale(d) PROVE TrueInv'
  BY <1>1, <1>15 DEF ComesDue, GoesStale, Grows
<1>16. CASE UNCHANGED vars
  BY <1>1, <1>16 DEF vars, Grows
<1> QED
  BY <1>3, <1>4, <1>5, <1>6, <1>7, <1>8, <1>9, <1>10, <1>11, <1>12, <1>13, <1>14, <1>15, <1>16
  DEF Next, Step

\* A step of the code is one of the promise, or nothing a merchant could see.
LEMMA PromiseStep ==
  ASSUME TypeInv, MadeInv, CountInv, TrueInv, [Next]_vars
  PROVE  [Promise!Next]_(Promise!promise)
<1> DEFINE Done == UNCHANGED Promise!promise \/ Promise!Next
<1> SUFFICES Done
  BY Zenon
<1> LocalsOK /\ RowsOK /\ WorldOK /\ \A p \in Procs : HolderOK(p)
  BY TypeParts DEF TypeInv
<1> Consumers \subseteq Procs /\ Sweepers \subseteq Procs
    /\ Promise!Deliveries = Deliveries
  BY DEF Procs, Promise!Deliveries, Deliveries
<1>1. ASSUME UNCHANGED <<log, status, attemptNo, posts, heard>> PROVE Done
  BY <1>1 DEF Promise!promise
<1>2. ASSUME NEW e \in Events, Publish(e) PROVE Done
  <2>1. Promise!Publish(e)
    BY <1>2 DEF Publish, Promise!Publish, Promise!Turn
  <2> QED
    BY <2>1 DEF Promise!Next
<1>3. ASSUME NEW p \in Procs, Post(p) PROVE Done
  <2>1. PICK d \in Deliveries : d = on[p]
    BY <1>3 DEF Post, HolderOK
  <2>2. status[d] # "none"
    BY <2>1 DEF MadeInv
  <2>3. Promise!Ask(d)
    BY <1>3, <2>1, <2>2 DEF Post, Promise!Ask
  <2> QED
    BY <2>3 DEF Promise!Next
<1>4. ASSUME NEW p \in Procs, RecordSuccess(p) \/ RecordFailure(p) \/ SuccessNotWritten(p)
      PROVE  Done
  <2>1. pc[p] = "record" /\ UNCHANGED <<log, attemptNo, posts, heard>>
    BY <1>4 DEF RecordSuccess, RecordFailure, SuccessNotWritten, WriteFailure
  <2>2. PICK d \in Deliveries : d = on[p]
    BY <2>1, PaidFor
  <2>3. /\ status[d] # "none" /\ attemptNo[d] <= posts[d]
        /\ no[p] <= attemptNo[d]
        /\ answer[p] => d \in heard
    BY <2>1, <2>2, PaidFor DEF MadeInv, CountInv, TrueInv
  <2>4. UsedUp(p) => posts[d] >= MaxAttempts
    BY <2>2, <2>3, ConstantsAssumption DEF UsedUp, LocalsOK, RowsOK, WorldOK
  <2>5. CASE RecordSuccess(p)
    <3>1. Promise!Conclude(d, "succeeded")
      BY <2>1, <2>2, <2>3, <2>5 DEF RecordSuccess, Promise!Conclude
    <3> QED
      BY <3>1 DEF Promise!Next
  <2>6. CASE WriteFailure(p) /\ UsedUp(p)
    <3>1. Promise!Conclude(d, "exhausted")
      BY <2>1, <2>2, <2>3, <2>4, <2>6 DEF WriteFailure, Promise!Conclude
    <3> QED
      BY <3>1 DEF Promise!Next
  <2>7. CASE WriteFailure(p) /\ ~UsedUp(p)
    <3>1. Promise!Conclude(d, "failed")
      BY <2>1, <2>2, <2>3, <2>7 DEF WriteFailure, Promise!Conclude
    <3> QED
      BY <3>1 DEF Promise!Next
  <2> QED
    BY <1>4, <2>5, <2>6, <2>7 DEF RecordFailure, SuccessNotWritten
<1>5. ASSUME NEW c \in Consumers, Materialize(c) PROVE Done
  <2>1. PICK ep \in todo[c] :
          \/ /\ IsNew(<<ev[c], ep>>)
             /\ Create(<<ev[c], ep>>)
          \/ UNCHANGED rows
    BY <1>5 DEF Materialize
  <2>2. /\ ev[c] \in Events /\ ep \in Endpoints /\ log[ev[c]] # "none"
        /\ UNCHANGED <<log, posts, heard>>
    BY <1>5 DEF Materialize, HolderOK, LocalsOK, TrueInv
  <2>3. PICK d \in Deliveries : d = <<ev[c], ep>>
    BY <2>2 DEF Deliveries
  <2>4. CASE IsNew(<<ev[c], ep>>) /\ Create(<<ev[c], ep>>)
    <3>1. Promise!Tell(d)
      BY <2>2, <2>3, <2>4 DEF IsNew, Create, Promise!Tell
    <3> QED
      BY <3>1 DEF Promise!Next
  <2> QED
    BY <1>1, <2>1, <2>2, <2>4
<1>6. ASSUME NEW c \in Consumers, Commit(c) PROVE Done
  <2>1. PICK e \in Events : e = ev[c]
    BY <1>6 DEF Commit, HolderOK
  <2>2. \A ep \in Endpoints : status[<<e, ep>>] # "none"
    BY <1>6, <2>1 DEF Commit, Handled, MadeInv, Materialized
  <2>3. CASE log[e] = "queued"
    <3>1. Promise!Accept(e)
      BY <1>6, <2>1, <2>2, <2>3 DEF Commit, Promise!Accept, Promise!Turn
    <3> QED
      BY <3>1 DEF Promise!Next
  <2>4. CASE log[e] # "queued"
    BY <1>1, <1>6, <2>1, <2>4 DEF Commit, WorldOK
  <2> QED
    BY <2>3, <2>4
<1>7. ASSUME NEW c \in Consumers, HandlerThrows(c) PROVE Done
  <2>1. PICK e \in Events : e = ev[c]
    BY <1>7 DEF HandlerThrows, HolderOK
  <2>2. /\ UNCHANGED <<status, attemptNo, posts, heard>>
        /\ \/ log' = [log EXCEPT ![e] = IF log[e] = "queued" THEN "dead" ELSE log[e]]
           \/ UNCHANGED log
    BY <1>7, <2>1 DEF HandlerThrows
  <2>3. CASE log[e] = "queued" /\ log' = [log EXCEPT ![e] = "dead"]
    <3>1. Promise!GiveUp(e)
      BY <2>2, <2>3 DEF Promise!GiveUp, Promise!Turn
    <3> QED
      BY <3>1 DEF Promise!Next
  <2>4. CASE UNCHANGED log
    BY <1>1, <2>2, <2>4
  <2> QED
    BY <2>2, <2>3, <2>4 DEF WorldOK
<1>8. ASSUME NEW w \in Sweepers, Claim(w) PROVE Done
  <2>1. UNCHANGED <<log, posts, heard>>
    BY <1>8 DEF Claim
  <2>2. PICK d \in Deliveries : d = on[w]
    BY <1>8 DEF Claim, HolderOK
  <2>3. CASE /\ status[on[w]] = "failed"
             /\ status' = [status EXCEPT ![on[w]] = "pending"]
             /\ attemptNo' = [attemptNo EXCEPT ![on[w]] = @ + 1]
    <3>1. Promise!Retry(d)
      BY <2>1, <2>2, <2>3 DEF Promise!Retry
    <3> QED
      BY <3>1 DEF Promise!Next
  <2>4. CASE UNCHANGED <<status, attemptNo>>
    BY <1>1, <2>1, <2>4
  <2> QED
    BY <1>8, <2>3, <2>4 DEF Claim, Claimed
<1>9. ASSUME NEW q \in Operators, NEW d \in Manual, Redeliver(q, d) PROVE Done
  <2>1. d \in Deliveries
    BY DEF Deliveries
  <2>2. Promise!Tell(d)
    BY <1>9, <2>1 DEF Redeliver, Create, Promise!Tell
  <2> QED
    BY <2>1, <2>2 DEF Promise!Next
<1>10. ASSUME NEW p \in Procs, Crash(p) \/ Reload(p) PROVE Done
  BY <1>1, <1>10 DEF Crash, Reload
<1>11. ASSUME NEW e \in Events, NEW c \in Consumers, Consume(c, e) PROVE Done
  BY <1>1, <1>11 DEF Consume
<1>12. ASSUME NEW w \in Sweepers, NEW d \in Deliveries, Select(w, d) PROVE Done
  BY <1>1, <1>12 DEF Select
<1>13. ASSUME NEW d \in Deliveries, ComesDue(d) \/ GoesStale(d) PROVE Done
  BY <1>1, <1>13 DEF ComesDue, GoesStale
<1>14. CASE UNCHANGED vars
  BY <1>1, <1>14 DEF vars
<1> QED
  BY <1>2, <1>3, <1>4, <1>5, <1>6, <1>7, <1>8, <1>9, <1>10, <1>11, <1>12, <1>13, <1>14
  DEF Next, Step

\* What consumers, ticks and operators do to rows and events, in any overlap
\* and with any crash, is what DeliveryPromise lets happen.
THEOREM PromiseKept == Spec => KeepsPromise
<1>1. Init => TrueInv
  BY DEF Init, TrueInv, Procs
<1>2. Spec => [](TypeInv /\ MadeInv /\ CountInv /\ TrueInv)
  BY <1>1, TrueStep, MadeHolds, CountHolds, PTL DEF Spec
<1>3. Init => Promise!Init
  BY DEF Init, Promise!Init, Promise!Deliveries, Deliveries
<1> QED
  BY <1>2, <1>3, PromiseStep, PTL DEF Spec, KeepsPromise, Promise!Spec

=============================================================================
