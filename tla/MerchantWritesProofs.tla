------------------------ MODULE MerchantWritesProofs ------------------------
(***************************************************************************)
(* Proofs about MerchantWrites, for any number of requests, keys and       *)
(* payments.                                                               *)
(***************************************************************************)
EXTENDS MerchantWrites, FiniteSetTheorems, TLAPS

USE DEF outside

-----------------------------------------------------------------------------
(* Types, and what a request may rely on where it is *)

Decided == {"insert", "simulate", "reverse", "succeed"}
OfRefund == {"received", "locking", "decide", "insert", "existing", "simulate", "reverse",
             "succeed", "fail"}
OfIntent == {"look", "create", "publish", "metadata"}

HolderOK(r) ==
  /\ pc[r] # "idle" => ask[r] \in Asks
  /\ pc[r] \in OfRefund => IsRefund(ask[r])
  /\ pc[r] \in OfIntent => ~IsRefund(ask[r])
  /\ pc[r] \in Decided => amount[r] \in 1..Worth
  /\ pc[r] \in {"existing", "simulate", "reverse", "succeed", "fail"} => refunds[Key(r)] # None
  /\ pc[r] \in {"publish", "metadata"} => intents[Key(r)] # None
  /\ pc[r] \in {"store", "answered"} => reply[r] # None

RequestsOK ==
  /\ ask \in [Requests -> Asks \cup {None}]
  /\ pc \in [Requests -> PCs]
  /\ amount \in [Requests -> Nat]
  /\ reply \in [Requests -> Refunds \cup Intents \cup {None}]

TablesOK ==
  /\ confirmed \subseteq Payments
  /\ refunds \in [Keys -> Refunds \cup {None}]
  /\ intents \in [Keys -> Intents \cup {None}]
  /\ stored \in [Scopes -> [Keys -> Records \cup {None}]]
  /\ reversals \in [Keys -> Nat]
  /\ created \in [Keys -> Nat]
  /\ fails \in 0..MaxFails

TypeInv == RequestsOK /\ TablesOK /\ \A r \in Requests : HolderOK(r)

LEMMA TypeInvTypes == TypeInv => TypeOK
  BY DEF TypeInv, TypeOK, RequestsOK, TablesOK, HolderOK

\* The requests but r keep where they are and what they hold.
Others(r) ==
  \A q \in Requests \ {r} :
    pc'[q] = pc[q] /\ ask'[q] = ask[q] /\ amount'[q] = amount[q] /\ reply'[q] = reply[q]

\* Rows stay: none is deleted.
RowsStay ==
  \A k \in Keys : /\ refunds[k] # None => refunds'[k] # None
                  /\ intents[k] # None => intents'[k] # None

LEMMA Asked ==
  ASSUME NEW a \in Asks
  PROVE  /\ a.key \in Keys /\ a.body \in Bodies \cup RefundBodies
         /\ IsRefund(a) => a.body \in RefundBodies /\ a.body.payment \in Payments
         /\ ~IsRefund(a) => a.body \in Bodies
  BY AsksAssumption DEF IsRefund, RefundBodies

LEMMA HoldersFrame ==
  ASSUME TypeInv, NEW r \in Requests, Others(r), RowsStay, RequestsOK', TablesOK', HolderOK(r)'
  PROVE  TypeInv'
<1>1. ASSUME NEW q \in Requests \ {r} PROVE HolderOK(q)'
  <2>1. HolderOK(q) /\ (pc[q] # "idle" => Key(q) \in Keys)
    BY Asked DEF TypeInv, HolderOK, Key
  <2>2. pc[q] \in PCs /\ Key(q)' = Key(q)
    BY DEF TypeInv, RequestsOK, Others, Key
  <2> QED
    BY <2>1, <2>2 DEF Others, RowsStay, HolderOK
<1> QED
  BY <1>1 DEF TypeInv

LEMMA GotoHolds ==
  ASSUME RequestsOK, NEW r \in Requests, NEW label \in PCs, Goto(r, label)
  PROVE  /\ pc' \in [Requests -> PCs] /\ pc'[r] = label
         /\ \A q \in Requests \ {r} : pc'[q] = pc[q]
  BY DEF RequestsOK, Goto

\* A step that only moves r, and says why it may be there.
LEMMA MoveHolds ==
  ASSUME TypeInv, NEW r \in Requests, NEW label \in PCs, Goto(r, label),
         UNCHANGED <<refunds, intents, ask, amount, reply>>, TablesOK', HolderOK(r)'
  PROVE  TypeInv'
<1>1. RequestsOK' /\ Others(r)
  BY GotoHolds DEF TypeInv, RequestsOK, Others
<1> QED
  BY <1>1, HoldersFrame DEF RowsStay

LEMMA InitTypeInv == Init => TypeInv
  BY ConstantsAssumption DEF Init, TypeInv, RequestsOK, TablesOK, HolderOK, PCs, Decided, OfRefund,
     OfIntent, Scopes

LEMMA TypeInvStep == TypeInv /\ [Next]_vars => TypeInv'
<1> SUFFICES ASSUME TypeInv, [Next]_vars PROVE TypeInv'
  OBVIOUS
<1> USE DEF PCs, Busy, Ends, UnderLock, Decided, OfRefund, OfIntent
<1> RequestsOK /\ TablesOK /\ \A r \in Requests : HolderOK(r)
  BY DEF TypeInv
<1>1. ASSUME NEW p \in Payments, Confirm(p) PROVE TypeInv'
  <2>1. TablesOK' /\ RequestsOK'
    BY <1>1 DEF Confirm, TablesOK, RequestsOK
  <2>2. \A r \in Requests : HolderOK(r)'
    BY <1>1 DEF Confirm, HolderOK, Key
  <2> QED
    BY <2>1, <2>2 DEF TypeInv
<1>2. ASSUME NEW r \in Requests, NEW a \in Asks, Receive(r, a) PROVE TypeInv'
  <2>1. RequestsOK' /\ Others(r) /\ ask'[r] = a
        /\ pc'[r] = IF IsRefund(a) THEN "received" ELSE "find"
    BY <1>2 DEF Receive, Goto, RequestsOK, Others
  <2>2. TablesOK' /\ RowsStay
    BY <1>2 DEF Receive, TablesOK, RowsStay
  <2>3. HolderOK(r)'
    BY <2>1 DEF HolderOK
  <2> QED
    BY <2>1, <2>2, <2>3, HoldersFrame
<1>3. ASSUME NEW r \in Requests, pc[r] # "idle", NEW label \in PCs, Goto(r, label),
             UNCHANGED <<refunds, intents, ask, amount, reply>>, TablesOK',
             label \in {"conflict", "refused", "failed"} \/
             (label \in {"locking", "decide", "insert"} /\ IsRefund(ask[r])
              /\ (label = "insert" => amount[r] \in 1..Worth)) \/
             (label \in {"look", "create"} /\ ~IsRefund(ask[r])) \/
             label = "find"
      PROVE  TypeInv'
  <2>1. pc'[r] = label
    BY <1>3, GotoHolds
  <2>2. HolderOK(r)'
    BY <1>3, <2>1 DEF HolderOK
  <2> QED
    BY <1>3, <2>2, MoveHolds
<1>4. ASSUME NEW r \in Requests, Connect(r) \/ Lock(r) PROVE TypeInv'
  BY <1>3, <1>4 DEF Connect, Lock, TablesOK, HolderOK
<1>5. ASSUME NEW r \in Requests, Find(r) PROVE TypeInv'
  <2>1. TablesOK' /\ ask[r] \in Asks
    BY <1>5 DEF Find, TablesOK, HolderOK
  <2>2. CASE UNCHANGED reply /\ (\/ Goto(r, IF IsRefund(ask[r]) THEN "decide" ELSE "look")
                                 \/ Goto(r, "conflict"))
    <3>1. UNCHANGED <<refunds, intents, ask, amount, reply>> /\ pc[r] # "idle"
      BY <1>5, <2>2 DEF Find
    <3>2. CASE Goto(r, "conflict")
      BY <1>3, <2>1, <3>1, <3>2
    <3>3. CASE Goto(r, "decide") /\ IsRefund(ask[r])
      BY <1>3, <2>1, <3>1, <3>3
    <3>4. CASE Goto(r, "look") /\ ~IsRefund(ask[r])
      BY <1>3, <2>1, <3>1, <3>4
    <3> QED
      BY <2>2, <3>2, <3>3, <3>4
  <2>3. CASE /\ Found(r) # None
             /\ reply' = [reply EXCEPT ![r] = Found(r).reply]
             /\ Goto(r, "answered")
    <3>1. Key(r) \in Keys
      BY <2>1, Asked DEF Key
    <3>2. Found(r) \in Records
      BY <2>3, <3>1 DEF Found, Scope, Scopes, TablesOK
    <3>3. Found(r).reply \in Refunds \cup Intents /\ Found(r).reply # None
      BY <3>2, NoneAssumption DEF Records
    <3>4. RequestsOK' /\ Others(r) /\ pc'[r] = "answered" /\ reply'[r] = Found(r).reply
          /\ ask'[r] = ask[r]
      BY <1>5, <2>3, <3>3 DEF Find, Goto, RequestsOK, Others
    <3>5. HolderOK(r)' /\ RowsStay
      BY <1>5, <2>1, <3>3, <3>4 DEF Find, HolderOK, RowsStay
    <3> QED
      BY <2>1, <3>4, <3>5, HoldersFrame
  <2> QED
    BY <1>5, <2>2, <2>3 DEF Find
<1>6. ASSUME NEW r \in Requests, Store(r) PROVE TypeInv'
  <2>1. ask[r] \in Asks /\ reply[r] # None /\ reply[r] \in Refunds \cup Intents
    BY <1>6 DEF Store, HolderOK, RequestsOK
  <2>2. Key(r) \in Keys /\ Body(r) \in Bodies \cup RefundBodies /\ Scope(r) \in Scopes
    BY <2>1, Asked DEF Key, Body, Scope, Scopes
  <2>3. [body |-> Body(r), reply |-> reply[r]] \in Records
    BY <2>1, <2>2 DEF Records
  <2>4. TablesOK'
    <3>1. PICK k \in Keys, s \in Scopes : k = Key(r) /\ s = Scope(r)
      BY <2>2
    <3>2. \/ UNCHANGED stored
          \/ stored' = [stored EXCEPT ![s][k] = [body |-> Body(r), reply |-> reply[r]]]
      BY <1>6, <3>1 DEF Store
    <3>3. stored' \in [Scopes -> [Keys -> Records \cup {None}]]
      BY <2>3, <3>2 DEF TablesOK
    <3> QED
      BY <1>6, <3>3 DEF Store, TablesOK
  <2>5. CASE Goto(r, "answered")
    <3>1. HolderOK(r)'
      BY <1>6, <2>1, <2>5, GotoHolds DEF Store, HolderOK
    <3> QED
      BY <1>6, <2>4, <2>5, <3>1, MoveHolds DEF Store
  <2>6. CASE Goto(r, "find")
    BY <1>3, <1>6, <2>4, <2>6 DEF Store
  <2> QED
    BY <1>6, <2>5, <2>6 DEF Store, LostTo
<1>7. ASSUME NEW r \in Requests, Decide(r) PROVE TypeInv'
  <2>1. TablesOK' /\ ask[r] \in Asks /\ IsRefund(ask[r])
    BY <1>7 DEF Decide, TablesOK, HolderOK
  <2>2. CASE UNCHANGED amount /\ Goto(r, "refused")
    BY <1>3, <1>7, <2>1, <2>2 DEF Decide
  <2>3. CASE Refundable(r) /\ amount' = [amount EXCEPT ![r] = Requested(r)] /\ Goto(r, "insert")
    <3>1. Requested(r) \in 1..Worth /\ Requested(r) \in Nat
      BY <2>3, ConstantsAssumption DEF Refundable
    <3>2. RequestsOK' /\ Others(r) /\ pc'[r] = "insert" /\ amount'[r] = Requested(r)
          /\ ask'[r] = ask[r]
      BY <1>7, <2>3, <3>1 DEF Decide, Goto, RequestsOK, Others
    <3>3. HolderOK(r)' /\ RowsStay
      BY <1>7, <2>1, <3>1, <3>2 DEF Decide, HolderOK, RowsStay
    <3> QED
      BY <2>1, <3>2, <3>3, HoldersFrame
  <2> QED
    BY <1>7, <2>2, <2>3 DEF Decide
<1>8. ASSUME NEW r \in Requests, InsertRow(r) PROVE TypeInv'
  <2>1. /\ ask[r] \in Asks /\ IsRefund(ask[r]) /\ amount[r] \in 1..Worth
        /\ Key(r) \in Keys /\ Body(r).payment \in Payments
    BY <1>8, Asked DEF InsertRow, HolderOK, Key, Body
  <2>2. PICK k \in Keys : k = Key(r)
    BY <2>1
  <2>3. CASE Taken(k) /\ Goto(r, "existing") /\ UNCHANGED refunds
    <3>1. TablesOK' /\ pc'[r] = "existing"
      BY <1>8, <2>3, GotoHolds DEF InsertRow, TablesOK
    <3>2. HolderOK(r)'
      BY <1>8, <2>1, <2>2, <2>3, <3>1 DEF InsertRow, HolderOK, Taken, Key
    <3> QED
      BY <1>8, <2>3, <3>1, <3>2, MoveHolds DEF InsertRow
  <2>4. CASE /\ refunds' = [refunds EXCEPT ![k] =
                  [payment |-> Body(r).payment, amount |-> amount[r], status |-> "pending"]]
             /\ Goto(r, IF Body(r).payment \in Sandbox THEN "simulate" ELSE "reverse")
    <3>1. [payment |-> Body(r).payment, amount |-> amount[r], status |-> "pending"] \in Refunds
      BY <2>1 DEF Refunds, RefundStatuses
    <3>2. /\ refunds' \in [Keys -> Refunds \cup {None}] /\ refunds'[k] # None
          /\ \A x \in Keys \ {k} : refunds'[x] = refunds[x]
      BY <2>4, <3>1, NoneAssumption DEF TablesOK
    <3>3. pc' \in [Requests -> PCs] /\ pc'[r] \in {"simulate", "reverse"}
          /\ \A q \in Requests \ {r} : pc'[q] = pc[q]
      BY <2>4, GotoHolds
    <3>4. TablesOK' /\ RequestsOK' /\ Others(r) /\ RowsStay
      BY <1>8, <3>2, <3>3 DEF InsertRow, TablesOK, RequestsOK, Others, RowsStay
    <3>5. HolderOK(r)'
      BY <1>8, <2>1, <2>2, <3>2, <3>3 DEF InsertRow, HolderOK, Key
    <3> QED
      BY <3>4, <3>5, HoldersFrame
  <2> QED
    BY <1>8, <2>2, <2>3, <2>4 DEF InsertRow
<1>9. ASSUME NEW r \in Requests, TakeExisting(r) PROVE TypeInv'
  <2>1. ask[r] \in Asks /\ IsRefund(ask[r]) /\ Key(r) \in Keys /\ refunds[Key(r)] # None
    BY <1>9, Asked DEF TakeExisting, HolderOK, Key
  <2>2. refunds[Key(r)] \in Refunds
    BY <2>1 DEF TablesOK
  <2>3. RequestsOK' /\ Others(r) /\ pc'[r] = "store" /\ reply'[r] # None /\ ask'[r] = ask[r]
    BY <1>9, <2>1, <2>2 DEF TakeExisting, Goto, RequestsOK, Others
  <2>4. TablesOK' /\ RowsStay /\ HolderOK(r)'
    BY <1>9, <2>1, <2>3 DEF TakeExisting, TablesOK, RowsStay, HolderOK
  <2> QED
    BY <2>3, <2>4, HoldersFrame
\* An outcome is written to a row that is there.
<1>10. ASSUME NEW r \in Requests, NEW st \in RefundStatuses, SetStatus(r, st),
              Key(r) \in Keys, refunds[Key(r)] # None
       PROVE  /\ refunds' \in [Keys -> Refunds \cup {None}]
              /\ \A k \in Keys : refunds[k] # None => refunds'[k] # None
  <2>1. PICK k \in Keys : k = Key(r)
    BY <1>10
  <2>2. refunds[k] \in Refunds
    BY <1>10, <2>1 DEF TablesOK
  <2>3. [refunds[k] EXCEPT !.status = st] \in Refunds
    BY <2>2 DEF Refunds
  <2>4. /\ refunds'[k] = [refunds[k] EXCEPT !.status = st]
        /\ \A x \in Keys \ {k} : refunds'[x] = refunds[x]
        /\ refunds' \in [Keys -> Refunds \cup {None}]
    BY <1>10, <2>1, <2>3 DEF SetStatus, TablesOK
  <2> QED
    BY <2>3, <2>4, NoneAssumption
<1>11. ASSUME NEW r \in Requests, Simulate(r) \/ RecordReversal(r) PROVE TypeInv'
  <2>1. /\ ask[r] \in Asks /\ IsRefund(ask[r]) /\ amount[r] \in 1..Worth
        /\ Key(r) \in Keys /\ Body(r).payment \in Payments /\ refunds[Key(r)] # None
    BY <1>11, Asked DEF Simulate, RecordReversal, HolderOK, Key, Body
  <2>2. Succeeded(r) \in Refunds /\ Succeeded(r) # None
    BY <2>1, NoneAssumption DEF Succeeded, Refunds, RefundStatuses
  <2>3. RequestsOK' /\ Others(r) /\ pc'[r] = "store" /\ reply'[r] # None /\ ask'[r] = ask[r]
    BY <1>11, <2>2 DEF Simulate, RecordReversal, Goto, RequestsOK, Others
  <2>4. /\ refunds' \in [Keys -> Refunds \cup {None}]
        /\ \A k \in Keys : refunds[k] # None => refunds'[k] # None
    BY <1>10, <1>11, <2>1 DEF Simulate, RecordReversal, RefundStatuses
  <2>5. TablesOK' /\ RowsStay /\ HolderOK(r)'
    BY <1>11, <2>1, <2>3, <2>4 DEF Simulate, RecordReversal, TablesOK, RowsStay, HolderOK
  <2> QED
    BY <2>3, <2>5, HoldersFrame
<1>12. ASSUME NEW r \in Requests, Send(r) \/ UNCHANGED reversals, Key(r) \in Keys
       PROVE  reversals' \in [Keys -> Nat]
  BY <1>12 DEF Send, TablesOK
<1>13. ASSUME NEW r \in Requests, Reverse(r) \/ ReverseThrows(r) \/ RecordingThrows(r) PROVE TypeInv'
  <2>1. /\ ask[r] \in Asks /\ IsRefund(ask[r]) /\ amount[r] \in 1..Worth
        /\ Key(r) \in Keys /\ refunds[Key(r)] # None
    BY <1>13, Asked DEF Reverse, ReverseThrows, RecordingThrows, HolderOK, Key
  <2>2. reversals' \in [Keys -> Nat]
    BY <1>12, <1>13, <2>1 DEF Reverse, ReverseThrows, RecordingThrows
  <2>3. TablesOK'
    BY <1>13, <2>2, ConstantsAssumption DEF Reverse, ReverseThrows, RecordingThrows, TablesOK
  <2>4. PICK label \in {"succeed", "fail"} : Goto(r, label)
    BY <1>13 DEF Reverse, ReverseThrows, RecordingThrows
  <2>5. HolderOK(r)'
    BY <1>13, <2>1, <2>4, GotoHolds DEF Reverse, ReverseThrows, RecordingThrows, HolderOK, Key
  <2> QED
    BY <1>13, <2>3, <2>4, <2>5, MoveHolds DEF Reverse, ReverseThrows, RecordingThrows
<1>14. ASSUME NEW r \in Requests, FailRow(r) PROVE TypeInv'
  <2>1. ask[r] \in Asks /\ Key(r) \in Keys /\ refunds[Key(r)] # None
    BY <1>14, Asked DEF FailRow, HolderOK, Key
  <2>2. /\ refunds' \in [Keys -> Refunds \cup {None}]
        /\ \A k \in Keys : refunds[k] # None => refunds'[k] # None
    BY <1>10, <1>14, <2>1 DEF FailRow, RefundStatuses
  <2>3. RequestsOK' /\ Others(r) /\ pc'[r] = "failed" /\ ask'[r] = ask[r]
    BY <1>14 DEF FailRow, Goto, RequestsOK, Others
  <2>4. TablesOK' /\ RowsStay /\ HolderOK(r)'
    BY <1>14, <2>1, <2>2, <2>3 DEF FailRow, TablesOK, RowsStay, HolderOK
  <2> QED
    BY <2>3, <2>4, HoldersFrame
<1>15. ASSUME NEW r \in Requests, Look(r) PROVE TypeInv'
  <2>1. ask[r] \in Asks /\ ~IsRefund(ask[r]) /\ Key(r) \in Keys /\ TablesOK'
    BY <1>15, Asked DEF Look, HolderOK, Key, TablesOK
  <2>2. CASE intents[Key(r)] = None
    BY <1>3, <1>15, <2>1, <2>2 DEF Look
  <2>3. CASE intents[Key(r)] # None
    <3>1. intents[Key(r)] \in Intents
      BY <2>1, <2>3 DEF TablesOK
    <3>2. /\ RequestsOK' /\ Others(r) /\ pc'[r] \in {"metadata", "store"}
          /\ reply'[r] # None /\ ask'[r] = ask[r]
      BY <1>15, <2>3, <3>1 DEF Look, Goto, RequestsOK, Others
    <3>3. RowsStay /\ HolderOK(r)'
      BY <1>15, <2>1, <2>3, <3>2 DEF Look, RowsStay, HolderOK, Key
    <3> QED
      BY <2>1, <3>2, <3>3, HoldersFrame
  <2> QED
    BY <2>2, <2>3
<1>16. ASSUME NEW r \in Requests, Create(r) PROVE TypeInv'
  <2>1. ask[r] \in Asks /\ ~IsRefund(ask[r]) /\ Key(r) \in Keys /\ Body(r) \in Bodies
    BY <1>16, Asked DEF Create, HolderOK, Key, Body
  <2>2. PICK k \in Keys : k = Key(r)
    BY <2>1
  <2>3. CASE intents[k] # None
    BY <1>3, <1>16, <2>1, <2>2, <2>3 DEF Create, AfterLoss, TablesOK
  <2>4. CASE intents[k] = None
    <3> DEFINE row == [terms |-> Body(r), metadata |-> None]
    <3>1. row \in Intents /\ row # None
      BY <2>1, NoneAssumption DEF Intents
    <3>2. intents' = [intents EXCEPT ![k] = row] /\ reply' = [reply EXCEPT ![r] = row]
          /\ Goto(r, "publish") /\ UNCHANGED <<refunds, ask, amount>>
      BY <1>16, <2>2, <2>4 DEF Create
    <3> HIDE DEF row
    <3>3. RequestsOK' /\ Others(r) /\ pc'[r] = "publish" /\ ask'[r] = ask[r]
      BY <3>1, <3>2 DEF Goto, RequestsOK, Others
    <3>4. /\ intents' \in [Keys -> Intents \cup {None}] /\ intents'[k] # None
          /\ \A x \in Keys \ {k} : intents'[x] = intents[x]
      BY <3>1, <3>2 DEF TablesOK
    <3>5. TablesOK' /\ RowsStay /\ HolderOK(r)'
      BY <1>16, <2>1, <2>2, <3>2, <3>3, <3>4 DEF Create, TablesOK, RowsStay, HolderOK, Key
    <3> QED
      BY <3>3, <3>5, HoldersFrame
  <2> QED
    BY <2>3, <2>4
<1>17. ASSUME NEW r \in Requests, PublishCreated(r) PROVE TypeInv'
  <2>1. ask[r] \in Asks /\ ~IsRefund(ask[r]) /\ Key(r) \in Keys /\ intents[Key(r)] # None
    BY <1>17, Asked DEF PublishCreated, HolderOK, Key
  <2>2. TablesOK' /\ HolderOK(r)'
    BY <1>17, <2>1, GotoHolds DEF PublishCreated, TablesOK, HolderOK, Key
  <2> QED
    BY <1>17, <2>2, MoveHolds DEF PublishCreated
<1>18. ASSUME NEW r \in Requests, AttachMetadata(r) PROVE TypeInv'
  <2>1. /\ ask[r] \in Asks /\ ~IsRefund(ask[r]) /\ Key(r) \in Keys /\ Body(r) \in Bodies
        /\ intents[Key(r)] # None
    BY <1>18, Asked DEF AttachMetadata, HolderOK, Key, Body
  <2>2. PICK k \in Keys : k = Key(r)
    BY <2>1
  <2> DEFINE row == [intents[k] EXCEPT !.metadata = Body(r)]
  <2>3. row \in Intents /\ row # None
    BY <2>1, <2>2, NoneAssumption DEF Intents, TablesOK
  <2>4. intents' = [intents EXCEPT ![k] = row] /\ reply' = [reply EXCEPT ![r] = row]
        /\ Goto(r, "store") /\ UNCHANGED <<refunds, ask, amount>>
    BY <1>18, <2>2 DEF AttachMetadata
  <2> HIDE DEF row
  <2>5. RequestsOK' /\ Others(r) /\ pc'[r] = "store" /\ reply'[r] # None /\ ask'[r] = ask[r]
    BY <2>3, <2>4 DEF Goto, RequestsOK, Others
  <2>6. TablesOK' /\ RowsStay
    BY <1>18, <2>3, <2>4 DEF AttachMetadata, TablesOK, RowsStay
  <2>7. HolderOK(r)'
    BY <1>18, <2>1, <2>5 DEF HolderOK
  <2> QED
    BY <2>5, <2>6, <2>7, HoldersFrame
<1>19. ASSUME NEW r \in Requests, Die(r) PROVE TypeInv'
  <2>1. TablesOK'
    BY <1>19, ConstantsAssumption DEF Die, TablesOK
  <2> QED
    BY <1>3, <1>19, <2>1 DEF Die
<1>20. CASE UNCHANGED vars
  BY <1>20 DEF vars, TypeInv, RequestsOK, TablesOK, HolderOK, Key
<1> QED
  BY <1>1, <1>2, <1>4, <1>5, <1>6, <1>7, <1>8, <1>9, <1>11, <1>13, <1>14, <1>15, <1>16, <1>17,
     <1>18, <1>19, <1>20
  DEF Next, Serve

LEMMA TypeInvHolds == Spec => []TypeInv
  BY InitTypeInv, TypeInvStep, PTL DEF Spec

\* Tables and requests keep their types whoever races, retries or dies.
THEOREM TypeCorrect == Spec => []TypeOK
  BY TypeInvTypes, TypeInvHolds, PTL

-----------------------------------------------------------------------------
(* A key is spent by its row: only who made the row goes on to the chain, or *)
(* to announce it.                                                           *)

Sends(r, k) == pc[r] = "reverse" /\ Key(r) = k
Announces(r, k) == pc[r] = "publish" /\ Key(r) = k

KeyInv(k) ==
  /\ reversals[k] <= 1 /\ created[k] <= 1
  /\ refunds[k] = None => reversals[k] = 0
  /\ intents[k] = None => created[k] = 0
  /\ \A r \in Requests :
       /\ Sends(r, k) => reversals[k] = 0 /\ \A q \in Requests : Sends(q, k) => q = r
       /\ Announces(r, k) => created[k] = 0 /\ \A q \in Requests : Announces(q, k) => q = r

OnceInv == \A k \in Keys : KeyInv(k)

\* Nothing is sent or announced in the step, and nobody comes to do so.
LEMMA OnceQuiet ==
  ASSUME TypeInv, TypeInv', OnceInv, NEW r \in Requests, Others(r), RowsStay,
         UNCHANGED <<reversals, created>>, pc'[r] \notin {"reverse", "publish"}
  PROVE  OnceInv'
<1> SUFFICES ASSUME NEW k \in Keys PROVE KeyInv(k)'
  BY DEF OnceInv
<1>1. KeyInv(k)
  BY DEF OnceInv
<1>2. \A q \in Requests : (Sends(q, k)' => Sends(q, k)) /\ (Announces(q, k)' => Announces(q, k))
  BY DEF Others, Sends, Announces, Key
<1>3. (refunds'[k] = None => refunds[k] = None) /\ (intents'[k] = None => intents[k] = None)
  BY DEF RowsStay
<1> QED
  BY <1>1, <1>2, <1>3 DEF KeyInv

\* r alone sends under its key, or moves to send under a key whose row is new.
LEMMA OnceRow ==
  ASSUME TypeInv, OnceInv, NEW r \in Requests, Others(r), ask'[r] = ask[r], NEW x \in Keys, Key(r) = x,
         RowsStay, KeyInv(x)',
         \A k \in Keys \ {x} : reversals'[k] = reversals[k] /\ created'[k] = created[k]
  PROVE  OnceInv'
<1> SUFFICES ASSUME NEW k \in Keys \ {x} PROVE KeyInv(k)'
  BY DEF OnceInv
<1>1. KeyInv(k)
  BY DEF OnceInv
<1>2. \A q \in Requests : (Sends(q, k)' => Sends(q, k)) /\ (Announces(q, k)' => Announces(q, k))
  BY DEF Others, Sends, Announces, Key
<1>3. (refunds'[k] = None => refunds[k] = None) /\ (intents'[k] = None => intents[k] = None)
  BY DEF RowsStay
<1> QED
  BY <1>1, <1>2, <1>3 DEF KeyInv

LEMMA RowsNeverLost == TypeInv /\ [Next]_vars => RowsStay
<1> SUFFICES ASSUME TypeInv, [Next]_vars PROVE RowsStay
  OBVIOUS
<1> RequestsOK /\ TablesOK /\ \A r \in Requests : HolderOK(r)
  BY DEF TypeInv
<1>1. ASSUME UNCHANGED <<refunds, intents>> PROVE RowsStay
  BY <1>1 DEF RowsStay
<1>2. ASSUME NEW r \in Requests, InsertRow(r) PROVE RowsStay
  <2>1. PICK k \in Keys : k = Key(r)
    BY <1>2, Asked DEF InsertRow, HolderOK, Key
  <2>2. \A x \in Keys : refunds[x] # None => refunds'[x] = refunds[x]
    BY <1>2, <2>1 DEF InsertRow, Taken, TablesOK
  <2> QED
    BY <1>2, <2>2 DEF InsertRow, RowsStay
<1>3. ASSUME NEW r \in Requests, Simulate(r) \/ RecordReversal(r) \/ FailRow(r) PROVE RowsStay
  <2>1. PICK k \in Keys : k = Key(r) /\ refunds[k] # None
    BY <1>3, Asked DEF Simulate, RecordReversal, FailRow, HolderOK, Key
  <2>2. refunds[k] \in Refunds
    BY <2>1 DEF TablesOK
  <2>3. PICK st \in RefundStatuses : SetStatus(r, st)
    BY <1>3 DEF Simulate, RecordReversal, FailRow, RefundStatuses
  <2>4. [refunds[k] EXCEPT !.status = st] \in Refunds
    BY <2>2 DEF Refunds
  <2>5. /\ refunds'[k] = [refunds[k] EXCEPT !.status = st]
        /\ \A x \in Keys \ {k} : refunds'[x] = refunds[x]
    BY <2>1, <2>3 DEF SetStatus, TablesOK
  <2> QED
    BY <1>3, <2>4, <2>5, NoneAssumption DEF Simulate, RecordReversal, FailRow, RowsStay
<1>4. ASSUME NEW r \in Requests, Create(r) PROVE RowsStay
  <2>1. PICK k \in Keys : k = Key(r)
    BY <1>4, Asked DEF Create, HolderOK, Key
  <2>2. \A x \in Keys : intents[x] # None => intents'[x] = intents[x]
    BY <1>4, <2>1 DEF Create, TablesOK
  <2> QED
    BY <1>4, <2>2 DEF Create, RowsStay
<1>5. ASSUME NEW r \in Requests, AttachMetadata(r) PROVE RowsStay
  <2>1. PICK k \in Keys : k = Key(r) /\ Body(r) \in Bodies /\ intents[k] # None
    BY <1>5, Asked DEF AttachMetadata, HolderOK, Key, Body, OfIntent
  <2> DEFINE row == [intents[k] EXCEPT !.metadata = Body(r)]
  <2>2. row \in Intents /\ row # None
    BY <2>1, NoneAssumption DEF Intents, TablesOK
  <2>3. intents' = [intents EXCEPT ![k] = row] /\ UNCHANGED refunds
    BY <1>5, <2>1 DEF AttachMetadata
  <2> HIDE DEF row
  <2> QED
    BY <2>2, <2>3 DEF RowsStay, TablesOK
<1>6. ASSUME NEW r \in Requests,
             \/ Connect(r) \/ Lock(r) \/ Find(r) \/ Store(r) \/ Decide(r) \/ TakeExisting(r)
             \/ Reverse(r) \/ Look(r) \/ PublishCreated(r)
             \/ ReverseThrows(r) \/ RecordingThrows(r) \/ Die(r)
      PROVE  RowsStay
  BY <1>1, <1>6 DEF Connect, Lock, Find, Store, Decide, TakeExisting, Reverse, Look, PublishCreated,
     ReverseThrows, RecordingThrows, Die
<1>7. ASSUME NEW r \in Requests, NEW a \in Asks, Receive(r, a) PROVE RowsStay
  BY <1>1, <1>7 DEF Receive
<1>8. ASSUME NEW p \in Payments, Confirm(p) PROVE RowsStay
  BY <1>1, <1>8 DEF Confirm
<1>9. CASE UNCHANGED vars
  BY <1>1, <1>9 DEF vars
<1> QED
  BY <1>2, <1>3, <1>4, <1>5, <1>6, <1>7, <1>8, <1>9 DEF Next, Serve

LEMMA OnceStep == TypeInv /\ TypeInv' /\ OnceInv /\ [Next]_vars => OnceInv'
<1> SUFFICES ASSUME TypeInv, TypeInv', OnceInv, [Next]_vars PROVE OnceInv'
  OBVIOUS
<1> RequestsOK /\ TablesOK /\ \A r \in Requests : HolderOK(r)
  BY DEF TypeInv
<1> RowsStay
  BY RowsNeverLost
\* A request that goes elsewhere than to the chain or to the log.
<1>1. ASSUME NEW r \in Requests, NEW label \in PCs \ {"reverse", "publish"}, Goto(r, label),
             UNCHANGED <<reversals, created, ask>>,
             \A q \in Requests \ {r} : amount'[q] = amount[q] /\ reply'[q] = reply[q]
      PROVE  OnceInv'
  <2>1. Others(r) /\ pc'[r] = label
    BY <1>1, GotoHolds DEF Others
  <2> QED
    BY <1>1, <2>1, OnceQuiet
<1>2. ASSUME NEW r \in Requests,
             \/ Connect(r) \/ Lock(r) \/ Find(r) \/ Store(r)
             \/ Look(r) \/ RecordingThrows(r) \/ Die(r)
      PROVE  OnceInv'
  <2>1. PICK label \in PCs \ {"reverse", "publish"} : Goto(r, label)
    BY <1>2 DEF Connect, Lock, Find, Store, LostTo, Look, RecordingThrows, Die,
       PCs, Busy, Ends, UnderLock
  <2>2. /\ UNCHANGED <<reversals, created, ask, amount>>
        /\ \A q \in Requests \ {r} : reply'[q] = reply[q]
    BY <1>2 DEF Connect, Lock, Find, Store, Look, RecordingThrows, Die, RequestsOK
  <2> QED
    BY <1>1, <2>1, <2>2
<1>3. ASSUME NEW r \in Requests,
             \/ Decide(r) \/ TakeExisting(r) \/ Simulate(r) \/ RecordReversal(r) \/ FailRow(r)
             \/ AttachMetadata(r)
      PROVE  OnceInv'
  <2>1. PICK label \in PCs \ {"reverse", "publish"} : Goto(r, label)
    BY <1>3 DEF Decide, TakeExisting, Simulate, RecordReversal, FailRow, AttachMetadata,
       PCs, Busy, Ends, UnderLock
  <2>2. /\ UNCHANGED <<reversals, created, ask>>
        /\ \A q \in Requests \ {r} : amount'[q] = amount[q] /\ reply'[q] = reply[q]
    BY <1>3 DEF Decide, TakeExisting, Simulate, RecordReversal, FailRow, AttachMetadata, RequestsOK
  <2> QED
    BY <1>1, <2>1, <2>2
<1>4. ASSUME NEW r \in Requests, NEW a \in Asks, Receive(r, a) PROVE OnceInv'
  <2>1. Others(r) /\ pc'[r] \in {"received", "find"} /\ UNCHANGED <<reversals, created>>
    BY <1>4 DEF Receive, Goto, RequestsOK, Others
  <2> QED
    BY <2>1, OnceQuiet
<1>5. ASSUME NEW p \in Payments, Confirm(p) PROVE OnceInv'
  BY <1>5 DEF Confirm, OnceInv, KeyInv, Sends, Announces, Key
\* The row is new: nothing was sent under its key and nobody is about to.
<1>6. ASSUME NEW r \in Requests, InsertRow(r) PROVE OnceInv'
  <2>1. PICK k \in Keys : k = Key(r)
    BY <1>6, Asked DEF InsertRow, HolderOK, Key
  <2>2. UNCHANGED <<reversals, created, ask, amount, reply>> /\ UNCHANGED intents
    BY <1>6 DEF InsertRow
  <2>3. CASE Taken(k)
    BY <1>1, <1>6, <2>1, <2>2, <2>3 DEF InsertRow, PCs, Busy, UnderLock
  <2>4. CASE ~Taken(k) /\ Body(r).payment \in Sandbox
    BY <1>1, <1>6, <2>1, <2>2, <2>4 DEF InsertRow, PCs, Busy, UnderLock
  <2>5. CASE ~Taken(k) /\ Body(r).payment \notin Sandbox
    <3>1. Goto(r, "reverse") /\ refunds[k] = None
      BY <1>6, <2>1, <2>5 DEF InsertRow, Taken
    <3>2. Others(r) /\ pc'[r] = "reverse" /\ refunds'[k] # None
      <4>1. Others(r) /\ pc'[r] = "reverse"
        BY <2>2, <3>1, GotoHolds DEF Others, PCs, Busy, UnderLock
      <4> QED
        BY <2>1, <2>2, <4>1 DEF TypeInv, HolderOK, Key
    <3>3. KeyInv(k)
      BY DEF OnceInv
    <3>4. \A q \in Requests : ~Sends(q, k)
      BY <3>1 DEF Sends, HolderOK
    <3>5. \A q \in Requests : (Sends(q, k)' => q = r) /\ (Announces(q, k)' => Announces(q, k))
      BY <2>2, <3>2, <3>4 DEF Others, Sends, Announces, Key
    <3>6. KeyInv(k)'
      BY <2>2, <3>1, <3>2, <3>3, <3>5 DEF KeyInv
    <3> QED
      BY <2>1, <2>2, <3>2, <3>6, OnceRow
  <2> QED
    BY <2>3, <2>4, <2>5
<1>7. ASSUME NEW r \in Requests, Reverse(r) \/ ReverseThrows(r) PROVE OnceInv'
  <2>1. PICK k \in Keys : k = Key(r) /\ refunds[k] # None
    BY <1>7, Asked DEF Reverse, ReverseThrows, HolderOK, Key
  <2>2. PICK label \in {"succeed", "fail"} : Goto(r, label)
    BY <1>7 DEF Reverse, ReverseThrows
  <2>3. UNCHANGED <<refunds, intents, created, ask, amount, reply>> /\ pc[r] = "reverse"
    BY <1>7 DEF Reverse, ReverseThrows
  <2>4. CASE UNCHANGED reversals
    BY <1>1, <2>2, <2>3, <2>4 DEF PCs, Busy, UnderLock
  <2>5. CASE Send(r)
    <3>1. Others(r) /\ pc'[r] \in {"succeed", "fail"}
      BY <2>2, <2>3, GotoHolds DEF Others, PCs, Busy, UnderLock
    <3>2. /\ reversals'[k] = reversals[k] + 1
          /\ \A x \in Keys \ {k} : reversals'[x] = reversals[x]
      BY <2>1, <2>5 DEF Send, TablesOK
    <3>3. KeyInv(k) /\ Sends(r, k)
      BY <2>1, <2>3 DEF OnceInv, Sends
    <3>4. reversals[k] = 0 /\ \A q \in Requests : Sends(q, k) => q = r
      BY <3>3 DEF KeyInv
    <3>5. \A q \in Requests : ~Sends(q, k)' /\ (Announces(q, k)' => Announces(q, k))
      BY <2>3, <3>1, <3>4 DEF Others, Sends, Announces, Key
    <3>6. KeyInv(k)'
      BY <2>1, <2>3, <3>2, <3>3, <3>4, <3>5 DEF KeyInv
    <3> QED
      BY <2>1, <2>3, <3>1, <3>2, <3>6, OnceRow
  <2> QED
    BY <1>7, <2>4, <2>5 DEF Reverse, ReverseThrows
<1>8. ASSUME NEW r \in Requests, Create(r) PROVE OnceInv'
  <2>1. PICK k \in Keys : k = Key(r)
    BY <1>8, Asked DEF Create, HolderOK, Key
  <2>2. UNCHANGED <<reversals, created, ask, amount, refunds>>
    BY <1>8 DEF Create
  <2>3. CASE intents[k] # None
    BY <1>1, <1>8, <2>1, <2>2, <2>3 DEF Create, AfterLoss, PCs, Busy
  <2>4. CASE intents[k] = None
    <3>1. /\ Goto(r, "publish")
          /\ \A q \in Requests \ {r} : reply'[q] = reply[q]
      BY <1>8, <2>1, <2>4 DEF Create, RequestsOK
    <3>2. Others(r) /\ pc'[r] = "publish"
      BY <2>2, <3>1, GotoHolds DEF Others, PCs, Busy
    <3>3. intents'[k] # None
      BY <2>1, <2>2, <3>2 DEF TypeInv, HolderOK, Key
    <3>4. KeyInv(k)
      BY DEF OnceInv
    <3>5. \A q \in Requests : ~Announces(q, k)
      BY <2>4 DEF Announces, HolderOK
    <3>6. \A q \in Requests : (Announces(q, k)' => q = r) /\ (Sends(q, k)' => Sends(q, k))
      BY <2>2, <3>2, <3>5 DEF Others, Sends, Announces, Key
    <3>7. KeyInv(k)'
      BY <2>2, <2>4, <3>3, <3>4, <3>6 DEF KeyInv
    <3> QED
      BY <2>1, <2>2, <3>2, <3>7, OnceRow
  <2> QED
    BY <2>3, <2>4
<1>9. ASSUME NEW r \in Requests, PublishCreated(r) PROVE OnceInv'
  <2>1. PICK k \in Keys : k = Key(r) /\ intents[k] # None
    BY <1>9, Asked DEF PublishCreated, HolderOK, Key
  <2>2. UNCHANGED <<refunds, intents, reversals, ask, amount, reply>> /\ pc[r] = "publish"
    BY <1>9 DEF PublishCreated
  <2>3. Others(r) /\ pc'[r] = "metadata"
    BY <1>9, <2>2, GotoHolds DEF PublishCreated, Others, PCs, Busy
  <2>4. /\ created'[k] = created[k] + 1
        /\ \A x \in Keys \ {k} : created'[x] = created[x]
    BY <1>9, <2>1 DEF PublishCreated, TablesOK
  <2>5. KeyInv(k) /\ Announces(r, k)
    BY <2>1, <2>2 DEF OnceInv, Announces
  <2>6. created[k] = 0 /\ \A q \in Requests : Announces(q, k) => q = r
    BY <2>5 DEF KeyInv
  <2>7. \A q \in Requests : ~Announces(q, k)' /\ (Sends(q, k)' => Sends(q, k))
    BY <2>2, <2>3, <2>6 DEF Others, Sends, Announces, Key
  <2>8. KeyInv(k)'
    BY <2>1, <2>2, <2>4, <2>5, <2>6, <2>7 DEF KeyInv
  <2> QED
    BY <2>1, <2>2, <2>3, <2>4, <2>8, OnceRow
<1>10. CASE UNCHANGED vars
  BY <1>10 DEF vars, OnceInv, KeyInv, Sends, Announces, Key
<1> QED
  BY <1>2, <1>3, <1>4, <1>5, <1>6, <1>7, <1>8, <1>9, <1>10 DEF Next, Serve

LEMMA OnceHolds == Spec => []OnceInv
<1>1. Init => OnceInv
  BY DEF Init, OnceInv, KeyInv, Sends, Announces
<1> QED
  BY <1>1, OnceStep, TypeInvHolds, PTL DEF Spec

\* One reversal at most is sent under a key, whoever dies, retries or races.
THEOREM ReversalSentOnce == Spec => []ReversedOncePerKey
<1>1. OnceInv => ReversedOncePerKey
  BY DEF OnceInv, KeyInv, ReversedOncePerKey
<1> QED
  BY <1>1, OnceHolds, PTL

\* An intent is announced at most once, whoever creates it and whoever retries.
THEOREM CreationToldOnce == Spec => []CreatedToldOnce
<1>1. OnceInv => CreatedToldOnce
  BY DEF OnceInv, KeyInv, CreatedToldOnce
<1> QED
  BY <1>1, OnceHolds, PTL

-----------------------------------------------------------------------------
(* An answer is stored before it is given, and what is stored stays.         *)

RefundsKept == \A k \in Keys : stored["legacy"][k] # None => stored["legacy"][k].body \notin Bodies

Answer(r) ==
  pc[r] = "answered" =>
    LET record == stored[Scope(r)][Key(r)]
    IN record # None /\ record.body = Body(r) /\ record.reply = reply[r]

StoredStays ==
  \A s \in Scopes, k \in Keys : stored[s][k] # None => stored'[s][k] = stored[s][k]

LEMMA AnswersFrame ==
  ASSUME TypeInv, AnsweredAsStored, NEW r \in Requests, Others(r), StoredStays, Answer(r)'
  PROVE  AnsweredAsStored'
<1> SUFFICES ASSUME NEW q \in Requests \ {r}, pc'[q] = "answered" PROVE Answer(q)'
  BY DEF AnsweredAsStored, Answer
<1>1. pc[q] = "answered" /\ ask'[q] = ask[q] /\ reply'[q] = reply[q]
  BY DEF Others
<1>2. ask[q] \in Asks
  BY <1>1 DEF TypeInv, HolderOK
<1>3. Scope(q) \in Scopes /\ Key(q) \in Keys
  BY <1>2, Asked DEF Scope, Scopes, Key
<1>4. Scope(q)' = Scope(q) /\ Key(q)' = Key(q) /\ Body(q)' = Body(q)
  BY <1>1 DEF Scope, Key, Body
<1>5. Answer(q)
  BY DEF AnsweredAsStored, Answer
<1> QED
  BY <1>1, <1>3, <1>4, <1>5 DEF Answer, StoredStays

LEMMA AnswersStep ==
  TypeInv /\ RefundsKept /\ AnsweredAsStored /\ [Next]_vars => RefundsKept' /\ AnsweredAsStored'
<1> SUFFICES ASSUME TypeInv, RefundsKept, AnsweredAsStored, [Next]_vars
             PROVE  RefundsKept' /\ AnsweredAsStored'
  OBVIOUS
<1> RequestsOK /\ TablesOK /\ \A r \in Requests : HolderOK(r)
  BY DEF TypeInv
\* A request that ends otherwise than with an answer.
<1>1. ASSUME NEW r \in Requests, Others(r), pc'[r] # "answered", UNCHANGED stored
      PROVE  RefundsKept' /\ AnsweredAsStored'
  BY <1>1, AnswersFrame DEF RefundsKept, StoredStays, Answer
<1>2. ASSUME NEW r \in Requests, Store(r) PROVE RefundsKept' /\ AnsweredAsStored'
  <2>1. ask[r] \in Asks
    BY <1>2 DEF Store, HolderOK
  <2>2. PICK s \in Scopes, k \in Keys : s = Scope(r) /\ k = Key(r)
    BY <2>1, Asked DEF Scope, Scopes, Key
  <2>3. UNCHANGED <<ask, amount, reply>>
    BY <1>2 DEF Store
  <2>4. CASE stored[s][k] # None
    <3>1. Goto(r, "find") /\ UNCHANGED stored
      BY <1>2, <2>2, <2>4 DEF Store, LostTo
    <3>2. Others(r) /\ pc'[r] = "find"
      BY <2>3, <3>1, GotoHolds DEF Others, PCs, Busy, UnderLock
    <3> QED
      BY <1>1, <3>1, <3>2
  <2>5. CASE stored[s][k] = None
    <3>1. /\ stored' = [stored EXCEPT ![s][k] = [body |-> Body(r), reply |-> reply[r]]]
          /\ Goto(r, "answered")
      BY <1>2, <2>2, <2>5 DEF Store
    <3>2. Others(r) /\ pc'[r] = "answered"
      BY <2>3, <3>1, GotoHolds DEF Others, PCs, Busy, Ends
    <3>3. reply[r] # None /\ reply[r] \in Refunds \cup Intents /\ Body(r) \in Bodies \cup RefundBodies
      BY <1>2, <2>1, Asked DEF Store, HolderOK, RequestsOK, Body
    <3>4. [body |-> Body(r), reply |-> reply[r]] # None
      BY <3>3, NoneAssumption DEF Records
    <3>5. /\ stored'[s][k] = [body |-> Body(r), reply |-> reply[r]]
          /\ \A t \in Scopes, x \in Keys : t # s \/ x # k => stored'[t][x] = stored[t][x]
      BY <3>1 DEF TablesOK
    <3>6. StoredStays
      BY <2>5, <3>5 DEF StoredStays
    <3>7. Scope(r)' = s /\ Key(r)' = k /\ Body(r)' = Body(r) /\ reply'[r] = reply[r]
      BY <2>2, <2>3 DEF Scope, Key, Body
    <3>8. Answer(r)'
      BY <3>4, <3>5, <3>7 DEF Answer
    <3>9. RefundsKept'
      <4>1. s = "legacy" => Body(r) \notin Bodies
        BY <2>2 DEF Scope, IsRefund, Body
      <4> QED
        BY <3>5, <4>1 DEF RefundsKept, Scopes
    <3> QED
      BY <3>2, <3>6, <3>8, <3>9, AnswersFrame
  <2> QED
    BY <2>4, <2>5
<1>3. ASSUME NEW r \in Requests, Find(r) PROVE RefundsKept' /\ AnsweredAsStored'
  <2>1. ask[r] \in Asks /\ UNCHANGED <<stored, ask, amount>>
    BY <1>3 DEF Find, HolderOK
  <2>2. Others(r)
    BY <1>3 DEF Find, Goto, RequestsOK, Others
  <2>3. CASE pc'[r] # "answered"
    BY <1>1, <2>1, <2>2, <2>3
  <2>4. CASE pc'[r] = "answered"
    <3>1. Found(r) # None /\ Found(r).body = Body(r) /\ reply'[r] = Found(r).reply
      BY <1>3, <2>4 DEF Find, Goto, RequestsOK
    <3>2. Key(r) \in Keys /\ Scope(r) \in Scopes
      BY <2>1, Asked DEF Key, Scope, Scopes
    <3>3. Found(r) = stored[Scope(r)][Key(r)]
      <4>1. CASE stored[Scope(r)][Key(r)] # None
        BY <4>1 DEF Found
      <4>2. CASE stored[Scope(r)][Key(r)] = None
        <5>1. Found(r) = stored["legacy"][Key(r)]
          BY <4>2 DEF Found
        <5>2. Body(r) \notin Bodies
          BY <3>1, <3>2, <5>1 DEF RefundsKept
        <5>3. Scope(r) = "legacy"
          BY <5>2 DEF Scope, IsRefund, Body
        <5> QED
          BY <5>1, <5>3
      <4> QED
        BY <4>1, <4>2
    <3>4. Scope(r)' = Scope(r) /\ Key(r)' = Key(r) /\ Body(r)' = Body(r)
      BY <2>1 DEF Scope, Key, Body
    <3>5. Answer(r)'
      BY <2>1, <3>1, <3>3, <3>4 DEF Answer
    <3> QED
      BY <2>1, <2>2, <3>5, AnswersFrame DEF RefundsKept, StoredStays
  <2> QED
    BY <2>3, <2>4
<1>4. ASSUME NEW r \in Requests,
             \/ Connect(r) \/ Lock(r) \/ InsertRow(r)
             \/ Reverse(r) \/ PublishCreated(r) \/ Look(r)
             \/ ReverseThrows(r) \/ RecordingThrows(r) \/ Die(r)
      PROVE  RefundsKept' /\ AnsweredAsStored'
  <2>1. PICK label \in PCs \ {"answered"} : Goto(r, label)
    BY <1>4 DEF Connect, Lock, InsertRow, Reverse, PublishCreated, Look, ReverseThrows,
       RecordingThrows, Die, PCs, Busy, Ends, UnderLock
  <2>2. /\ UNCHANGED <<stored, ask, amount>>
        /\ \A q \in Requests \ {r} : reply'[q] = reply[q]
    BY <1>4 DEF Connect, Lock, InsertRow, Reverse, PublishCreated, Look, ReverseThrows,
       RecordingThrows, Die, RequestsOK
  <2>3. Others(r) /\ pc'[r] = label
    BY <2>1, <2>2, GotoHolds DEF Others
  <2> QED
    BY <1>1, <2>1, <2>2, <2>3
<1>5. ASSUME NEW r \in Requests,
             \/ Decide(r) \/ TakeExisting(r) \/ Simulate(r) \/ RecordReversal(r) \/ FailRow(r)
             \/ Create(r) \/ AttachMetadata(r)
      PROVE  RefundsKept' /\ AnsweredAsStored'
  <2>1. PICK label \in PCs \ {"answered"} : Goto(r, label)
    BY <1>5 DEF Decide, TakeExisting, Simulate, RecordReversal, FailRow, Create, AfterLoss,
       AttachMetadata, PCs, Busy, Ends, UnderLock
  <2>2. /\ UNCHANGED <<stored, ask>>
        /\ \A q \in Requests \ {r} : amount'[q] = amount[q] /\ reply'[q] = reply[q]
    BY <1>5 DEF Decide, TakeExisting, Simulate, RecordReversal, FailRow, Create, AttachMetadata,
       RequestsOK
  <2>3. Others(r) /\ pc'[r] = label
    BY <2>1, <2>2, GotoHolds DEF Others
  <2> QED
    BY <1>1, <2>1, <2>2, <2>3
<1>6. ASSUME NEW r \in Requests, NEW a \in Asks, Receive(r, a)
      PROVE  RefundsKept' /\ AnsweredAsStored'
  <2>1. Others(r) /\ pc'[r] \in {"received", "find"} /\ UNCHANGED stored
    BY <1>6 DEF Receive, Goto, RequestsOK, Others
  <2> QED
    BY <1>1, <2>1
<1>7. ASSUME UNCHANGED <<stored, pc, ask, reply>> PROVE RefundsKept' /\ AnsweredAsStored'
  BY <1>7 DEF RefundsKept, AnsweredAsStored, Scope, Key, Body
<1>8. ASSUME NEW p \in Payments, Confirm(p) PROVE RefundsKept' /\ AnsweredAsStored'
  BY <1>7, <1>8 DEF Confirm
<1>9. CASE UNCHANGED vars
  BY <1>7, <1>9 DEF vars
<1> QED
  BY <1>2, <1>3, <1>4, <1>5, <1>6, <1>8, <1>9 DEF Next, Serve

\* Every answer under a key is the one stored for it, and for the body asked.
THEOREM AnswersAgree == Spec => []AnsweredAsStored
<1>1. Init => RefundsKept /\ AnsweredAsStored
  BY DEF Init, RefundsKept, AnsweredAsStored, Scopes
<1> QED
  BY <1>1, AnswersStep, TypeInvHolds, PTL DEF Spec

-----------------------------------------------------------------------------
(* The refunds of a payment.  Two things bound them: one refund of a payment  *)
(* decides at a time, and a row belongs to the request that made it.          *)

LEMMA OneMoves ==
  ASSUME TypeInv, NEW r \in Requests,
         \/ Serve(r) \/ ReverseThrows(r) \/ RecordingThrows(r) \/ Die(r)
         \/ \E a \in Asks : Receive(r, a)
  PROVE  Others(r) /\ (pc[r] # "idle" => ask'[r] = ask[r])
<1> RequestsOK
  BY DEF TypeInv
<1>1. CASE Connect(r) \/ Lock(r) \/ Find(r) \/ Store(r) \/ Decide(r) \/ InsertRow(r) \/ TakeExisting(r)
  BY <1>1 DEF RequestsOK, Others, Goto, Connect, Lock, Find, Store, Decide, InsertRow, TakeExisting
<1>2. CASE \/ Simulate(r) \/ Reverse(r) \/ RecordReversal(r) \/ FailRow(r)
           \/ Look(r) \/ Create(r) \/ PublishCreated(r) \/ AttachMetadata(r)
  BY <1>2 DEF RequestsOK, Others, Goto, Simulate, Reverse, RecordReversal, FailRow, Look, Create,
     PublishCreated, AttachMetadata
<1>3. CASE ReverseThrows(r) \/ RecordingThrows(r) \/ Die(r) \/ \E a \in Asks : Receive(r, a)
  BY <1>3 DEF RequestsOK, Others, Goto, ReverseThrows, RecordingThrows, Die, Receive
<1> QED
  BY <1>1, <1>2, <1>3 DEF Serve

\* A refund from "find" to "store", which holds the lock of its payment.
Locked(r) == Refunding(r) /\ pc[r] \in UnderLock

LockInv ==
  \A r, q \in Requests : Locked(r) /\ Locked(q) /\ Body(r).payment = Body(q).payment => r = q

\* Only Lock takes a refund under the lock.
LEMMA LockedBefore ==
  ASSUME TypeInv, NEW r \in Requests,
         \/ Serve(r) \/ ReverseThrows(r) \/ RecordingThrows(r) \/ Die(r)
         \/ \E a \in Asks : Receive(r, a),
         Locked(r)'
  PROVE  Locked(r) \/ Lock(r)
<1> RequestsOK /\ HolderOK(r)
  BY DEF TypeInv
<1> USE DEF Locked, Refunding, Busy, UnderLock
<1>1. Others(r) /\ (pc[r] # "idle" => ask'[r] = ask[r])
  BY OneMoves
<1>2. CASE \E a \in Asks : Receive(r, a)
  BY <1>2 DEF Receive, Goto, RequestsOK
<1>3. CASE Connect(r) \/ Die(r) \/ FailRow(r)
  BY <1>3 DEF Connect, Die, FailRow, Goto, RequestsOK
<1>4. CASE \/ Find(r) \/ Store(r) \/ Decide(r) \/ InsertRow(r) \/ TakeExisting(r) \/ Simulate(r)
           \/ Reverse(r) \/ RecordReversal(r) \/ ReverseThrows(r) \/ RecordingThrows(r)
  <2>1. pc[r] \in UnderLock
    BY <1>4 DEF Find, Store, Decide, InsertRow, TakeExisting, Simulate, Reverse, RecordReversal,
       ReverseThrows, RecordingThrows
  <2> QED
    BY <1>1, <2>1
<1>5. CASE Look(r) \/ Create(r) \/ PublishCreated(r) \/ AttachMetadata(r)
  <2>1. ~IsRefund(ask[r]) /\ pc[r] # "idle"
    BY <1>5 DEF Look, Create, PublishCreated, AttachMetadata, HolderOK, OfIntent
  <2> QED
    BY <1>1, <2>1
<1> QED
  BY <1>2, <1>3, <1>4, <1>5 DEF Serve

LEMMA LockStep == TypeInv /\ LockInv /\ [Next]_vars => LockInv'
<1> SUFFICES ASSUME TypeInv, LockInv, [Next]_vars PROVE LockInv'
  OBVIOUS
<1>1. CASE UNCHANGED vars \/ \E p \in Payments : Confirm(p)
  <2>1. UNCHANGED <<pc, ask>>
    BY <1>1 DEF vars, Confirm
  <2> QED
    BY <2>1 DEF LockInv, Locked, Refunding, Body
<1>2. ASSUME NEW r \in Requests,
             \/ Serve(r) \/ ReverseThrows(r) \/ RecordingThrows(r) \/ Die(r)
             \/ \E a \in Asks : Receive(r, a)
      PROVE  LockInv'
  <2>1. Others(r) /\ (pc[r] # "idle" => ask'[r] = ask[r])
    BY <1>2, OneMoves
  <2>2. \A q \in Requests \ {r} : (Locked(q)' <=> Locked(q)) /\ Body(q)' = Body(q)
    BY <2>1 DEF Others, Locked, Refunding, Body
  <2>3. CASE Lock(r)
    <3>1. Body(r)' = Body(r) /\ \A q \in Requests : Locked(q) => Body(q).payment # Body(r).payment
      BY <2>1, <2>3 DEF Lock, Unlocked, Locked, Body
    <3> QED
      BY <2>2, <3>1 DEF LockInv
  <2>4. CASE ~Lock(r)
    <3>1. Locked(r)' => Locked(r)
      BY <1>2, <2>4, LockedBefore
    <3>2. Locked(r) => Body(r)' = Body(r)
      BY <2>1 DEF Locked, UnderLock, Body
    <3> QED
      BY <2>2, <3>1, <3>2 DEF LockInv
  <2> QED
    BY <2>3, <2>4
<1> QED
  BY <1>1, <1>2 DEF Next

-----------------------------------------------------------------------------
(* The row of a key *)

\* Whoever made the row of k, until its outcome is written.
Owns(r, k) == pc[r] \in {"simulate", "reverse", "succeed", "fail"} /\ Key(r) = k

OwnerInv ==
  \A r \in Requests, k \in Keys :
    Owns(r, k) => refunds[k].status = "pending" /\ \A q \in Requests : Owns(q, k) => q = r

\* What a step does to the refunds: nothing, a new row, or the outcome of one.
Kept == UNCHANGED refunds
Inserted(r, k) ==
  /\ pc[r] = "insert" /\ Locked(r) /\ Key(r) = k /\ refunds[k] = None
  /\ refunds'[k] = [payment |-> Body(r).payment, amount |-> amount[r], status |-> "pending"]
  /\ \A x \in Keys \ {k} : refunds'[x] = refunds[x]
Ended(r, k) ==
  /\ Owns(r, k) /\ refunds[k] \in Refunds
  /\ \E st \in {"succeeded", "failed"} : refunds'[k] = [refunds[k] EXCEPT !.status = st]
  /\ \A x \in Keys \ {k} : refunds'[x] = refunds[x]
  /\ \A x \in Keys : ~Owns(r, x)'

LEMMA RowMoves ==
  ASSUME TypeInv, NEW r \in Requests,
         \/ Serve(r) \/ ReverseThrows(r) \/ RecordingThrows(r) \/ Die(r)
         \/ \E a \in Asks : Receive(r, a)
  PROVE  \/ Kept /\ \A k \in Keys : Owns(r, k)' => Owns(r, k)
         \/ \E k \in Keys : Inserted(r, k) \/ Ended(r, k)
<1> RequestsOK /\ TablesOK /\ HolderOK(r)
  BY DEF TypeInv
<1>1. Others(r) /\ (pc[r] # "idle" => ask'[r] = ask[r])
  BY OneMoves
<1>2. CASE InsertRow(r)
  <2>1. /\ ask[r] \in Asks /\ IsRefund(ask[r]) /\ Key(r) \in Keys
    BY <1>2, Asked DEF InsertRow, HolderOK, OfRefund, Key
  <2>2. PICK k \in Keys : k = Key(r)
    BY <2>1
  <2>3. CASE Taken(k)
    <3>1. Kept /\ pc'[r] = "existing"
      BY <1>2, <2>2, <2>3 DEF InsertRow, Kept, Goto, RequestsOK
    <3> QED
      BY <3>1 DEF Owns
  <2>4. CASE ~Taken(k)
    <3>1. Inserted(r, k)
      BY <1>2, <2>1, <2>2, <2>4 DEF InsertRow, Taken, Inserted, Locked, Refunding, Busy, UnderLock,
         TablesOK
    <3> QED
      BY <3>1
  <2> QED
    BY <2>3, <2>4
<1>3. CASE Simulate(r) \/ RecordReversal(r) \/ FailRow(r)
  <2>1. PICK k \in Keys : k = Key(r) /\ refunds[k] # None /\ Owns(r, k)
    BY <1>3, Asked DEF Simulate, RecordReversal, FailRow, HolderOK, Key, Owns
  <2>2. refunds[k] \in Refunds
    BY <2>1 DEF TablesOK
  <2>3. PICK st \in {"succeeded", "failed"} : SetStatus(r, st)
    BY <1>3 DEF Simulate, RecordReversal, FailRow
  <2>4. /\ refunds'[k] = [refunds[k] EXCEPT !.status = st]
        /\ \A x \in Keys \ {k} : refunds'[x] = refunds[x]
    BY <2>1, <2>3 DEF SetStatus, TablesOK
  <2>5. pc'[r] \in {"store", "failed"}
    BY <1>3 DEF Simulate, RecordReversal, FailRow, Goto, RequestsOK
  <2>6. Ended(r, k)
    BY <2>1, <2>2, <2>4, <2>5 DEF Ended, Owns
  <2> QED
    BY <2>6
<1>4. CASE \/ Connect(r) \/ Lock(r) \/ Find(r) \/ Store(r) \/ Decide(r) \/ TakeExisting(r)
           \/ Look(r) \/ Create(r) \/ PublishCreated(r) \/ AttachMetadata(r) \/ Die(r)
           \/ \E a \in Asks : Receive(r, a)
  <2>1. Kept
    BY <1>4 DEF Connect, Lock, Find, Store, Decide, TakeExisting, Look, Create, PublishCreated,
       AttachMetadata, Die, Receive, Kept
  <2>2. PICK label \in PCs \ {"simulate", "reverse", "succeed", "fail"} : Goto(r, label)
    BY <1>4 DEF Connect, Lock, Find, Store, LostTo, Decide, TakeExisting, Look, Create, AfterLoss,
       PublishCreated, AttachMetadata, Die, Receive, PCs, Busy, Ends, UnderLock
  <2> QED
    BY <2>1, <2>2, GotoHolds DEF Owns
<1>5. CASE Reverse(r) \/ ReverseThrows(r) \/ RecordingThrows(r)
  <2>1. Kept /\ ask' = ask /\ pc[r] \in {"reverse", "succeed"}
    BY <1>5 DEF Reverse, ReverseThrows, RecordingThrows, Kept
  <2> QED
    BY <2>1 DEF Owns, Key
<1> QED
  BY <1>2, <1>3, <1>4, <1>5 DEF Serve

LEMMA OwnerStep == TypeInv /\ OwnerInv /\ [Next]_vars => OwnerInv'
<1> SUFFICES ASSUME TypeInv, OwnerInv, [Next]_vars PROVE OwnerInv'
  OBVIOUS
<1>1. CASE UNCHANGED vars \/ \E p \in Payments : Confirm(p)
  <2>1. UNCHANGED <<pc, ask, refunds>>
    BY <1>1 DEF vars, Confirm
  <2> QED
    BY <2>1 DEF OwnerInv, Owns, Key
<1>2. ASSUME NEW r \in Requests,
             \/ Serve(r) \/ ReverseThrows(r) \/ RecordingThrows(r) \/ Die(r)
             \/ \E a \in Asks : Receive(r, a)
      PROVE  OwnerInv'
  <2>1. Others(r) /\ (pc[r] # "idle" => ask'[r] = ask[r])
    BY <1>2, OneMoves
  <2>2. \A q \in Requests \ {r}, k \in Keys : Owns(q, k)' <=> Owns(q, k)
    BY <2>1 DEF Others, Owns, Key
  <2>3. CASE Kept /\ \A k \in Keys : Owns(r, k)' => Owns(r, k)
    BY <2>2, <2>3 DEF Kept, OwnerInv
  <2>4. ASSUME NEW k \in Keys, Inserted(r, k) PROVE OwnerInv'
    <3>1. ask'[r] = ask[r]
      BY <2>1, <2>4 DEF Inserted
    <3>2. \A x \in Keys : Owns(r, x)' => x = k
      BY <2>4, <3>1 DEF Inserted, Owns, Key
    <3>3. \A q \in Requests : ~Owns(q, k)
      BY <2>4 DEF Inserted, Owns, TypeInv, HolderOK
    <3> QED
      BY <2>2, <2>4, <3>2, <3>3 DEF Inserted, OwnerInv
  <2>5. ASSUME NEW k \in Keys, Ended(r, k) PROVE OwnerInv'
    <3>1. \A q \in Requests : Owns(q, k) => q = r
      BY <2>5 DEF Ended, OwnerInv
    <3> QED
      BY <2>2, <2>5, <3>1 DEF Ended, OwnerInv
  <2> QED
    BY <1>2, <2>3, <2>4, <2>5, RowMoves
<1> QED
  BY <1>1, <1>2 DEF Next

-----------------------------------------------------------------------------
(* What they add up to *)

\* Whoever is about to insert fits beside what is held.
MoneyInv ==
  \A p \in Payments :
    /\ IsFiniteSet(Held(p)) /\ Total(p) <= Worth
    /\ \A r \in Requests :
         pc[r] = "insert" /\ Body(r).payment = p => Total(p) + amount[r] <= Worth

LEMMA TotalIsNat == ASSUME NEW p, IsFiniteSet(Held(p)) PROVE Total(p) \in Nat
  BY FS_CardinalityType DEF Total

\* A row that ends holds what it held, or nothing.
LEMMA EndedHolds ==
  ASSUME NEW p \in Payments, NEW r \in Requests, NEW k \in Keys, Ended(r, k), OwnerInv,
         IsFiniteSet(Held(p))
  PROVE  IsFiniteSet(Held(p)') /\ Total(p)' <= Total(p)
<1>1. refunds[k] \in Refunds /\ refunds[k].status = "pending" /\ refunds[k] # None
  BY NoneAssumption DEF Ended, OwnerInv
<1>2. /\ refunds'[k].payment = refunds[k].payment /\ refunds'[k].amount = refunds[k].amount
      /\ \A x \in Keys \ {k} : refunds'[x] = refunds[x]
  BY <1>1 DEF Ended, Refunds
<1>3. Held(p)' \subseteq Held(p)
  BY <1>1, <1>2 DEF Held
<1> QED
  BY <1>3, FS_Subset DEF Total

\* A new row holds its amount beside what was held.
LEMMA InsertedHolds ==
  ASSUME NEW p \in Payments, NEW r \in Requests, NEW k \in Keys, Inserted(r, k),
         amount[r] \in 1..Worth, IsFiniteSet(Held(p))
  PROVE  /\ IsFiniteSet(Held(p)')
         /\ Body(r).payment # p => Total(p)' <= Total(p)
         /\ Total(p)' <= Total(p) + amount[r]
<1> DEFINE new == {k} \X (1..amount[r])
<1>1. IsFiniteSet(new) /\ Cardinality(new) = amount[r]
  <2>1. IsFiniteSet({k}) /\ Cardinality({k}) = 1
    BY FS_Singleton
  <2>2. amount[r] \in Nat /\ amount[r] \in Int /\ ~(1 > amount[r]) /\ 1 \in Int
    BY ConstantsAssumption
  <2>3. IsFiniteSet(1..amount[r]) /\ Cardinality(1..amount[r]) = amount[r]
    BY <2>2, FS_Interval
  <2>4. IsFiniteSet(new) /\ Cardinality(new) = 1 * amount[r]
    BY <2>1, <2>3, FS_Product
  <2> QED
    BY <2>2, <2>4
<1>2. Held(p)' \subseteq Held(p) \cup new /\ (Body(r).payment # p => Held(p)' \subseteq Held(p))
  BY DEF Held, Inserted
<1> HIDE DEF new
<1>3. IsFiniteSet(Held(p) \cup new) /\ IsFiniteSet(Held(p) \cap new)
      /\ Cardinality(Held(p) \cup new)
         = Cardinality(Held(p)) + Cardinality(new) - Cardinality(Held(p) \cap new)
  BY <1>1, FS_Union, FS_Intersection
<1>4. Cardinality(Held(p)) \in Nat /\ Cardinality(Held(p) \cap new) \in Nat
  BY <1>3, FS_CardinalityType
<1>5. IsFiniteSet(Held(p)') /\ Cardinality(Held(p)') <= Cardinality(Held(p) \cup new)
      /\ Cardinality(Held(p)') \in Nat
  BY <1>2, <1>3, FS_Subset, FS_CardinalityType
<1>6. Body(r).payment # p => Cardinality(Held(p)') <= Cardinality(Held(p))
  BY <1>2, FS_Subset
<1> QED
  BY <1>1, <1>3, <1>4, <1>5, <1>6, ConstantsAssumption DEF Total

\* A request comes to insert by Decide alone.
LEMMA ComesToInsert ==
  ASSUME TypeInv, NEW r \in Requests,
         \/ Serve(r) \/ ReverseThrows(r) \/ RecordingThrows(r) \/ Die(r)
         \/ \E a \in Asks : Receive(r, a),
         pc'[r] = "insert"
  PROVE  Decide(r)
<1> RequestsOK
  BY DEF TypeInv
<1>1. \A a \in Asks : ~Receive(r, a)
  BY DEF Receive, Goto, RequestsOK
<1>2. ~(\/ Connect(r) \/ Lock(r) \/ Find(r) \/ Store(r) \/ InsertRow(r) \/ TakeExisting(r)
        \/ Simulate(r) \/ Reverse(r) \/ RecordReversal(r) \/ FailRow(r))
  BY DEF Connect, Lock, Find, Store, LostTo, InsertRow, TakeExisting, Simulate, Reverse,
     RecordReversal, FailRow, Goto, RequestsOK
<1>3. ~(\/ Look(r) \/ Create(r) \/ PublishCreated(r) \/ AttachMetadata(r)
        \/ ReverseThrows(r) \/ RecordingThrows(r) \/ Die(r))
  BY DEF Look, Create, AfterLoss, PublishCreated, AttachMetadata, ReverseThrows,
     RecordingThrows, Die, Goto, RequestsOK
<1> QED
  BY <1>1, <1>2, <1>3 DEF Serve

LEMMA MoneyStep ==
  TypeInv /\ TypeInv' /\ LockInv /\ OwnerInv /\ MoneyInv /\ [Next]_vars => MoneyInv'
<1> SUFFICES ASSUME TypeInv, TypeInv', LockInv, OwnerInv, MoneyInv, [Next]_vars PROVE MoneyInv'
  OBVIOUS
<1> RequestsOK /\ RequestsOK' /\ \A r \in Requests : HolderOK(r)
  BY DEF TypeInv
<1>1. CASE UNCHANGED vars \/ \E p \in Payments : Confirm(p)
  <2>1. UNCHANGED <<pc, ask, amount, refunds>>
    BY <1>1 DEF vars, Confirm
  <2> QED
    BY <2>1 DEF MoneyInv, Held, Total, Body
<1>2. ASSUME NEW r \in Requests,
             \/ Serve(r) \/ ReverseThrows(r) \/ RecordingThrows(r) \/ Die(r)
             \/ \E a \in Asks : Receive(r, a)
      PROVE  MoneyInv'
  <2> SUFFICES ASSUME NEW p \in Payments
               PROVE  /\ IsFiniteSet(Held(p)') /\ Total(p)' <= Worth
                      /\ \A q \in Requests :
                           pc'[q] = "insert" /\ Body(q)'.payment = p
                             => Total(p)' + amount'[q] <= Worth
    BY DEF MoneyInv
  <2>1. Others(r) /\ (pc[r] # "idle" => ask'[r] = ask[r])
    BY <1>2, OneMoves
  <2>2. /\ IsFiniteSet(Held(p)) /\ Total(p) \in Nat /\ Total(p) <= Worth /\ Worth \in Nat
        /\ amount \in [Requests -> Nat] /\ amount' \in [Requests -> Nat]
    BY TotalIsNat, ConstantsAssumption DEF MoneyInv, RequestsOK
  <2>3. \A q \in Requests \ {r} :
          /\ pc'[q] = pc[q] /\ Body(q)' = Body(q) /\ amount'[q] = amount[q]
          /\ pc[q] = "insert" /\ Body(q).payment = p => Total(p) + amount[q] <= Worth
    BY <2>1 DEF MoneyInv, Others, Body
  <2>4. IsFiniteSet(Held(p)') => Total(p)' \in Nat
    BY FS_CardinalityType DEF Total
  <2>5. pc'[r] = "insert" => Decide(r)
    BY <1>2, ComesToInsert
  <2>6. CASE Kept
    <3>1. Held(p)' = Held(p) /\ Total(p)' = Total(p)
      BY <2>6 DEF Kept, Held, Total
    <3>2. pc'[r] = "insert" /\ Body(r)'.payment = p => Total(p)' + amount'[r] <= Worth
      <4> SUFFICES ASSUME pc'[r] = "insert", Body(r)'.payment = p
                   PROVE  Total(p) + amount'[r] <= Worth
        BY <3>1
      <4>1. Decide(r)
        BY <2>5
      <4>2. Refundable(r) /\ amount'[r] = Requested(r) /\ Body(r)' = Body(r)
        BY <4>1 DEF Decide, Goto, RequestsOK, Body
      <4>3. Requested(r) \in 1..Worth /\ Requested(r) <= Worth - Total(p)
        BY <4>2 DEF Refundable, Remainder
      <4> QED
        BY <2>2, <4>2, <4>3
    <3> QED
      BY <2>2, <2>3, <3>1, <3>2
  <2>7. ASSUME NEW k \in Keys, Ended(r, k)
        PROVE  /\ IsFiniteSet(Held(p)') /\ Total(p)' <= Worth
               /\ \A q \in Requests :
                    pc'[q] = "insert" /\ Body(q)'.payment = p => Total(p)' + amount'[q] <= Worth
    <3>1. IsFiniteSet(Held(p)') /\ Total(p)' <= Total(p) /\ Total(p)' \in Nat
      BY <2>2, <2>4, <2>7, EndedHolds
    <3>2. pc'[r] # "insert"
      BY <2>5, <2>7 DEF Ended, Owns, Decide
    <3> QED
      BY <2>2, <2>3, <3>1, <3>2
  <2>8. ASSUME NEW k \in Keys, Inserted(r, k)
        PROVE  /\ IsFiniteSet(Held(p)') /\ Total(p)' <= Worth
               /\ \A q \in Requests :
                    pc'[q] = "insert" /\ Body(q)'.payment = p => Total(p)' + amount'[q] <= Worth
    <3>1. amount[r] \in 1..Worth
      BY <2>8 DEF Inserted, HolderOK, Decided
    <3>2. /\ IsFiniteSet(Held(p)') /\ Total(p)' \in Nat
          /\ Body(r).payment # p => Total(p)' <= Total(p)
          /\ Total(p)' <= Total(p) + amount[r]
      BY <2>2, <2>4, <2>8, <3>1, InsertedHolds
    <3>3. Body(r).payment = p => Total(p) + amount[r] <= Worth
      BY <2>8 DEF Inserted, MoneyInv
    <3>4. pc'[r] # "insert"
      BY <2>5, <2>8 DEF Inserted, Decide
    <3>5. Body(r).payment = p => \A q \in Requests \ {r} : ~(pc[q] = "insert" /\ Body(q).payment = p)
      <4>1. \A q \in Requests : pc[q] = "insert" => Locked(q)
        BY DEF Locked, Refunding, Busy, UnderLock, HolderOK, OfRefund
      <4> QED
        BY <2>8, <4>1 DEF Inserted, LockInv
    <3>6. CASE Body(r).payment = p
      BY <2>2, <2>3, <3>1, <3>2, <3>3, <3>4, <3>5, <3>6
    <3>7. CASE Body(r).payment # p
      BY <2>2, <2>3, <3>2, <3>4, <3>7
    <3> QED
      BY <3>6, <3>7
  <2> QED
    BY <1>2, <2>6, <2>7, <2>8, RowMoves
<1> QED
  BY <1>1, <1>2 DEF Next

LEMMA MoneyHolds == Spec => [](LockInv /\ OwnerInv /\ MoneyInv)
<1>1. Init => LockInv /\ OwnerInv
  BY DEF Init, LockInv, Locked, Refunding, Busy, UnderLock, OwnerInv, Owns
<1>2. Init => MoneyInv
  <2> SUFFICES ASSUME Init, NEW p \in Payments
               PROVE  /\ IsFiniteSet(Held(p)) /\ Total(p) <= Worth
                      /\ \A r \in Requests : pc[r] # "insert"
    BY DEF MoneyInv
  <2>1. Held(p) = {} /\ \A r \in Requests : pc[r] # "insert"
    BY DEF Init, Held
  <2>2. IsFiniteSet(Held(p)) /\ Total(p) = 0
    BY <2>1, FS_EmptySet DEF Total
  <2> QED
    BY <2>1, <2>2, ConstantsAssumption
<1> QED
  BY <1>1, <1>2, LockStep, OwnerStep, MoneyStep, TypeInvHolds, PTL DEF Spec

\* However requests with different keys interleave, die and retry, the refunds
\* of a payment that are not failed never exceed what it settled for.
THEOREM RefundsNeverExceedThePayment == Spec => []RefundsWithinPayment
<1>1. MoneyInv => RefundsWithinPayment
  BY DEF MoneyInv, RefundsWithinPayment
<1> QED
  BY <1>1, MoneyHolds, PTL

\* Refunds of one payment do not overlap from reading its total to storing the
\* answer, and the row of a key is written by the request that made it alone.
THEOREM OneRefundAtATime == Spec => [](LockInv /\ OwnerInv)
  BY MoneyHolds, PTL

\* The outcome of a refund is written once: a row keeps its payment and its
\* amount, and once it is no longer pending it never changes.
OutcomesStay ==
  [][\A k \in Keys : refunds[k] # None =>
       /\ refunds'[k] # None
       /\ refunds'[k].payment = refunds[k].payment /\ refunds'[k].amount = refunds[k].amount
       /\ refunds[k].status # "pending" => refunds'[k] = refunds[k]]_vars

\* A refund's outcome is final and its terms are: no retry under its key and
\* no other request rewrites them.
THEOREM RefundOutcomesStay == Spec => OutcomesStay
<1> DEFINE Stays ==
      \A k \in Keys : refunds[k] # None =>
        /\ refunds'[k] # None
        /\ refunds'[k].payment = refunds[k].payment /\ refunds'[k].amount = refunds[k].amount
        /\ refunds[k].status # "pending" => refunds'[k] = refunds[k]
<1>1. TypeInv /\ OwnerInv /\ [Next]_vars => [Stays]_vars
  <2> SUFFICES ASSUME TypeInv, OwnerInv, Next PROVE Stays
    OBVIOUS
  <2>1. ASSUME NEW p \in Payments, Confirm(p) PROVE Stays
    BY <2>1 DEF Confirm
  <2>2. ASSUME NEW r \in Requests,
               \/ Serve(r) \/ ReverseThrows(r) \/ RecordingThrows(r) \/ Die(r)
               \/ \E a \in Asks : Receive(r, a)
        PROVE  Stays
    <3>1. CASE Kept
      BY <3>1 DEF Kept
    <3>2. ASSUME NEW k \in Keys, Inserted(r, k) PROVE Stays
      BY <3>2 DEF Inserted
    <3>3. ASSUME NEW k \in Keys, Ended(r, k) PROVE Stays
      <4>1. refunds[k].status = "pending" /\ refunds[k] \in Refunds
        BY <3>3 DEF Ended, OwnerInv
      <4>2. PICK st \in {"succeeded", "failed"} : refunds'[k] = [refunds[k] EXCEPT !.status = st]
        BY <3>3 DEF Ended
      <4>3. refunds'[k] \in Refunds
        BY <4>1, <4>2 DEF Refunds, RefundStatuses
      <4>4. /\ refunds'[k] # None
            /\ refunds'[k].payment = refunds[k].payment /\ refunds'[k].amount = refunds[k].amount
        BY <4>1, <4>2, <4>3, NoneAssumption DEF Refunds
      <4>5. \A x \in Keys \ {k} : refunds'[x] = refunds[x]
        BY <3>3 DEF Ended
      <4> QED
        BY <4>1, <4>4, <4>5
    <3> QED
      BY <2>2, <3>1, <3>2, <3>3, RowMoves
  <2> QED
    BY <2>1, <2>2 DEF Next
<1> QED
  BY <1>1, MoneyHolds, TypeInvHolds, PTL DEF Spec, OutcomesStay

-----------------------------------------------------------------------------
(* What may be given back, and how *)

\* A settled payment, of test mode or paid to an endpoint that can be reversed.
Reversible(p) == p \in confirmed /\ (p \in Sandbox \/ p \notin Manual)

\* A refund is of a payment that may be given back, and a transfer is sent for
\* none of test mode (refund.service.ts:100-111, 132-162, 182-190).
RefundsAreReversible ==
  \A k \in Keys :
    /\ refunds[k] # None => Reversible(refunds[k].payment)
    /\ reversals[k] # 0 => refunds[k] # None /\ refunds[k].payment \notin Sandbox

\* Whoever is past its decision found as much.
ChosenOK(r) ==
  /\ pc[r] = "insert" => Reversible(Body(r).payment)
  /\ pc[r] = "reverse" => refunds[Key(r)].payment \notin Sandbox

ChosenInv == RefundsAreReversible /\ \A r \in Requests : ChosenOK(r)

\* What a step must do to the requests and to the rows.
LEMMA ChosenFrame ==
  ASSUME TypeInv, ChosenInv, NEW r \in Requests, Others(r), confirmed' = confirmed,
         UNCHANGED <<refunds, reversals>>, ChosenOK(r)'
  PROVE  ChosenInv'
<1>1. \A q \in Requests \ {r} : ChosenOK(q)'
  BY DEF ChosenInv, ChosenOK, Others, Body, Key, Reversible
<1> QED
  BY <1>1 DEF ChosenInv, RefundsAreReversible, Reversible

LEMMA ChosenStep == TypeInv /\ OwnerInv /\ ChosenInv /\ [Next]_vars => ChosenInv'
<1> SUFFICES ASSUME TypeInv, OwnerInv, ChosenInv, [Next]_vars PROVE ChosenInv'
  OBVIOUS
<1> RequestsOK /\ TablesOK /\ \A r \in Requests : HolderOK(r)
  BY DEF TypeInv
<1>1. CASE UNCHANGED vars \/ \E p \in Payments : Confirm(p)
  <2>1. UNCHANGED <<pc, ask, refunds, reversals>> /\ confirmed \subseteq confirmed'
    BY <1>1 DEF vars, Confirm
  <2> QED
    BY <2>1 DEF ChosenInv, RefundsAreReversible, ChosenOK, Reversible, Body, Key
<1>2. ASSUME NEW r \in Requests, Decide(r) PROVE ChosenInv'
  <2>1. Others(r)
    BY <1>2, OneMoves DEF Serve
  <2>2. /\ pc'[r] \in {"insert", "refused"}
        /\ pc'[r] = "insert" => Reversible(Body(r).payment)
        /\ UNCHANGED <<confirmed, refunds, reversals, ask>>
    BY <1>2 DEF Decide, Refundable, Reversible, Goto, RequestsOK
  <2>3. ChosenOK(r)'
    BY <2>2 DEF ChosenOK, Reversible, Body
  <2> QED
    BY <2>1, <2>2, <2>3, ChosenFrame
<1>3. ASSUME NEW r \in Requests, InsertRow(r) PROVE ChosenInv'
  <2>1. PICK k \in Keys : k = Key(r)
    BY <1>3, Asked DEF InsertRow, HolderOK, OfRefund, Key
  <2>2. Others(r) /\ UNCHANGED <<confirmed, reversals, ask>> /\ Key(r)' = k
    BY <1>3, <2>1, OneMoves DEF Serve, InsertRow, Key
  <2>3. CASE Taken(k)
    <3>1. UNCHANGED refunds /\ pc'[r] = "existing"
      BY <1>3, <2>1, <2>3 DEF InsertRow, Goto, RequestsOK
    <3> QED
      BY <2>2, <3>1, ChosenFrame DEF ChosenOK
  <2>4. CASE ~Taken(k)
    <3>1. /\ refunds[k] = None /\ reversals[k] = 0 /\ Reversible(Body(r).payment)
      BY <1>3, <2>4 DEF Taken, ChosenInv, ChosenOK, RefundsAreReversible, InsertRow
    <3>2. /\ refunds'[k].payment = Body(r).payment
          /\ \A x \in Keys \ {k} : refunds'[x] = refunds[x]
      BY <1>3, <2>1, <2>4 DEF InsertRow, TablesOK
    <3>3. pc'[r] # "insert" /\ (pc'[r] = "reverse" => Body(r).payment \notin Sandbox)
      BY <1>3, <2>1, <2>4 DEF InsertRow, Goto, RequestsOK
    <3>4. \A q \in Requests \ {r} : ChosenOK(q)'
      <4>1. \A q \in Requests \ {r} :
              /\ ChosenOK(q) /\ pc'[q] = pc[q] /\ Body(q)' = Body(q) /\ Key(q)' = Key(q)
              /\ pc[q] = "reverse" => Key(q) \in Keys \ {k}
        BY <2>2, <3>1, Asked DEF ChosenInv, Others, Body, Key, HolderOK
      <4> QED
        BY <2>2, <3>2, <4>1 DEF ChosenOK, Reversible
    <3>5. ChosenOK(r)'
      BY <2>2, <3>2, <3>3 DEF ChosenOK
    <3>6. RefundsAreReversible'
      BY <2>2, <3>1, <3>2 DEF ChosenInv, RefundsAreReversible, Reversible
    <3> QED
      BY <3>4, <3>5, <3>6 DEF ChosenInv
  <2> QED
    BY <2>3, <2>4
\* A transfer is sent by these two alone, under a key whose row is there.
<1>4. ASSUME NEW r \in Requests, Reverse(r) \/ ReverseThrows(r) PROVE ChosenInv'
  <2>1. PICK k \in Keys : k = Key(r) /\ refunds[k] # None
    BY <1>4, Asked DEF Reverse, ReverseThrows, HolderOK, Key
  <2>2. /\ UNCHANGED <<confirmed, refunds, ask>> /\ pc[r] = "reverse" /\ pc'[r] \in {"succeed", "fail"}
        /\ \A x \in Keys \ {k} : reversals'[x] = reversals[x]
    BY <1>4, <2>1 DEF Reverse, ReverseThrows, Send, Goto, RequestsOK, TablesOK
  <2>3. refunds[k].payment \notin Sandbox
    BY <2>1, <2>2 DEF ChosenInv, ChosenOK
  <2>4. \A q \in Requests \ {r} : pc'[q] = pc[q]
    BY <1>4, OneMoves DEF Serve, Others
  <2>5. \A q \in Requests : ChosenOK(q)'
    BY <2>2, <2>4 DEF ChosenInv, ChosenOK, Reversible, Body, Key
  <2>6. RefundsAreReversible'
    BY <2>1, <2>2, <2>3 DEF ChosenInv, RefundsAreReversible, Reversible
  <2> QED
    BY <2>5, <2>6 DEF ChosenInv
<1>5. ASSUME NEW r \in Requests, Simulate(r) \/ RecordReversal(r) \/ FailRow(r) PROVE ChosenInv'
  <2>1. Others(r) /\ UNCHANGED <<confirmed, reversals, ask>> /\ pc'[r] \in {"store", "failed"}
    BY <1>5, OneMoves
    DEF Serve, Simulate, RecordReversal, FailRow, Goto, RequestsOK
  <2>2. PICK k \in Keys : k = Key(r) /\ refunds[k] # None
    BY <1>5, Asked DEF Simulate, RecordReversal, FailRow, HolderOK, Key
  <2>3. PICK st \in RefundStatuses : SetStatus(r, st)
    BY <1>5 DEF Simulate, RecordReversal, FailRow, RefundStatuses
  <2>4. /\ refunds'[k] = [refunds[k] EXCEPT !.status = st] /\ refunds[k] \in Refunds
        /\ \A x \in Keys \ {k} : refunds'[x] = refunds[x]
    BY <2>2, <2>3 DEF SetStatus, TablesOK
  <2>5. refunds'[k] \in Refunds /\ refunds'[k].payment = refunds[k].payment
    BY <2>4 DEF Refunds
  <2>6. refunds'[k] # None
    BY <2>5, NoneAssumption
  <2>7. \A q \in Requests \ {r} : ChosenOK(q)'
    <3>1. \A q \in Requests \ {r} :
            /\ ChosenOK(q) /\ pc'[q] = pc[q] /\ Body(q)' = Body(q) /\ Key(q)' = Key(q)
            /\ pc[q] = "reverse" => Key(q) \in Keys
      BY <2>1, Asked DEF ChosenInv, Others, Body, Key, HolderOK
    <3>2. \A x \in Keys : refunds'[x].payment = refunds[x].payment
      BY <2>4, <2>5
    <3>3. \A q \in Requests \ {r} : pc[q] = "reverse" => refunds'[Key(q)].payment \notin Sandbox
      BY <3>1, <3>2 DEF ChosenOK
    <3>4. \A q \in Requests \ {r} : pc[q] = "insert" => Reversible(Body(q).payment)
      BY <3>1 DEF ChosenOK
    <3> QED
      BY <2>1, <3>1, <3>3, <3>4 DEF ChosenOK, Reversible
  <2>8. RefundsAreReversible'
    BY <2>1, <2>2, <2>4, <2>5, <2>6 DEF ChosenInv, RefundsAreReversible, Reversible
  <2> QED
    BY <2>1, <2>7, <2>8 DEF ChosenInv, ChosenOK
<1>6. ASSUME NEW r \in Requests,
             \/ Connect(r) \/ Lock(r) \/ Find(r) \/ Store(r) \/ TakeExisting(r)
             \/ Look(r) \/ Create(r) \/ PublishCreated(r) \/ AttachMetadata(r)
             \/ RecordingThrows(r) \/ Die(r)
             \/ \E a \in Asks : Receive(r, a)
      PROVE  ChosenInv'
  <2>1. Others(r)
    BY <1>6, OneMoves DEF Serve
  <2>2. UNCHANGED <<confirmed, refunds, reversals>>
    BY <1>6 DEF Connect, Lock, Find, Store, TakeExisting, Look, Create, PublishCreated,
       AttachMetadata, RecordingThrows, Die, Receive
  <2>3. pc'[r] \notin {"insert", "reverse"}
    BY <1>6 DEF Connect, Lock, Find, Store, LostTo, TakeExisting, Look, Create, AfterLoss,
       PublishCreated, AttachMetadata, RecordingThrows, Die, Receive, Goto, RequestsOK
  <2> QED
    BY <2>1, <2>2, <2>3, ChosenFrame DEF ChosenOK
<1> QED
  BY <1>1, <1>2, <1>3, <1>4, <1>5, <1>6 DEF Next, Serve

\* Nothing is given back of a payment that was not settled or cannot be
\* reversed, and no transfer is ever sent for a payment of test mode.
THEOREM OnlyReversiblePaymentsRefunded == Spec => []RefundsAreReversible
<1>1. Init => ChosenInv
  BY DEF Init, ChosenInv, RefundsAreReversible, ChosenOK
<1>2. ChosenInv => RefundsAreReversible
  BY DEF ChosenInv
<1> QED
  BY <1>1, <1>2, ChosenStep, MoneyHolds, TypeInvHolds, PTL DEF Spec

-----------------------------------------------------------------------------
(* A refund succeeds with its transfer sent *)

\* A row keeps its payment and its amount.
TermsStay ==
  \A k \in Keys : refunds[k] # None =>
    /\ refunds'[k] # None
    /\ refunds'[k].payment = refunds[k].payment /\ refunds'[k].amount = refunds[k].amount

LEMMA RowsKeepTerms ==
  ASSUME TypeInv, OwnerInv, NEW r \in Requests,
         \/ Serve(r) \/ ReverseThrows(r) \/ RecordingThrows(r) \/ Die(r)
         \/ \E a \in Asks : Receive(r, a)
  PROVE  TermsStay
<1>1. CASE Kept
  BY <1>1 DEF Kept, TermsStay
<1>2. ASSUME NEW k \in Keys, Inserted(r, k) PROVE TermsStay
  BY <1>2 DEF Inserted, TermsStay
<1>3. ASSUME NEW k \in Keys, Ended(r, k) PROVE TermsStay
  <2>1. PICK st \in {"succeeded", "failed"} : refunds'[k] = [refunds[k] EXCEPT !.status = st]
    BY <1>3 DEF Ended
  <2>2. refunds'[k] \in Refunds
    BY <1>3, <2>1 DEF Ended, Refunds, RefundStatuses
  <2>3. /\ refunds'[k] # None
        /\ refunds'[k].payment = refunds[k].payment /\ refunds'[k].amount = refunds[k].amount
    BY <1>3, <2>1, <2>2, NoneAssumption DEF Ended, Refunds
  <2> QED
    BY <1>3, <2>3 DEF Ended, TermsStay
<1> QED
  BY <1>1, <1>2, <1>3, RowMoves

\* A refund that reads succeeded was simulated, or its reversal was sent.
SuccessWasSent ==
  \A k \in Keys :
    refunds[k] # None /\ refunds[k].status = "succeeded" =>
      refunds[k].payment \in Sandbox \/ reversals[k] = 1

\* So is whoever is about to write that.
SentOK(r) ==
  /\ pc[r] = "simulate" => refunds[Key(r)].payment \in Sandbox
  /\ pc[r] = "succeed" => reversals[Key(r)] = 1

SentInv == SuccessWasSent /\ \A r \in Requests : SentOK(r)

LEMMA SentFrame ==
  ASSUME TypeInv, OwnerInv, SentInv, NEW r \in Requests, Others(r), TermsStay,
         UNCHANGED reversals, SentOK(r)',
         \A k \in Keys : \/ refunds'[k] = refunds[k]
                         \/ refunds'[k] = None \/ refunds'[k].status # "succeeded"
                         \/ refunds'[k].payment \in Sandbox \/ reversals[k] = 1
  PROVE  SentInv'
<1>1. ASSUME NEW q \in Requests \ {r} PROVE SentOK(q)'
  <2>1. SentOK(q) /\ pc'[q] = pc[q] /\ Key(q)' = Key(q)
    BY DEF SentInv, Others, Key
  <2>2. pc[q] \in {"simulate", "succeed"} => Key(q) \in Keys /\ refunds[Key(q)] # None
    BY Asked DEF TypeInv, HolderOK, Key
  <2> QED
    BY <2>1, <2>2 DEF SentOK, TermsStay
<1>2. SuccessWasSent'
  BY DEF SentInv, SuccessWasSent
<1> QED
  BY <1>1, <1>2 DEF SentInv

LEMMA SentStep == TypeInv /\ OnceInv /\ OwnerInv /\ SentInv /\ [Next]_vars => SentInv'
<1> SUFFICES ASSUME TypeInv, OnceInv, OwnerInv, SentInv, [Next]_vars PROVE SentInv'
  OBVIOUS
<1> RequestsOK /\ TablesOK /\ \A r \in Requests : HolderOK(r) /\ SentOK(r)
  BY DEF TypeInv, SentInv
<1>1. CASE UNCHANGED vars \/ \E p \in Payments : Confirm(p)
  BY <1>1 DEF vars, Confirm, SentInv, SuccessWasSent, SentOK, Key
<1>2. ASSUME NEW r \in Requests, InsertRow(r) PROVE SentInv'
  <2>1. PICK k \in Keys : k = Key(r)
    BY <1>2, Asked DEF InsertRow, HolderOK, OfRefund, Key
  <2>2. Others(r) /\ TermsStay /\ UNCHANGED <<reversals, ask>> /\ Key(r)' = k
    BY <1>2, <2>1, OneMoves, RowsKeepTerms DEF Serve, InsertRow, Key
  <2>3. CASE Taken(k)
    <3>1. UNCHANGED refunds /\ pc'[r] = "existing"
      BY <1>2, <2>1, <2>3 DEF InsertRow, Goto, RequestsOK
    <3> QED
      BY <2>2, <3>1, SentFrame DEF SentOK
  <2>4. CASE ~Taken(k)
    <3>1. /\ refunds'[k].payment = Body(r).payment /\ refunds'[k].status = "pending"
          /\ \A x \in Keys \ {k} : refunds'[x] = refunds[x]
          /\ pc'[r] # "succeed" /\ (pc'[r] = "simulate" => Body(r).payment \in Sandbox)
      BY <1>2, <2>1, <2>4 DEF InsertRow, TablesOK, Goto, RequestsOK
    <3> QED
      BY <2>2, <3>1, SentFrame DEF SentOK
  <2> QED
    BY <2>3, <2>4
<1>3. ASSUME NEW r \in Requests, Reverse(r) \/ ReverseThrows(r) PROVE SentInv'
  <2>1. PICK k \in Keys : k = Key(r) /\ refunds[k] # None
    BY <1>3, Asked DEF Reverse, ReverseThrows, HolderOK, Key
  <2>2. Others(r) /\ TermsStay /\ UNCHANGED <<refunds, ask>> /\ Key(r)' = k
    BY <1>3, <2>1, OneMoves, RowsKeepTerms DEF Serve, Reverse, ReverseThrows, Key
  <2>3. KeyInv(k) /\ Sends(r, k) /\ Owns(r, k)
    BY <1>3, <2>1 DEF OnceInv, Reverse, ReverseThrows, Sends, Owns
  <2>4. CASE UNCHANGED reversals
    <3>1. ReverseThrows(r)
      BY <1>3, <2>1, <2>4 DEF Reverse, Send, TablesOK
    <3>2. pc'[r] = "fail"
      BY <3>1 DEF ReverseThrows, Goto, RequestsOK
    <3> QED
      BY <2>2, <2>4, <3>2, SentFrame DEF SentOK
  <2>5. CASE Send(r)
    <3>1. reversals'[k] = 1 /\ \A x \in Keys \ {k} : reversals'[x] = reversals[x]
      BY <2>1, <2>3, <2>5 DEF Send, KeyInv, TablesOK
    <3>2. pc'[r] \in {"succeed", "fail"}
      BY <1>3 DEF Reverse, ReverseThrows, Goto, RequestsOK
    <3>3. SuccessWasSent'
      BY <2>2, <3>1 DEF SentInv, SuccessWasSent
    <3>4. ASSUME NEW q \in Requests \ {r} PROVE SentOK(q)'
      <4>1. pc'[q] = pc[q] /\ Key(q)' = Key(q)
        BY <2>2 DEF Others, Key
      <4>2. pc[q] \in {"simulate", "succeed"} => Key(q) \in Keys
        BY Asked DEF HolderOK, Key
      <4> QED
        BY <2>2, <3>1, <4>1, <4>2 DEF SentOK
    <3>5. SentOK(r)'
      BY <2>2, <3>1, <3>2 DEF SentOK
    <3> QED
      BY <3>3, <3>4, <3>5 DEF SentInv
  <2> QED
    BY <1>3, <2>4, <2>5 DEF Reverse, ReverseThrows
<1>4. ASSUME NEW r \in Requests, Simulate(r) \/ RecordReversal(r) \/ FailRow(r) PROVE SentInv'
  <2>1. Others(r) /\ TermsStay /\ UNCHANGED reversals /\ pc'[r] \in {"store", "failed"}
    BY <1>4, OneMoves, RowsKeepTerms
    DEF Serve, Simulate, RecordReversal, FailRow, Goto, RequestsOK
  <2>2. PICK k \in Keys : k = Key(r) /\ refunds[k] # None
    BY <1>4, Asked DEF Simulate, RecordReversal, FailRow, HolderOK, Key
  <2>3. PICK st \in {"succeeded", "failed"} : SetStatus(r, st) /\ (st = "succeeded" => ~FailRow(r))
    BY <1>4 DEF Simulate, RecordReversal, FailRow
  <2>4. /\ refunds'[k] = [refunds[k] EXCEPT !.status = st] /\ refunds[k] \in Refunds
        /\ \A x \in Keys \ {k} : refunds'[x] = refunds[x]
    BY <2>2, <2>3 DEF SetStatus, TablesOK
  <2>5. refunds'[k].status = st /\ refunds'[k].payment = refunds[k].payment
    BY <2>4 DEF Refunds
  <2>6. st = "succeeded" => refunds[k].payment \in Sandbox \/ reversals[k] = 1
    BY <1>4, <2>2, <2>3 DEF SentOK, Simulate, RecordReversal
  <2> QED
    BY <2>1, <2>4, <2>5, <2>6, SentFrame DEF SentOK
<1>5. ASSUME NEW r \in Requests,
             \/ Connect(r) \/ Lock(r) \/ Find(r) \/ Store(r) \/ Decide(r) \/ TakeExisting(r)
             \/ Look(r) \/ Create(r) \/ PublishCreated(r) \/ AttachMetadata(r)
             \/ RecordingThrows(r) \/ Die(r)
             \/ \E a \in Asks : Receive(r, a)
      PROVE  SentInv'
  <2>1. Others(r) /\ TermsStay
    BY <1>5, OneMoves, RowsKeepTerms DEF Serve
  <2>2. UNCHANGED <<refunds, reversals>>
    BY <1>5 DEF Connect, Lock, Find, Store, Decide, TakeExisting, Look, Create, PublishCreated,
       AttachMetadata, RecordingThrows, Die, Receive
  <2>3. pc'[r] \notin {"simulate", "succeed"}
    BY <1>5 DEF Connect, Lock, Find, Store, LostTo, Decide, TakeExisting, Look, Create, AfterLoss,
       PublishCreated, AttachMetadata, RecordingThrows, Die, Receive, Goto, RequestsOK
  <2> QED
    BY <2>1, <2>2, <2>3, SentFrame DEF SentOK
<1> QED
  BY <1>1, <1>2, <1>3, <1>4, <1>5 DEF Next, Serve

LEMMA SentHolds == Spec => []SentInv
<1>1. Init => SentInv
  BY DEF Init, SentInv, SuccessWasSent, SentOK
<1> QED
  BY <1>1, SentStep, OnceHolds, MoneyHolds, TypeInvHolds, PTL DEF Spec

\* No refund reads succeeded whose money was not sent back, whichever throw,
\* death or retry came between (refund.service.ts:214-251).
THEOREM SucceededRefundsWereSent == Spec => []SuccessWasSent
<1>1. SentInv => SuccessWasSent
  BY DEF SentInv
<1> QED
  BY <1>1, SentHolds, PTL

-----------------------------------------------------------------------------
(* MerchantWrites implements MerchantPromise.  What is left of a payment is   *)
(* recomputed from the rows by every refund; it moves as an account does.     *)

\* The units of an amount, under one key.
LEMMA UnitsOfAmount ==
  ASSUME NEW k \in Keys, NEW n \in 1..Worth, NEW A, IsFiniteSet(A), A \cap ({k} \X (1..n)) = {}
  PROVE  /\ IsFiniteSet(A \cup ({k} \X (1..n)))
         /\ Cardinality(A \cup ({k} \X (1..n))) = Cardinality(A) + n
<1> DEFINE new == {k} \X (1..n)
<1> SUFFICES IsFiniteSet(A \cup new) /\ Cardinality(A \cup new) = Cardinality(A) + n
  OBVIOUS
<1>1. IsFiniteSet({k}) /\ Cardinality({k}) = 1
  BY FS_Singleton
<1>2. n \in Nat /\ n \in Int /\ ~(1 > n) /\ 1 \in Int
  BY ConstantsAssumption
<1>3. IsFiniteSet(1..n) /\ Cardinality(1..n) = n
  BY <1>2, FS_Interval
<1>4. IsFiniteSet(new) /\ Cardinality(new) = n
  <2>1. IsFiniteSet(new) /\ Cardinality(new) = Cardinality({k}) * Cardinality(1..n)
    BY <1>1, <1>3, FS_Product, Zenon
  <2> HIDE DEF new
  <2> QED
    BY <1>1, <1>2, <1>3, <2>1
<1>5. A \cap new = {}
  OBVIOUS
<1> HIDE DEF new
<1>6. IsFiniteSet(A \cup new)
      /\ Cardinality(A \cup new) = Cardinality(A) + Cardinality(new) - Cardinality(A \cap new)
  BY <1>4, FS_Union
<1>7. Cardinality({}) = 0 /\ Cardinality(A) \in Nat
  BY FS_EmptySet, FS_CardinalityType
<1> QED
  BY <1>2, <1>4, <1>5, <1>6, <1>7

\* Which units those are.
LEMMA UnitsUnder ==
  ASSUME NEW k \in Keys, NEW n \in 1..Worth
  PROVE  /\ {k} \X (1..n) \subseteq Keys \X (1..Worth)
         /\ \A u \in Keys \X (1..Worth) : u \in {k} \X (1..n) <=> u[1] = k /\ u[2] <= n
  BY ConstantsAssumption

\* A new row draws its amount, from the account of its payment alone.
LEMMA InsertedDraws ==
  ASSUME NEW r \in Requests, NEW k \in Keys, Inserted(r, k), amount[r] \in 1..Worth,
         Body(r).payment \in Payments, NEW p \in Payments, IsFiniteSet(Held(p))
  PROVE  Total(p)' = IF p = Body(r).payment THEN Total(p) + amount[r] ELSE Total(p)
<1>1. refunds'[k].payment = Body(r).payment /\ refunds'[k].amount = amount[r]
      /\ refunds'[k].status = "pending"
  BY DEF Inserted
<1>2. refunds'[k] # None
  BY NoneAssumption DEF Inserted, Refunds, RefundStatuses
<1>3. refunds[k] = None /\ \A x \in Keys \ {k} : refunds'[x] = refunds[x]
  BY DEF Inserted
<1>4. CASE p = Body(r).payment
  <2>1. Held(p)' = Held(p) \cup ({k} \X (1..amount[r]))
    <3>1. \A u \in Keys \X (1..Worth) :
            u \in Held(p)' <=> u \in Held(p) \/ (u[1] = k /\ u[2] <= amount[r])
      BY <1>1, <1>2, <1>3, <1>4 DEF Held
    <3>2. Held(p) \subseteq Keys \X (1..Worth) /\ Held(p)' \subseteq Keys \X (1..Worth)
      BY DEF Held
    <3> QED
      BY <3>1, <3>2, UnitsUnder
  <2>2. Held(p) \cap ({k} \X (1..amount[r])) = {}
    BY <1>3 DEF Held
  <2> QED
    BY <1>4, <2>1, <2>2, UnitsOfAmount DEF Total
<1>5. CASE p # Body(r).payment
  <2>1. Held(p)' = Held(p)
    BY <1>1, <1>3, <1>5 DEF Held
  <2> QED
    BY <1>5, <2>1 DEF Total
<1> QED
  BY <1>4, <1>5

\* A row that succeeded keeps what it drew; one that failed gives it back.
LEMMA EndedReturns ==
  ASSUME NEW k \in Keys, refunds[k] \in Refunds, refunds[k].status = "pending",
         NEW st \in {"succeeded", "failed"}, refunds'[k] = [refunds[k] EXCEPT !.status = st],
         \A x \in Keys \ {k} : refunds'[x] = refunds[x],
         NEW p \in Payments, IsFiniteSet(Held(p))
  PROVE  Total(p)' = IF p = refunds[k].payment /\ st = "failed"
                       THEN Total(p) - refunds[k].amount ELSE Total(p)
<1>1. /\ refunds'[k].payment = refunds[k].payment /\ refunds'[k].amount = refunds[k].amount
      /\ refunds'[k].status = st /\ refunds'[k] \in Refunds
      /\ refunds[k].amount \in 1..Worth
  BY DEF Refunds, RefundStatuses
<1>2. refunds[k] # None /\ refunds'[k] # None
  BY <1>1, NoneAssumption
<1>3. CASE p = refunds[k].payment /\ st = "failed"
  <2>1. Held(p) = Held(p)' \cup ({k} \X (1..refunds[k].amount))
    <3>1. \A u \in Keys \X (1..Worth) :
            u \in Held(p) <=> u \in Held(p)' \/ (u[1] = k /\ u[2] <= refunds[k].amount)
      BY <1>1, <1>2, <1>3 DEF Held
    <3>2. Held(p) \subseteq Keys \X (1..Worth) /\ Held(p)' \subseteq Keys \X (1..Worth)
      BY DEF Held
    <3> QED
      BY <1>1, <3>1, <3>2, UnitsUnder
  <2>2. Held(p)' \cap ({k} \X (1..refunds[k].amount)) = {}
    BY <1>1, <1>3 DEF Held
  <2>3. IsFiniteSet(Held(p)')
    <3>1. Held(p)' \subseteq Held(p)
      BY <2>1
    <3> QED
      BY <3>1, FS_Subset
  <2>4. Cardinality(Held(p)) = Cardinality(Held(p)') + refunds[k].amount
    BY <1>1, <2>1, <2>2, <2>3, UnitsOfAmount
  <2>5. Cardinality(Held(p)') \in Nat
    BY <2>3, FS_CardinalityType
  <2> QED
    BY <1>1, <1>3, <2>4, <2>5, ConstantsAssumption DEF Total
<1>4. CASE ~(p = refunds[k].payment /\ st = "failed")
  <2>1. Held(p)' = Held(p)
    BY <1>1, <1>2, <1>4 DEF Held
  <2> QED
    BY <1>4, <2>1 DEF Total
<1> QED
  BY <1>3, <1>4

Terms(k) == IF intents[k] = None THEN None ELSE intents[k].terms

LEMMA AccountsKept == UNCHANGED refunds => UNCHANGED [p \in Payments |-> Remainder(p)]
  BY DEF Remainder, Total, Held

LEMMA TermsKept == UNCHANGED intents => UNCHANGED [k \in Keys |-> Terms(k)]
  BY DEF Terms

\* Nobody outside sees the step.
LEMMA Unseen ==
  ASSUME UNCHANGED <<confirmed, refunds, reversals, created>>, UNCHANGED [k \in Keys |-> Terms(k)]
  PROVE  UNCHANGED Promise!promise
  BY AccountsKept DEF Promise!promise, Terms

LEMMA Books ==
  ASSUME TypeInv, MoneyInv, ChosenInv, NEW r \in Requests, InsertRow(r)
  PROVE  Promise!Next \/ UNCHANGED Promise!promise
<1> RequestsOK /\ TablesOK /\ HolderOK(r)
  BY DEF TypeInv
<1>1. /\ IsRefund(ask[r]) /\ amount[r] \in 1..Worth /\ pc[r] = "insert"
  BY DEF InsertRow, HolderOK, OfRefund, Decided
<1>2. PICK k \in Keys, p \in Payments : k = Key(r) /\ p = Body(r).payment
  BY <1>1, Asked DEF HolderOK, Key, Body
<1>3. UNCHANGED <<confirmed, intents, reversals, created>>
  BY DEF InsertRow
<1>4. CASE Taken(k)
  BY <1>2, <1>3, <1>4, Unseen, TermsKept DEF InsertRow
<1>5. CASE ~Taken(k)
  <2>1. Inserted(r, k)
    BY <1>1, <1>2, <1>5
    DEF InsertRow, Taken, Inserted, Locked, Refunding, Busy, UnderLock, TablesOK
  <2>2. \A q \in Payments : IsFiniteSet(Held(q)) /\ Total(q) \in Nat
    BY TotalIsNat DEF MoneyInv
  <2>3. \A q \in Payments :
          Remainder(q)' = IF q = p THEN Remainder(q) - amount[r] ELSE Remainder(q)
    <3> SUFFICES ASSUME NEW q \in Payments
                 PROVE  Remainder(q)' = IF q = p THEN Remainder(q) - amount[r] ELSE Remainder(q)
      OBVIOUS
    <3>1. Total(q)' = IF q = p THEN Total(q) + amount[r] ELSE Total(q)
      BY <1>1, <1>2, <2>1, <2>2, InsertedDraws
    <3> QED
      BY <1>1, <2>2, <3>1, ConstantsAssumption DEF Remainder
  <2> DEFINE left == [q \in Payments |-> Remainder(q)]
  <2>4. left' = [left EXCEPT ![p] = @ - amount[r]]
    BY <2>3
  <2>5. amount[r] <= left[p]
    <3>1. Total(p) + amount[r] <= Worth
      BY <1>1, <1>2 DEF MoneyInv
    <3> QED
      BY <1>1, <2>2, <3>1, ConstantsAssumption DEF Remainder
  <2>6. p \in confirmed /\ (p \in Sandbox \/ p \notin Manual)
    BY <1>1, <1>2 DEF ChosenInv, ChosenOK, Reversible
  <2>7. /\ refunds[k] = None
        /\ refunds' = [refunds EXCEPT ![k] =
             [payment |-> p, amount |-> amount[r], status |-> "pending"]]
    BY <1>2, <1>5 DEF InsertRow, Taken
  <2>8. UNCHANGED [x \in Keys |-> IF intents[x] = None THEN None ELSE intents[x].terms]
    BY <1>3
  <2>9. Promise!Book(k, p, amount[r])
    BY <1>3, <2>4, <2>5, <2>6, <2>7, <2>8 DEF Promise!Book
  <2> QED
    BY <1>1, <2>9 DEF Promise!Next
<1> QED
  BY <1>4, <1>5

LEMMA Closes ==
  ASSUME TypeInv, OwnerInv, MoneyInv, SentInv, NEW r \in Requests,
         Simulate(r) \/ RecordReversal(r) \/ FailRow(r)
  PROVE  Promise!Next
<1> RequestsOK /\ TablesOK /\ HolderOK(r) /\ SentOK(r)
  BY DEF TypeInv, SentInv
<1>1. PICK k \in Keys : k = Key(r) /\ refunds[k] # None /\ Owns(r, k)
  BY Asked DEF Simulate, RecordReversal, FailRow, HolderOK, Key, Owns
<1>2. refunds[k] \in Refunds /\ refunds[k].status = "pending" /\ refunds[k].payment \in Payments
      /\ refunds[k].amount \in 1..Worth
  BY <1>1 DEF TablesOK, OwnerInv, Refunds
<1>3. PICK st \in {"succeeded", "failed"} :
        /\ refunds' = [refunds EXCEPT ![k].status = st]
        /\ st = "succeeded" <=> ~FailRow(r)
  BY <1>1 DEF Simulate, RecordReversal, FailRow, SetStatus
<1>4. UNCHANGED <<confirmed, intents, reversals, created>>
  BY DEF Simulate, RecordReversal, FailRow
<1>5. UNCHANGED [x \in Keys |-> IF intents[x] = None THEN None ELSE intents[x].terms]
  BY <1>4
<1>6. /\ refunds'[k] = [refunds[k] EXCEPT !.status = st]
      /\ \A x \in Keys \ {k} : refunds'[x] = refunds[x]
  BY <1>3 DEF TablesOK
<1>7. \A q \in Payments : IsFiniteSet(Held(q)) /\ Total(q) \in Nat
  BY TotalIsNat DEF MoneyInv
<1>8. \A q \in Payments :
        Total(q)' = IF q = refunds[k].payment /\ st = "failed"
                      THEN Total(q) - refunds[k].amount ELSE Total(q)
  BY <1>2, <1>6, <1>7, EndedReturns
<1> DEFINE left == [q \in Payments |-> Remainder(q)]
<1>9. CASE st = "succeeded"
  <2>1. refunds[k].payment \in Sandbox \/ reversals[k] = 1
    BY <1>1, <1>3, <1>9 DEF Simulate, RecordReversal, SentOK
  <2>2. left' = left
    BY <1>8, <1>9 DEF Remainder
  <2>3. Promise!Succeed(k)
    BY <1>1, <1>2, <1>3, <1>4, <1>5, <1>9, <2>1, <2>2 DEF Promise!Succeed, Promise!Pending
  <2> QED
    BY <2>3 DEF Promise!Next
<1>10. CASE st = "failed"
  <2>1. \A q \in Payments :
          Remainder(q)' = IF q = refunds[k].payment THEN Remainder(q) + refunds[k].amount
                                                     ELSE Remainder(q)
    BY <1>2, <1>7, <1>8, <1>10, ConstantsAssumption DEF Remainder
  <2>2. left' = [left EXCEPT ![refunds[k].payment] = @ + refunds[k].amount]
    BY <1>2, <2>1
  <2>3. Promise!Fail(k)
    BY <1>1, <1>2, <1>3, <1>4, <1>5, <1>10, <2>2 DEF Promise!Fail, Promise!Pending
  <2> QED
    BY <2>3 DEF Promise!Next
<1> QED
  BY <1>9, <1>10

LEMMA SendsTransfer ==
  ASSUME TypeInv, OnceInv, OwnerInv, ChosenInv, NEW r \in Requests, Reverse(r) \/ ReverseThrows(r)
  PROVE  Promise!Next \/ UNCHANGED Promise!promise
<1>1. PICK k \in Keys : k = Key(r) /\ refunds[k] # None
  BY Asked DEF Reverse, ReverseThrows, TypeInv, HolderOK, Key
<1>2. pc[r] = "reverse" /\ UNCHANGED <<confirmed, refunds, intents, created>>
  BY DEF Reverse, ReverseThrows
<1>3. CASE UNCHANGED reversals
  BY <1>2, <1>3, Unseen, TermsKept
<1>4. CASE Send(r)
  <2>1. reversals[k] = 0
    BY <1>1, <1>2 DEF OnceInv, KeyInv, Sends
  <2>2. reversals' = [reversals EXCEPT ![k] = 1]
    BY <1>1, <1>4, <2>1 DEF Send
  <2>3. refunds[k].status = "pending" /\ refunds[k].payment \notin Sandbox
    BY <1>1, <1>2 DEF OwnerInv, Owns, ChosenInv, ChosenOK
  <2>4. UNCHANGED [q \in Payments |-> Remainder(q)]
    BY <1>2, AccountsKept
  <2>5. UNCHANGED [x \in Keys |-> IF intents[x] = None THEN None ELSE intents[x].terms]
    BY <1>2
  <2>6. Promise!Send(k)
    BY <1>1, <1>2, <2>1, <2>2, <2>3, <2>4, <2>5 DEF Promise!Send, Promise!Pending
  <2> QED
    BY <2>6 DEF Promise!Next
<1> QED
  BY <1>3, <1>4 DEF Reverse, ReverseThrows

LEMMA CreatesIntent ==
  ASSUME TypeInv, OnceInv, NEW r \in Requests, Create(r) \/ PublishCreated(r) \/ AttachMetadata(r)
  PROVE  Promise!Next \/ UNCHANGED Promise!promise
<1> RequestsOK /\ TablesOK /\ HolderOK(r)
  BY DEF TypeInv
<1>1. /\ ~IsRefund(ask[r])
      /\ pc[r] \in {"create", "publish", "metadata"}
      /\ UNCHANGED <<confirmed, refunds, reversals>>
  BY DEF Create, PublishCreated, AttachMetadata, HolderOK, OfIntent
<1>2. PICK k \in Keys, b \in Bodies : k = Key(r) /\ b = Body(r)
  BY <1>1, Asked DEF HolderOK, Key, Body
<1>3. UNCHANGED [q \in Payments |-> Remainder(q)]
  BY <1>1, AccountsKept
<1>4. CASE Create(r) /\ intents[k] # None
  BY <1>1, <1>2, <1>4, Unseen, TermsKept DEF Create
<1>5. CASE Create(r) /\ intents[k] = None
  <2>1. intents' = [intents EXCEPT ![k] = [terms |-> b, metadata |-> None]] /\ UNCHANGED created
    BY <1>2, <1>5 DEF Create
  <2>2. [terms |-> b, metadata |-> None] # None
    <3>1. [terms |-> b, metadata |-> None] \in Intents
      BY DEF Intents
    <3> QED
      BY <3>1, NoneAssumption
  <2>3. \A x \in Keys : Terms(x)' = IF x = k THEN b ELSE Terms(x)
    BY <2>1, <2>2 DEF Terms, TablesOK
  <2> DEFINE agreed == [x \in Keys |-> IF intents[x] = None THEN None ELSE intents[x].terms]
  <2>4. agreed[k] = None /\ agreed' = [agreed EXCEPT ![k] = b]
    BY <1>5, <2>3 DEF Terms
  <2>5. Promise!Agree(k, b)
    BY <1>1, <1>3, <2>1, <2>4 DEF Promise!Agree
  <2> QED
    BY <2>5 DEF Promise!Next
<1>6. CASE PublishCreated(r)
  <2>1. intents[k] # None /\ created[k] = 0 /\ UNCHANGED intents
    BY <1>2, <1>6 DEF PublishCreated, HolderOK, OnceInv, KeyInv, Announces
  <2>2. created' = [created EXCEPT ![k] = 1]
    BY <1>2, <1>6, <2>1 DEF PublishCreated
  <2>3. intents[k].terms # None
    <3>1. intents[k] \in Intents
      BY <2>1 DEF TablesOK
    <3>2. intents[k].terms \in Bodies
      BY <3>1 DEF Intents
    <3> QED
      BY <3>2, ConstantsAssumption
  <2> DEFINE agreed == [x \in Keys |-> IF intents[x] = None THEN None ELSE intents[x].terms]
  <2>4. agreed[k] # None /\ UNCHANGED agreed
    BY <2>1, <2>3
  <2>5. Promise!Announce(k)
    BY <1>1, <1>3, <2>1, <2>2, <2>4 DEF Promise!Announce
  <2> QED
    BY <2>5 DEF Promise!Next
\* Its metadata changes, and its terms do not.
<1>7. CASE AttachMetadata(r)
  <2>1. intents[k] \in Intents /\ intents[k] # None
    BY <1>2, <1>7 DEF AttachMetadata, HolderOK, TablesOK
  <2>2. intents' = [intents EXCEPT ![k] = [intents[k] EXCEPT !.metadata = b]] /\ UNCHANGED created
    BY <1>2, <1>7 DEF AttachMetadata
  <2>3. [intents[k] EXCEPT !.metadata = b] \in Intents
        /\ [intents[k] EXCEPT !.metadata = b].terms = intents[k].terms
    BY <2>1 DEF Intents
  <2>4. \A x \in Keys : Terms(x)' = Terms(x)
    BY <2>1, <2>2, <2>3, NoneAssumption DEF Terms, TablesOK
  <2>5. UNCHANGED [x \in Keys |-> Terms(x)]
    BY <2>4
  <2> QED
    BY <1>1, <2>2, <2>5, Unseen
<1> QED
  BY <1>4, <1>5, <1>6, <1>7

LEMMA PromiseStep ==
  ASSUME TypeInv, OnceInv, OwnerInv, MoneyInv, ChosenInv, SentInv, [Next]_vars
  PROVE  [Promise!Next]_(Promise!promise)
<1> DEFINE Done == UNCHANGED Promise!promise \/ Promise!Next
<1> SUFFICES Done
  BY Zenon
<1>1. ASSUME NEW p \in Payments, Confirm(p) PROVE Done
  <2>1. UNCHANGED [q \in Payments |-> Remainder(q)]
    BY <1>1, AccountsKept DEF Confirm
  <2>2. UNCHANGED [x \in Keys |-> IF intents[x] = None THEN None ELSE intents[x].terms]
    BY <1>1 DEF Confirm
  <2>3. Promise!Settle(p)
    BY <1>1, <2>1, <2>2 DEF Confirm, Promise!Settle
  <2> QED
    BY <2>3 DEF Promise!Next
<1>2. ASSUME NEW r \in Requests,
             \/ Connect(r) \/ Lock(r) \/ Find(r) \/ Store(r) \/ Decide(r) \/ TakeExisting(r)
             \/ Look(r) \/ RecordingThrows(r) \/ Die(r)
             \/ \E a \in Asks : Receive(r, a)
      PROVE  Done
  <2>1. UNCHANGED <<confirmed, refunds, intents, reversals, created>>
    BY <1>2 DEF Connect, Lock, Find, Store, Decide, TakeExisting, Look, RecordingThrows, Die, Receive
  <2> QED
    BY <2>1, Unseen, TermsKept
<1>3. ASSUME NEW r \in Requests,
             \/ InsertRow(r) \/ Simulate(r) \/ RecordReversal(r) \/ FailRow(r)
             \/ Reverse(r) \/ ReverseThrows(r)
             \/ Create(r) \/ PublishCreated(r) \/ AttachMetadata(r)
      PROVE  Done
  BY <1>3, Books, Closes, SendsTransfer, CreatesIntent
<1>4. CASE UNCHANGED vars
  BY <1>4, Unseen, TermsKept DEF vars
<1> QED
  BY <1>1, <1>2, <1>3, <1>4 DEF Next, Serve

LEMMA ChosenHolds == Spec => []ChosenInv
<1>1. Init => ChosenInv
  BY DEF Init, ChosenInv, RefundsAreReversible, ChosenOK
<1> QED
  BY <1>1, ChosenStep, MoneyHolds, TypeInvHolds, PTL DEF Spec

\* Requests that race, retry, wait and die keep the promise: a key draws once
\* on the account of one payment, which is never overdrawn; a refund succeeds
\* with its one transfer sent, and gives back what it drew if it fails; and an
\* intent's terms are agreed once and announced once.
THEOREM PromiseKept == Spec => KeepsPromise
<1>1. Init => Promise!Init
  <2> SUFFICES ASSUME Init PROVE Promise!Init
    OBVIOUS
  <2>1. \A p \in Payments : Remainder(p) = Worth
    <3> SUFFICES ASSUME NEW p \in Payments PROVE Remainder(p) = Worth
      OBVIOUS
    <3>1. Held(p) = {}
      BY DEF Init, Held
    <3>2. Total(p) = 0
      BY <3>1, FS_EmptySet DEF Total
    <3> QED
      BY <3>2, ConstantsAssumption DEF Remainder
  <2> QED
    BY <2>1 DEF Init, Promise!Init
<1>2. /\ TypeInv /\ OnceInv /\ OwnerInv /\ MoneyInv /\ ChosenInv /\ SentInv /\ [Next]_vars
      => [Promise!Next]_(Promise!promise)
  BY PromiseStep
<1> QED
  BY <1>1, <1>2, TypeInvHolds, OnceHolds, MoneyHolds, ChosenHolds, SentHolds, PTL
  DEF Spec, KeepsPromise, Promise!Spec

-----------------------------------------------------------------------------
(* The pool *)

\* What the step a request is at waits for: its guard, spelled out.
Ready(r) ==
  \/ pc[r] \in {"reverse", "publish"}
  \/ pc[r] = "locking" /\ Unlocked(r)
  \/ pc[r] \in Busy \ {"reverse", "publish", "locking"} /\ CanQuery(r)

\* While a request is being served, the step of some request waits for nothing.
SomebodyIsReady == (\E r \in Requests : pc[r] \in Busy) => \E r \in Requests : Ready(r)

\* However many refunds fill the pool, and whatever they wait for, one that
\* holds a lock keeps its connection, and if none does, a lock is free.
THEOREM RefundsDoNotBlock == Spec => []SomebodyIsReady
<1>1. TypeInv => SomebodyIsReady
  <2> SUFFICES ASSUME TypeInv, NEW r \in Requests, pc[r] \in Busy
               PROVE  \E q \in Requests : Ready(q)
    BY DEF SomebodyIsReady
  <2>1. ASSUME NEW q \in Requests, Refunding(q), pc[q] \in UnderLock PROVE Ready(q)
    <3>1. q \in Pinned
      BY <2>1 DEF Pinned, UnderLock
    <3> QED
      BY <2>1, <3>1 DEF Ready, CanQuery, Busy, UnderLock
  <2>2. ASSUME NEW q \in Requests, Refunding(q), pc[q] = "locking" PROVE \E x \in Requests : Ready(x)
    <3>1. CASE Unlocked(q)
      BY <2>2, <3>1 DEF Ready
    <3>2. CASE ~Unlocked(q)
      BY <2>1, <3>2 DEF Unlocked
    <3> QED
      BY <3>1, <3>2
  <2>3. CASE Pinned = {}
    <3>1. Cardinality(Pinned) = 0 /\ Pool \in Nat \ {0}
      BY <2>3, FS_EmptySet, ConstantsAssumption
    <3>2. CanQuery(r)
      BY <3>1 DEF CanQuery
    <3>3. pc[r] # "locking"
      <4>1. pc[r] = "locking" => r \in Pinned
        BY DEF Pinned, Refunding, TypeInv, HolderOK, OfRefund
      <4> QED
        BY <2>3, <4>1
    <3> QED
      BY <3>2, <3>3 DEF Ready
  <2>4. CASE Pinned # {}
    <3>1. PICK q \in Requests : Refunding(q) /\ pc[q] # "received"
      BY <2>4 DEF Pinned
    <3>2. CASE pc[q] = "locking"
      BY <2>2, <3>1, <3>2
    <3>3. CASE pc[q] # "locking"
      BY <3>1, <3>3 DEF Ready, CanQuery, Pinned, Refunding
    <3> QED
      BY <3>2, <3>3
  <2> QED
    BY <2>3, <2>4
<1> QED
  BY <1>1, TypeInvHolds, PTL

=============================================================================
