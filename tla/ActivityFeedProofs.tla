-------------------------- MODULE ActivityFeedProofs --------------------------
(***************************************************************************)
(* Proofs about ActivityFeed, for any transactions and any number of       *)
(* handlers.                                                               *)
(***************************************************************************)
EXTENDS ActivityFeed, FiniteSetTheorems, TLAPS

USE DEF chain, webhook, read

Fates == {"none", "flying", "landed", "errored", "lost"}
Points == {"idle", "broadcast", "write", "erase", "next", "correlate", "upsert", "mark",
           "ask", "settle", "link"}

FeedTypes ==
  /\ fate \in [Txs -> Fates] /\ row \in [Txs -> Rows \cup {None}]
  /\ pc \in [Procs -> Points] /\ on \in [Procs -> Txs \cup {None}]
  /\ expired \in [Tickers -> BOOLEAN] /\ verdict \in [Tickers -> Verdicts]
  /\ link \in [Tailers -> BOOLEAN] /\ todo \in [Tailers -> SUBSET Txs]
  /\ lapsed \subseteq Txs /\ old \subseteq lapsed

\* What a row shows is what became of its transaction.
RowTrue(t) ==
  row[t] # None => /\ row[t].status = "CONFIRMED" => fate[t] = "landed"
                   /\ row[t].status = "FAILED" => fate[t] \in {"errored", "lost"}
                   /\ row[t].status = "PENDING" => fate[t] # "none"

\* A Send past its blockhash is in flight no more; one whose row grew old was sent.
LapseTrue(t) ==
  /\ t \in lapsed => fate[t] # "flying"
  /\ t \in old => fate[t] # "none"

\* What a handler holds in hand is true of its transaction, and stays so.
HandTrue(p) ==
  LET t == on[p] IN
  /\ pc[p] \in {"broadcast", "write", "correlate", "upsert", "mark", "ask", "settle", "link"} => t \in Txs
  /\ pc[p] = "write" => fate[t] # "none"
  /\ pc[p] \in {"correlate", "upsert", "mark"} => fate[t] = "landed"
  /\ p \in Tailers => \A u \in todo[p] : fate[u] = "landed"
  /\ p \in Tickers /\ pc[p] \in {"ask", "settle"} /\ expired[p] => t \in lapsed /\ fate[t] # "none"
  /\ p \in Tickers /\ pc[p] = "settle" =>
       /\ verdict[p] = "landed" => fate[t] = "landed"
       /\ verdict[p] = "errored" => fate[t] = "errored"
       /\ expired[p] /\ verdict[p] # "landed" => fate[t] \in {"errored", "lost"}

FeedInv ==
  /\ FeedTypes
  /\ \A t \in Txs : RowTrue(t) /\ LapseTrue(t)
  /\ \A p \in Procs : HandTrue(p)

FinalStays ==
  \A t \in Txs : (row[t] # None /\ row[t].status \in Final) => row'[t].status = row[t].status

-----------------------------------------------------------------------------
LEMMA Roles ==
  /\ Submitters \subseteq Procs /\ Hooks \subseteq Tailers /\ Replayers \subseteq Tailers
  /\ Tailers \subseteq Procs /\ Tickers \subseteq Procs /\ Completers \subseteq Procs
  /\ Tailers \cap Tickers = {} /\ Submitters \cap Tickers = {} /\ Submitters \cap Tailers = {}
  /\ Completers \cap Tickers = {} /\ Completers \cap Tailers = {}
  /\ Sends \subseteq Txs /\ Pays \subseteq Txs /\ None \notin Txs
  BY ConstantsAssumption DEF Procs, Tailers, Sends, Pays

\* A transaction goes from nothing to flight to an end, and has one end.
FateGrows ==
  \A t \in Txs : /\ fate[t] \in {"landed", "errored", "lost"} => fate'[t] = fate[t]
                 /\ fate[t] = "flying" => fate'[t] # "none"
                 /\ t \in lapsed => fate'[t] = fate[t] \/ fate'[t] \in {"landed", "errored", "lost"}

LEMMA HandKept ==
  ASSUME FeedInv, NEW q \in Procs, FateGrows, lapsed \subseteq lapsed',
         pc'[q] = pc[q] /\ on'[q] = on[q],
         q \in Tickers => expired'[q] = expired[q] /\ verdict'[q] = verdict[q],
         q \in Tailers => todo'[q] = todo[q]
  PROVE  HandTrue(q)'
<1>1. HandTrue(q)
  BY DEF FeedInv
<1>2. q \in Tailers => todo'[q] = todo[q] /\ todo[q] \subseteq Txs
  BY DEF FeedInv, FeedTypes
<1>3. fate \in [Txs -> Fates]
  BY DEF FeedInv, FeedTypes
<1> QED
  BY <1>1, <1>2, <1>3 DEF HandTrue, FateGrows, Fates

\* What a step of the handler p must show.
LEMMA HandlerHolds ==
  ASSUME FeedInv, NEW p \in Procs, FateGrows, FeedTypes', lapsed \subseteq lapsed',
         \A q \in Procs \ {p} : pc'[q] = pc[q] /\ on'[q] = on[q],
         \A q \in Tickers \ {p} : expired'[q] = expired[q] /\ verdict'[q] = verdict[q],
         \A q \in Tailers \ {p} : todo'[q] = todo[q],
         \A t \in Txs : RowTrue(t)' /\ LapseTrue(t)', HandTrue(p)'
  PROVE  FeedInv'
<1>1. \A q \in Procs \ {p} : HandTrue(q)'
  BY HandKept
<1> QED
  BY <1>1 DEF FeedInv

\* What a step that is no handler's must show.
LEMMA WorldHolds ==
  ASSUME FeedInv, FateGrows, FeedTypes', lapsed \subseteq lapsed', UNCHANGED <<pc, on, read>>,
         \A t \in Txs : RowTrue(t)' /\ LapseTrue(t)'
  PROVE  FeedInv'
<1>1. \A q \in Procs : HandTrue(q)'
  BY HandKept
<1> QED
  BY <1>1 DEF FeedInv

LEMMA WorldKept ==
  ASSUME FeedInv, UNCHANGED <<fate, row, lapsed, old>>
  PROVE  FateGrows /\ lapsed \subseteq lapsed' /\ \A t \in Txs : RowTrue(t)' /\ LapseTrue(t)'
<1>1. \A t \in Txs : RowTrue(t) /\ LapseTrue(t)
  BY DEF FeedInv
<1>2. FateGrows
  BY <1>1 DEF FateGrows, LapseTrue
<1> QED
  BY <1>1, <1>2 DEF RowTrue, LapseTrue

LEMMA StepMoves ==
  ASSUME FeedTypes, NEW p \in Procs, NEW from, NEW to \in Points, Step(p, from, to)
  PROVE  /\ pc \in [Procs -> Points] /\ pc' \in [Procs -> Points] /\ on' = on
         /\ pc[p] = from /\ pc'[p] = to /\ \A q \in Procs \ {p} : pc'[q] = pc[q]
  BY DEF FeedTypes, Step

LEMMA BeginMoves ==
  ASSUME FeedTypes, NEW p \in Procs, NEW to \in Points, NEW t \in Txs \cup {None}, Begin(p, to, t)
  PROVE  /\ pc' \in [Procs -> Points] /\ on' \in [Procs -> Txs \cup {None}]
         /\ pc'[p] = to /\ on'[p] = t /\ \A q \in Procs \ {p} : pc'[q] = pc[q] /\ on'[q] = on[q]
  BY DEF FeedTypes, Begin

LEMMA FinishMoves ==
  ASSUME FeedTypes, NEW p \in Procs, Finish(p)
  PROVE  /\ pc' \in [Procs -> Points] /\ on' \in [Procs -> Txs \cup {None}]
         /\ pc'[p] = "idle" /\ \A q \in Procs \ {p} : pc'[q] = pc[q] /\ on'[q] = on[q]
  BY DEF FeedTypes, Finish, Points

LEMMA ForgetMoves ==
  ASSUME FeedTypes, NEW p \in Procs, Forget(p)
  PROVE  /\ expired' \in [Tickers -> BOOLEAN] /\ verdict' \in [Tickers -> Verdicts]
         /\ link' \in [Tailers -> BOOLEAN] /\ todo' \in [Tailers -> SUBSET Txs]
         /\ \A q \in Tickers \ {p} : expired'[q] = expired[q] /\ verdict'[q] = verdict[q]
         /\ \A q \in Tailers \ {p} : todo'[q] = todo[q]
         /\ p \in Tailers => todo'[p] = {}
  BY DEF FeedTypes, Forget, Verdicts

-----------------------------------------------------------------------------
(* The chain and the clock *)

LEMMA LandHolds ==
  ASSUME FeedInv, NEW t \in Txs, Land(t) PROVE FeedInv'
<1>1. FeedTypes /\ \A u \in Txs : RowTrue(u) /\ LapseTrue(u)
  BY DEF FeedInv
<1>2. PICK to \in {"landed", "errored"} : fate' = [fate EXCEPT ![t] = to]
  BY DEF Land
<1>3. fate[t] \in {"none", "flying"} /\ UNCHANGED <<row, lapsed, old, pc, on, link, expired, verdict, todo>>
  BY DEF Land
<1>4. FateGrows
  BY <1>1, <1>2, <1>3 DEF FateGrows, FeedTypes, LapseTrue
<1>5. FeedTypes'
  BY <1>1, <1>2, <1>3 DEF FeedTypes, Fates
<1>6. \A u \in Txs : RowTrue(u)' /\ LapseTrue(u)'
  BY <1>1, <1>2, <1>3 DEF FeedTypes, RowTrue, LapseTrue
<1> QED
  BY <1>3, <1>4, <1>5, <1>6, WorldHolds

LEMMA LapseHolds ==
  ASSUME FeedInv, NEW t \in Sends, Lapse(t) PROVE FeedInv'
<1>1. FeedTypes /\ t \in Txs /\ \A u \in Txs : RowTrue(u) /\ LapseTrue(u)
  BY Roles DEF FeedInv
<1>2. /\ fate' = [fate EXCEPT ![t] = IF @ = "flying" THEN "lost" ELSE @]
      /\ lapsed' = lapsed \cup {t}
      /\ UNCHANGED <<row, old, pc, on, link, expired, verdict, todo>>
  BY DEF Lapse
<1>3. FateGrows
  BY <1>1, <1>2 DEF FateGrows, FeedTypes, LapseTrue
<1>4. FeedTypes'
  BY <1>1, <1>2 DEF FeedTypes, Fates
<1>5. \A u \in Txs : RowTrue(u)' /\ LapseTrue(u)'
  BY <1>1, <1>2 DEF FeedTypes, RowTrue, LapseTrue
<1> QED
  BY <1>2, <1>3, <1>4, <1>5, WorldHolds

LEMMA GrowOldHolds ==
  ASSUME FeedInv, NEW t \in Sends, GrowOld(t) PROVE FeedInv'
<1>1. FeedTypes /\ t \in Txs /\ \A u \in Txs : RowTrue(u) /\ LapseTrue(u)
  BY Roles DEF FeedInv
<1>2. /\ old' = old \cup {t} /\ t \in lapsed /\ Pending(t)
      /\ UNCHANGED <<fate, row, lapsed, pc, on, link, expired, verdict, todo>>
  BY DEF GrowOld
<1>3. fate[t] # "none"
  BY <1>1, <1>2 DEF RowTrue, Pending
<1>4. FateGrows
  BY <1>1, <1>2 DEF FateGrows, LapseTrue
<1>5. FeedTypes'
  BY <1>1, <1>2 DEF FeedTypes
<1>6. \A u \in Txs : RowTrue(u)' /\ LapseTrue(u)'
  BY <1>1, <1>2, <1>3 DEF RowTrue, LapseTrue
<1> QED
  BY <1>2, <1>4, <1>5, <1>6, WorldHolds

LEMMA AsideHolds ==
  ASSUME FeedInv, UNCHANGED <<fate, row, lapsed, old, pc, on, read>> PROVE FeedInv'
<1>1. FeedTypes'
  BY DEF FeedInv, FeedTypes
<1> QED
  BY <1>1, WorldKept, WorldHolds

-----------------------------------------------------------------------------
(* Submit *)

LEMMA SubmitHolds ==
  ASSUME FeedInv, NEW p \in Submitters, NEW t \in Sends, Submit(p, t) PROVE FeedInv'
<1>1. FeedTypes /\ t \in Txs /\ p \in Procs /\ p \notin Tailers /\ p \notin Tickers
  BY Roles DEF FeedInv
<1>2. Begin(p, "broadcast", t) /\ UNCHANGED <<fate, row, lapsed, old, link, expired, verdict, todo>>
  BY DEF Submit
<1>3. /\ pc' \in [Procs -> Points] /\ on' \in [Procs -> Txs \cup {None}]
      /\ pc'[p] = "broadcast" /\ on'[p] = t /\ \A q \in Procs \ {p} : pc'[q] = pc[q] /\ on'[q] = on[q]
  BY <1>1, <1>2, BeginMoves DEF Points
<1>4. FeedTypes'
  BY <1>1, <1>2, <1>3 DEF FeedTypes
<1>5. HandTrue(p)'
  BY <1>1, <1>3 DEF HandTrue
<1> QED
  BY <1>1, <1>2, <1>3, <1>4, <1>5, WorldKept, HandlerHolds

LEMMA SentGrows ==
  ASSUME FeedInv, NEW t \in Txs \ lapsed, fate' = Sent(t)
  PROVE  FateGrows /\ fate' \in [Txs -> Fates] /\ fate'[t] # "none"
<1>1. fate \in [Txs -> Fates] /\ \A u \in Txs : LapseTrue(u)
  BY DEF FeedInv, FeedTypes
<1> QED
  BY <1>1 DEF Sent, FateGrows, LapseTrue, Fates

LEMMA SentTrue ==
  ASSUME FeedInv, NEW t \in Txs \ lapsed, fate' = Sent(t), UNCHANGED <<row, lapsed, old>>
  PROVE  \A u \in Txs : RowTrue(u)' /\ LapseTrue(u)'
<1>1. fate \in [Txs -> Fates] /\ \A u \in Txs : RowTrue(u) /\ LapseTrue(u)
  BY DEF FeedInv, FeedTypes
<1> QED
  BY <1>1 DEF Sent, RowTrue, LapseTrue

LEMMA BroadcastHolds ==
  ASSUME FeedInv, NEW p \in Submitters, Broadcast(p) PROVE FeedInv'
<1>1. FeedTypes /\ p \in Procs /\ p \notin Tailers /\ p \notin Tickers
  BY Roles DEF FeedInv
<1>2. Step(p, "broadcast", "write") /\ UNCHANGED <<row, lapsed, old, link, expired, verdict, todo>>
  BY DEF Broadcast
<1>3. /\ pc' \in [Procs -> Points] /\ on' = on
      /\ pc[p] = "broadcast" /\ pc'[p] = "write" /\ \A q \in Procs \ {p} : pc'[q] = pc[q]
  BY <1>1, <1>2, StepMoves DEF Points
<1>4. on[p] \in Txs \ lapsed /\ fate' = Sent(on[p])
  BY <1>1, <1>3 DEF FeedInv, HandTrue, Broadcast
<1>5. FateGrows /\ fate' \in [Txs -> Fates] /\ fate'[on[p]] # "none"
  BY <1>4, SentGrows
<1>6. FeedTypes'
  BY <1>1, <1>2, <1>3, <1>5 DEF FeedTypes
<1>7. HandTrue(p)'
  BY <1>1, <1>3, <1>4, <1>5 DEF HandTrue
<1> QED
  BY <1>1, <1>2, <1>3, <1>4, <1>5, <1>6, <1>7, SentTrue, HandlerHolds

LEMMA BroadcastThrowsHolds ==
  ASSUME FeedInv, NEW p \in Submitters, BroadcastThrows(p) PROVE FeedInv'
<1>1. FeedTypes /\ p \in Procs /\ p \notin Tailers /\ p \notin Tickers
  BY Roles DEF FeedInv
<1>2. Finish(p) /\ UNCHANGED <<row, lapsed, old, link, expired, verdict, todo>>
  BY DEF BroadcastThrows
<1>3. /\ pc' \in [Procs -> Points] /\ on' \in [Procs -> Txs \cup {None}]
      /\ pc'[p] = "idle" /\ \A q \in Procs \ {p} : pc'[q] = pc[q] /\ on'[q] = on[q]
  BY <1>1, <1>2, FinishMoves
<1>4. /\ FateGrows /\ fate' \in [Txs -> Fates]
      /\ \A u \in Txs : RowTrue(u)' /\ LapseTrue(u)'
  <2>1. CASE UNCHANGED fate
    BY <1>1, <1>2, <2>1, WorldKept DEF FeedTypes
  <2>2. CASE on[p] \notin lapsed /\ fate' = Sent(on[p])
    <3>1. on[p] \in Txs
      BY <1>1 DEF FeedInv, HandTrue, BroadcastThrows
    <3> QED
      BY <1>2, <2>2, <3>1, SentGrows, SentTrue
  <2> QED
    BY <2>1, <2>2 DEF BroadcastThrows
<1>5. FeedTypes'
  BY <1>1, <1>2, <1>3, <1>4 DEF FeedTypes
<1>6. HandTrue(p)'
  BY <1>1, <1>3 DEF HandTrue
<1> QED
  BY <1>1, <1>2, <1>3, <1>4, <1>5, <1>6, HandlerHolds

\* A write of a row that is true of it.
LEMMA RowWritten ==
  ASSUME FeedInv, NEW t \in Txs, NEW w \in Rows, row' = [row EXCEPT ![t] = w],
         UNCHANGED <<fate, lapsed, old>>,
         w.status = "CONFIRMED" => fate[t] = "landed",
         w.status = "FAILED" => fate[t] \in {"errored", "lost"},
         w.status = "PENDING" => fate[t] # "none"
  PROVE  FateGrows /\ row' \in [Txs -> Rows \cup {None}] /\ \A u \in Txs : RowTrue(u)' /\ LapseTrue(u)'
<1>1. row \in [Txs -> Rows \cup {None}] /\ \A u \in Txs : RowTrue(u) /\ LapseTrue(u)
  BY DEF FeedInv, FeedTypes
<1>2. row' \in [Txs -> Rows \cup {None}] /\ row'[t] = w /\ \A u \in Txs \ {t} : row'[u] = row[u]
  BY <1>1
<1>3. RowTrue(t)'
  BY <1>2 DEF RowTrue
<1>4. \A u \in Txs \ {t} : RowTrue(u)'
  BY <1>1, <1>2 DEF RowTrue
<1>5. FateGrows /\ \A u \in Txs : LapseTrue(u)'
  BY <1>1 DEF FateGrows, LapseTrue
<1> QED
  BY <1>2, <1>3, <1>4, <1>5

LEMMA WriteRowHolds ==
  ASSUME FeedInv, NEW p \in Submitters, WriteRow(p) PROVE FeedInv' /\ FinalStays
<1> DEFINE t == on[p]
           w == IF row[t] = None THEN [status |-> "PENDING", intent |-> TRUE, linked |-> FALSE]
                ELSE [row[t] EXCEPT !.status = Kept(row[t].status, "PENDING"), !.intent = TRUE]
<1>1. FeedTypes /\ p \in Procs /\ p \notin Tailers /\ p \notin Tickers
  BY Roles DEF FeedInv
<1>2. Step(p, "write", "erase") /\ UNCHANGED <<fate, lapsed, old, link, expired, verdict, todo>>
  BY DEF WriteRow
<1>3. /\ pc' \in [Procs -> Points] /\ on' = on
      /\ pc[p] = "write" /\ pc'[p] = "erase" /\ \A q \in Procs \ {p} : pc'[q] = pc[q]
  BY <1>1, <1>2, StepMoves DEF Points
<1>4. t \in Txs /\ fate[t] # "none" /\ RowTrue(t)
  BY <1>1, <1>3 DEF FeedInv, HandTrue
<1>5. row' = [row EXCEPT ![t] = w]
  BY DEF WriteRow
<1>6. row[t] \in Rows \cup {None} /\ (row[t] = None \/ row[t] \in Rows)
  BY <1>1, <1>4 DEF FeedTypes
<1>7. w \in Rows
  BY <1>6 DEF Rows, Final, Kept
<1>8. row[t] # None => w.status = IF row[t].status \in Final THEN row[t].status ELSE "PENDING"
  BY <1>6 DEF Rows, Kept
<1>9. row[t] = None => w.status = "PENDING"
  OBVIOUS
<1> HIDE DEF t, w
<1>10. FateGrows /\ row' \in [Txs -> Rows \cup {None}] /\ \A u \in Txs : RowTrue(u)' /\ LapseTrue(u)'
  BY <1>2, <1>4, <1>5, <1>7, <1>8, <1>9, RowWritten DEF RowTrue, Final
<1>11. FeedTypes'
  BY <1>1, <1>2, <1>3, <1>10 DEF FeedTypes
<1>12. HandTrue(p)'
  BY <1>1, <1>3 DEF HandTrue
<1>13. FeedInv'
  BY <1>1, <1>2, <1>3, <1>10, <1>11, <1>12, HandlerHolds
<1>14. FinalStays
  BY <1>1, <1>4, <1>5, <1>8 DEF FinalStays, FeedTypes
<1> QED
  BY <1>13, <1>14

LEMMA EraseIntentHolds ==
  ASSUME FeedInv, NEW p \in Submitters, EraseIntent(p) PROVE FeedInv'
<1>1. FeedTypes /\ p \in Procs /\ p \notin Tailers /\ p \notin Tickers
  BY Roles DEF FeedInv
<1>2. Finish(p) /\ UNCHANGED <<fate, row, lapsed, old, link, expired, verdict, todo>>
  BY DEF EraseIntent
<1>3. /\ pc' \in [Procs -> Points] /\ on' \in [Procs -> Txs \cup {None}]
      /\ pc'[p] = "idle" /\ \A q \in Procs \ {p} : pc'[q] = pc[q] /\ on'[q] = on[q]
  BY <1>1, <1>2, FinishMoves
<1>4. FeedTypes' /\ HandTrue(p)'
  BY <1>1, <1>2, <1>3 DEF FeedTypes, HandTrue
<1> QED
  BY <1>1, <1>2, <1>3, <1>4, WorldKept, HandlerHolds

-----------------------------------------------------------------------------
(* The tailer *)

LEMMA CorrelateHolds ==
  ASSUME FeedInv, NEW p \in Tailers, Correlate(p) PROVE FeedInv'
<1>1. FeedTypes /\ p \in Procs /\ p \notin Tickers /\ HandTrue(p)
  BY Roles DEF FeedInv
<1>2. Step(p, "correlate", "upsert") /\ UNCHANGED <<fate, row, lapsed, old, expired, verdict, todo>>
  BY DEF Correlate
<1>3. /\ pc' \in [Procs -> Points] /\ on' = on
      /\ pc[p] = "correlate" /\ pc'[p] = "upsert" /\ \A q \in Procs \ {p} : pc'[q] = pc[q]
  BY <1>1, <1>2, StepMoves DEF Points
<1>4. link' \in [Tailers -> BOOLEAN]
  BY <1>1 DEF FeedTypes, Correlate
<1>5. FeedTypes'
  BY <1>1, <1>2, <1>3, <1>4 DEF FeedTypes
<1>6. HandTrue(p)'
  BY <1>1, <1>2, <1>3 DEF HandTrue
<1> QED
  BY <1>1, <1>2, <1>3, <1>5, <1>6, WorldKept, HandlerHolds

LEMMA UpsertHolds ==
  ASSUME FeedInv, NEW p \in Tailers, Upsert(p) PROVE FeedInv' /\ FinalStays
<1> DEFINE t == on[p]
           w == IF row[t] = None THEN [status |-> "CONFIRMED", intent |-> FALSE, linked |-> link[p]]
                ELSE [row[t] EXCEPT !.status = Kept(row[t].status, "CONFIRMED"), !.linked = row[t].linked \/ link[p]]
<1>1. FeedTypes /\ p \in Procs /\ p \notin Tickers /\ HandTrue(p)
  BY Roles DEF FeedInv
<1>2. Step(p, "upsert", "mark") /\ UNCHANGED <<fate, lapsed, old, expired, verdict, todo>>
  BY DEF Upsert
<1>3. /\ pc' \in [Procs -> Points] /\ on' = on
      /\ pc[p] = "upsert" /\ pc'[p] = "mark" /\ \A q \in Procs \ {p} : pc'[q] = pc[q]
  BY <1>1, <1>2, StepMoves DEF Points
<1>4. t \in Txs /\ fate[t] = "landed" /\ RowTrue(t)
  BY <1>1, <1>3 DEF FeedInv, HandTrue
<1>5. row' = [row EXCEPT ![t] = w]
  BY DEF Upsert
<1>6. (row[t] = None \/ row[t] \in Rows) /\ link[p] \in BOOLEAN
  BY <1>1, <1>4 DEF FeedTypes
<1>7. w \in Rows
  <2>1. CASE row[t] = None
    BY <1>6, <2>1 DEF Rows, Final
  <2>2. CASE row[t] # None
    <3> DEFINE keep == Kept(row[t].status, "CONFIRMED")
               linked == row[t].linked \/ link[p]
    <3>1. keep \in {"PENDING"} \cup Final /\ linked \in BOOLEAN
      BY DEF Kept, Final
    <3>2. w = [row[t] EXCEPT !.status = keep, !.linked = linked]
      BY <2>2
    <3> HIDE DEF keep, linked
    <3> QED
      BY <1>6, <2>2, <3>1, <3>2 DEF Rows
  <2> QED
    BY <2>1, <2>2
<1>8. row[t] # None => w.status = IF row[t].status \in Final THEN row[t].status ELSE "CONFIRMED"
  BY <1>6 DEF Rows, Kept
<1>9. row[t] = None => w.status = "CONFIRMED"
  OBVIOUS
<1> HIDE DEF t, w
<1>10. FateGrows /\ row' \in [Txs -> Rows \cup {None}] /\ \A u \in Txs : RowTrue(u)' /\ LapseTrue(u)'
  BY <1>2, <1>4, <1>5, <1>7, <1>8, <1>9, RowWritten DEF RowTrue, Final
<1>11. FeedTypes'
  <2>1. link' \in [Tailers -> BOOLEAN]
    BY <1>1 DEF FeedTypes, Upsert
  <2> QED
    BY <1>1, <1>2, <1>3, <1>10, <2>1 DEF FeedTypes
<1>12. HandTrue(p)'
  BY <1>1, <1>2, <1>3 DEF HandTrue
<1>13. FeedInv'
  BY <1>1, <1>2, <1>3, <1>10, <1>11, <1>12, HandlerHolds
<1>14. FinalStays
  BY <1>1, <1>4, <1>5, <1>8 DEF FinalStays, FeedTypes
<1> QED
  BY <1>13, <1>14

LEMMA MarkHolds ==
  ASSUME FeedInv, NEW p \in Tailers, Mark(p) PROVE FeedInv'
<1>1. FeedTypes /\ p \in Procs /\ p \notin Tickers /\ HandTrue(p)
  BY Roles DEF FeedInv
<1>2. UNCHANGED <<fate, row, lapsed, old, link, expired, verdict, todo>> /\ pc[p] = "mark"
  BY DEF Mark
<1>3. /\ pc' \in [Procs -> Points] /\ on' \in [Procs -> Txs \cup {None}]
      /\ pc'[p] \in {"idle", "next"} /\ \A q \in Procs \ {p} : pc'[q] = pc[q] /\ on'[q] = on[q]
  <2>1. CASE Finish(p)
    BY <1>1, <2>1, FinishMoves
  <2>2. CASE Step(p, "mark", "next")
    BY <1>1, <2>2, StepMoves DEF Points, FeedTypes
  <2> QED
    BY <2>1, <2>2 DEF Mark
<1>4. FeedTypes' /\ HandTrue(p)'
  BY <1>1, <1>2, <1>3 DEF FeedTypes, HandTrue
<1> QED
  BY <1>1, <1>2, <1>3, <1>4, WorldKept, HandlerHolds

LEMMA DeliverHolds ==
  ASSUME FeedInv, NEW p \in Hooks, NEW t \in Txs, Deliver(p, t) PROVE FeedInv'
<1>1. FeedTypes /\ p \in Procs /\ p \notin Tickers /\ HandTrue(p)
  BY Roles DEF FeedInv
<1>2. UNCHANGED <<fate, row, lapsed, old, link, expired, verdict, todo>> /\ fate[t] = "landed"
  BY DEF Deliver
<1>3. CASE UNCHANGED <<pc, on>>
  BY <1>2, <1>3, AsideHolds
<1>4. CASE Begin(p, "correlate", t)
  <2>1. /\ pc' \in [Procs -> Points] /\ on' \in [Procs -> Txs \cup {None}]
        /\ pc'[p] = "correlate" /\ on'[p] = t /\ \A q \in Procs \ {p} : pc'[q] = pc[q] /\ on'[q] = on[q]
    BY <1>1, <1>4, BeginMoves DEF Points
  <2>2. FeedTypes' /\ HandTrue(p)'
    BY <1>1, <1>2, <2>1 DEF FeedTypes, HandTrue
  <2> QED
    BY <1>1, <1>2, <2>1, <2>2, WorldKept, HandlerHolds
<1> QED
  BY <1>3, <1>4 DEF Deliver

\* A handler that throws or dies.
LEMMA AbandonHolds ==
  ASSUME FeedInv, NEW p \in Procs, Finish(p), Forget(p), UNCHANGED <<fate, row, lapsed, old>> PROVE FeedInv'
<1>1. FeedTypes
  BY DEF FeedInv
<1>2. /\ pc' \in [Procs -> Points] /\ on' \in [Procs -> Txs \cup {None}]
      /\ pc'[p] = "idle" /\ \A q \in Procs \ {p} : pc'[q] = pc[q] /\ on'[q] = on[q]
  BY <1>1, FinishMoves
<1>3. /\ expired' \in [Tickers -> BOOLEAN] /\ verdict' \in [Tickers -> Verdicts]
      /\ link' \in [Tailers -> BOOLEAN] /\ todo' \in [Tailers -> SUBSET Txs]
      /\ \A q \in Tickers \ {p} : expired'[q] = expired[q] /\ verdict'[q] = verdict[q]
      /\ \A q \in Tailers \ {p} : todo'[q] = todo[q]
      /\ p \in Tailers => todo'[p] = {}
  BY <1>1, ForgetMoves
<1>4. FeedTypes'
  BY <1>1, <1>2, <1>3 DEF FeedTypes
<1>5. HandTrue(p)'
  BY <1>2, <1>3 DEF HandTrue
<1> QED
  BY <1>2, <1>3, <1>4, <1>5, WorldKept, HandlerHolds

LEMMA ReplayHolds ==
  ASSUME FeedInv, NEW p \in Replayers, NEW target, Replay(p, target) PROVE FeedInv'
<1>1. FeedTypes /\ p \in Procs /\ p \notin Tickers /\ p \in Tailers
  BY Roles DEF FeedInv
<1>2. Begin(p, "next", None) /\ UNCHANGED <<fate, row, lapsed, old, link, expired, verdict>>
  BY DEF Replay
<1>3. /\ pc' \in [Procs -> Points] /\ on' \in [Procs -> Txs \cup {None}]
      /\ pc'[p] = "next" /\ \A q \in Procs \ {p} : pc'[q] = pc[q] /\ on'[q] = on[q]
  BY <1>1, <1>2, BeginMoves DEF Points
<1>4. PICK us \in SUBSET {t \in Txs : fate[t] = "landed"} : todo' = [todo EXCEPT ![p] = us]
  BY DEF Replay
<1>5. /\ todo' \in [Tailers -> SUBSET Txs] /\ todo'[p] = us
      /\ \A q \in Tailers \ {p} : todo'[q] = todo[q]
  BY <1>1, <1>4 DEF FeedTypes
<1>6. FeedTypes'
  BY <1>1, <1>2, <1>3, <1>5 DEF FeedTypes
<1>7. HandTrue(p)'
  BY <1>1, <1>2, <1>3, <1>5 DEF HandTrue
<1> QED
  BY <1>1, <1>2, <1>3, <1>5, <1>6, <1>7, WorldKept, HandlerHolds

LEMMA NextTransferHolds ==
  ASSUME FeedInv, NEW p \in Replayers, NextTransfer(p) PROVE FeedInv'
<1>1. FeedTypes /\ p \in Procs /\ p \notin Tickers /\ p \in Tailers /\ HandTrue(p)
  BY Roles DEF FeedInv
<1>2. UNCHANGED <<fate, row, lapsed, old, link, expired, verdict>> /\ pc[p] = "next"
  BY DEF NextTransfer
<1>3. CASE Finish(p) /\ UNCHANGED todo
  <2>1. /\ pc' \in [Procs -> Points] /\ on' \in [Procs -> Txs \cup {None}]
        /\ pc'[p] = "idle" /\ \A q \in Procs \ {p} : pc'[q] = pc[q] /\ on'[q] = on[q]
    BY <1>1, <1>3, FinishMoves
  <2>2. FeedTypes' /\ HandTrue(p)'
    BY <1>1, <1>2, <1>3, <2>1 DEF FeedTypes, HandTrue
  <2> QED
    BY <1>1, <1>2, <1>3, <2>1, <2>2, WorldKept, HandlerHolds
<1>4. ASSUME NEW t \in todo[p], todo' = [todo EXCEPT ![p] = @ \ {t}],
             \/ pc' = [pc EXCEPT ![p] = "correlate"] /\ on' = [on EXCEPT ![p] = t]
             \/ UNCHANGED <<pc, on>>
      PROVE  FeedInv'
  <2>1. t \in Txs /\ fate[t] = "landed"
    BY <1>1 DEF FeedTypes, HandTrue
  <2>2. /\ todo' \in [Tailers -> SUBSET Txs] /\ todo'[p] = todo[p] \ {t}
        /\ \A q \in Tailers \ {p} : todo'[q] = todo[q]
    BY <1>1, <1>4 DEF FeedTypes
  <2>3. /\ pc' \in [Procs -> Points] /\ on' \in [Procs -> Txs \cup {None}]
        /\ \A q \in Procs \ {p} : pc'[q] = pc[q] /\ on'[q] = on[q]
        /\ (pc'[p] = "next" \/ (pc'[p] = "correlate" /\ on'[p] = t))
    BY <1>1, <1>2, <1>4, <2>1 DEF FeedTypes, Points
  <2>4. FeedTypes'
    BY <1>1, <1>2, <2>2, <2>3 DEF FeedTypes
  <2>5. HandTrue(p)'
    BY <1>1, <1>2, <2>1, <2>2, <2>3 DEF HandTrue
  <2> QED
    BY <1>1, <1>2, <2>2, <2>3, <2>4, <2>5, WorldKept, HandlerHolds
<1> QED
  BY <1>3, <1>4 DEF NextTransfer

-----------------------------------------------------------------------------
(* The tick *)

LEMMA TickSelectHolds ==
  ASSUME FeedInv, NEW p \in Tickers, NEW t \in Sends, TickSelect(p, t) PROVE FeedInv'
<1>1. FeedTypes /\ p \in Procs /\ p \notin Tailers /\ t \in Txs /\ LapseTrue(t)
  BY Roles DEF FeedInv
<1>2. Begin(p, "ask", t) /\ UNCHANGED <<fate, row, lapsed, old, link, verdict, todo>>
  BY DEF TickSelect
<1>3. /\ pc' \in [Procs -> Points] /\ on' \in [Procs -> Txs \cup {None}]
      /\ pc'[p] = "ask" /\ on'[p] = t /\ \A q \in Procs \ {p} : pc'[q] = pc[q] /\ on'[q] = on[q]
  BY <1>1, <1>2, BeginMoves DEF Points
<1>4. /\ expired' \in [Tickers -> BOOLEAN] /\ expired'[p] = (t \in old)
      /\ \A q \in Tickers \ {p} : expired'[q] = expired[q]
  BY <1>1 DEF FeedTypes, TickSelect, Expired
<1>5. FeedTypes'
  BY <1>1, <1>2, <1>3, <1>4 DEF FeedTypes
<1>6. HandTrue(p)'
  BY <1>1, <1>2, <1>3, <1>4 DEF HandTrue, FeedTypes, LapseTrue
<1> QED
  BY <1>1, <1>2, <1>3, <1>4, <1>5, <1>6, WorldKept, HandlerHolds

LEMMA TickAskHolds ==
  ASSUME FeedInv, NEW p \in Tickers, TickAsk(p) PROVE FeedInv'
<1> DEFINE t == on[p]
           v == IF fate[t] \in {"landed", "errored"} THEN fate[t] ELSE "unknown"
<1>1. FeedTypes /\ p \in Procs /\ p \notin Tailers /\ HandTrue(p)
  BY Roles DEF FeedInv
<1>2. Step(p, "ask", "settle") /\ UNCHANGED <<fate, row, lapsed, old, link, expired, todo>>
  BY DEF TickAsk
<1>3. /\ pc' \in [Procs -> Points] /\ on' = on
      /\ pc[p] = "ask" /\ pc'[p] = "settle" /\ \A q \in Procs \ {p} : pc'[q] = pc[q]
  BY <1>1, <1>2, StepMoves DEF Points
<1>4. t \in Txs /\ (expired[p] => t \in lapsed /\ fate[t] # "none") /\ LapseTrue(t) /\ fate[t] \in Fates
  BY <1>1, <1>3 DEF FeedInv, FeedTypes, HandTrue
<1>5. verdict' = [verdict EXCEPT ![p] = v] /\ v \in Verdicts
  BY DEF TickAsk, Verdicts
<1>6. v = "landed" \/ v = "errored" => v = fate[t]
  OBVIOUS
<1>7. expired[p] /\ v # "landed" => fate[t] \in {"errored", "lost"}
  BY <1>4 DEF LapseTrue, Fates
<1> HIDE DEF v
<1>8. /\ verdict' \in [Tickers -> Verdicts] /\ verdict'[p] = v
      /\ \A q \in Tickers \ {p} : verdict'[q] = verdict[q]
  BY <1>1, <1>5 DEF FeedTypes
<1>9. FeedTypes'
  BY <1>1, <1>2, <1>3, <1>8 DEF FeedTypes
<1>10. HandTrue(p)'
  BY <1>1, <1>2, <1>3, <1>4, <1>6, <1>7, <1>8 DEF HandTrue
<1> QED
  BY <1>1, <1>2, <1>3, <1>8, <1>9, <1>10, WorldKept, HandlerHolds

LEMMA TickSettleHolds ==
  ASSUME FeedInv, NEW p \in Tickers, TickSettle(p) PROVE FeedInv' /\ FinalStays
<1> DEFINE t == on[p]
           to == IF verdict[p] = "landed" THEN "CONFIRMED"
                 ELSE IF verdict[p] = "errored" \/ expired[p] THEN "FAILED" ELSE "PENDING"
           w == [row[t] EXCEPT !.status = to]
<1>1. FeedTypes /\ p \in Procs /\ p \notin Tailers /\ HandTrue(p)
  BY Roles DEF FeedInv
<1>2. /\ Finish(p) /\ Forget(p) /\ UNCHANGED <<fate, lapsed, old>> /\ pc[p] = "settle"
      /\ row' = IF Pending(t) THEN [row EXCEPT ![t].status = to] ELSE row
  BY DEF TickSettle
<1>3. t \in Txs /\ RowTrue(t) /\ row[t] \in Rows \cup {None}
  BY <1>1, <1>2 DEF FeedInv, FeedTypes, HandTrue
<1>4. CASE ~Pending(t)
  <2>1. UNCHANGED row
    BY <1>2, <1>4
  <2> QED
    BY <1>1, <1>2, <2>1, AbandonHolds DEF FinalStays
<1>5. CASE Pending(t)
  <2>1. row[t] \in Rows /\ row[t].status = "PENDING" /\ fate[t] # "none"
    BY <1>3, <1>5 DEF Pending, RowTrue
  <2>2. /\ to = "CONFIRMED" => fate[t] = "landed"
        /\ to = "FAILED" => fate[t] \in {"errored", "lost"}
        /\ to \in {"PENDING"} \cup Final
    BY <1>1, <1>2 DEF HandTrue, Final
  <2> HIDE DEF to
  <2>3. w \in Rows /\ w.status = to /\ row' = [row EXCEPT ![t] = w]
    BY <1>2, <1>5, <2>1, <2>2 DEF Rows
  <2> HIDE DEF w, t
  <2>4. FateGrows /\ row' \in [Txs -> Rows \cup {None}] /\ \A u \in Txs : RowTrue(u)' /\ LapseTrue(u)'
    BY <1>2, <1>3, <2>1, <2>2, <2>3, RowWritten
  <2>5. /\ pc' \in [Procs -> Points] /\ on' \in [Procs -> Txs \cup {None}]
        /\ pc'[p] = "idle" /\ \A q \in Procs \ {p} : pc'[q] = pc[q] /\ on'[q] = on[q]
    BY <1>1, <1>2, FinishMoves
  <2>6. /\ expired' \in [Tickers -> BOOLEAN] /\ verdict' \in [Tickers -> Verdicts]
        /\ link' \in [Tailers -> BOOLEAN] /\ todo' \in [Tailers -> SUBSET Txs]
        /\ \A q \in Tickers \ {p} : expired'[q] = expired[q] /\ verdict'[q] = verdict[q]
        /\ \A q \in Tailers \ {p} : todo'[q] = todo[q]
    BY <1>1, <1>2, ForgetMoves
  <2>7. FeedTypes' /\ HandTrue(p)'
    BY <1>1, <1>2, <2>4, <2>5, <2>6 DEF FeedTypes, HandTrue
  <2>8. FinalStays
    BY <1>1, <1>3, <2>1, <2>3 DEF FinalStays, FeedTypes, Final
  <2>9. FeedInv'
    BY <1>1, <1>2, <2>4, <2>5, <2>6, <2>7, HandlerHolds
  <2> QED
    BY <2>8, <2>9
<1> QED
  BY <1>4, <1>5

-----------------------------------------------------------------------------
(* The completion of a Payment *)

LEMMA RecordPaymentHolds ==
  ASSUME FeedInv, NEW p \in Completers, NEW t \in Txs, RecordPayment(p, t) PROVE FeedInv'
<1>1. FeedTypes /\ p \in Procs /\ p \notin Tailers /\ p \notin Tickers
  BY Roles DEF FeedInv
<1>2. Begin(p, "link", t) /\ UNCHANGED <<fate, row, lapsed, old, link, expired, verdict, todo>>
  BY DEF RecordPayment
<1>3. /\ pc' \in [Procs -> Points] /\ on' \in [Procs -> Txs \cup {None}]
      /\ pc'[p] = "link" /\ on'[p] = t /\ \A q \in Procs \ {p} : pc'[q] = pc[q] /\ on'[q] = on[q]
  BY <1>1, <1>2, BeginMoves DEF Points
<1>4. FeedTypes' /\ HandTrue(p)'
  BY <1>1, <1>2, <1>3 DEF FeedTypes, HandTrue
<1> QED
  BY <1>1, <1>2, <1>3, <1>4, WorldKept, HandlerHolds

LEMMA LinkTransferHolds ==
  ASSUME FeedInv, NEW p \in Completers, LinkTransfer(p) PROVE FeedInv' /\ FinalStays
<1> DEFINE t == on[p]
           w == [row[t] EXCEPT !.linked = TRUE]
<1>1. FeedTypes /\ p \in Procs /\ p \notin Tailers /\ p \notin Tickers /\ HandTrue(p)
  BY Roles DEF FeedInv
<1>2. /\ Finish(p) /\ UNCHANGED <<fate, lapsed, old, link, expired, verdict, todo>> /\ pc[p] = "link"
      /\ row' = IF row[t] # None THEN [row EXCEPT ![t].linked = TRUE] ELSE row
  BY DEF LinkTransfer
<1>3. t \in Txs /\ RowTrue(t) /\ row[t] \in Rows \cup {None}
  BY <1>1, <1>2 DEF FeedInv, FeedTypes, HandTrue
<1>4. /\ pc' \in [Procs -> Points] /\ on' \in [Procs -> Txs \cup {None}]
      /\ pc'[p] = "idle" /\ \A q \in Procs \ {p} : pc'[q] = pc[q] /\ on'[q] = on[q]
  BY <1>1, <1>2, FinishMoves
<1>5. /\ FateGrows /\ row' \in [Txs -> Rows \cup {None}]
      /\ \A u \in Txs : RowTrue(u)' /\ LapseTrue(u)'
      /\ FinalStays
  <2>1. CASE row[t] = None
    <3>1. UNCHANGED row
      BY <1>2, <2>1
    <3> QED
      BY <1>1, <1>2, <3>1, WorldKept DEF FinalStays, FeedTypes
  <2>2. CASE row[t] # None
    <3>1. w \in Rows /\ w.status = row[t].status /\ row' = [row EXCEPT ![t] = w]
      BY <1>2, <1>3, <2>2 DEF Rows
    <3> HIDE DEF w, t
    <3>2. FateGrows /\ row' \in [Txs -> Rows \cup {None}] /\ \A u \in Txs : RowTrue(u)' /\ LapseTrue(u)'
      BY <1>2, <1>3, <2>2, <3>1, RowWritten DEF RowTrue
    <3>3. FinalStays
      BY <1>1, <1>3, <3>1 DEF FinalStays, FeedTypes
    <3> QED
      BY <3>2, <3>3
  <2> QED
    BY <2>1, <2>2
<1>6. FeedTypes' /\ HandTrue(p)'
  BY <1>1, <1>2, <1>4, <1>5 DEF FeedTypes, HandTrue
<1>7. FeedInv'
  BY <1>1, <1>2, <1>4, <1>5, <1>6, HandlerHolds
<1> QED
  BY <1>5, <1>7

-----------------------------------------------------------------------------
(* The theorems *)

LEMMA InitFeed == Init => FeedInv
<1> SUFFICES ASSUME Init PROVE FeedInv
  OBVIOUS
<1>1. FeedTypes
  BY DEF Init, FeedTypes, Fates, Points, Verdicts
<1>2. \A t \in Txs : RowTrue(t) /\ LapseTrue(t)
  BY DEF Init, RowTrue, LapseTrue
<1>3. \A p \in Procs : HandTrue(p)
  BY DEF Init, HandTrue
<1> QED
  BY <1>1, <1>2, <1>3 DEF FeedInv

LEMMA TailHolds ==
  ASSUME FeedInv, NEW p \in Tailers, Tail(p) PROVE FeedInv' /\ FinalStays
<1>1. CASE Correlate(p)
  BY <1>1, CorrelateHolds DEF Correlate, FinalStays
<1>2. CASE Upsert(p)
  BY <1>2, UpsertHolds
<1>3. CASE Mark(p)
  BY <1>3, MarkHolds DEF Mark, FinalStays
<1> QED
  BY <1>1, <1>2, <1>3 DEF Tail

LEMMA NextFeed == FeedInv /\ [Next]_vars => FeedInv' /\ FinalStays
<1> SUFFICES ASSUME FeedInv, [Next]_vars PROVE FeedInv' /\ FinalStays
  OBVIOUS
<1>1. CASE \E t \in Txs : Land(t) \/ Unheard(t)
  BY <1>1, LandHolds, AsideHolds DEF Land, Unheard, FinalStays
<1>2. CASE \E t \in Sends : Prepare(t) \/ Lapse(t) \/ GrowOld(t)
  BY <1>2, AsideHolds, LapseHolds, GrowOldHolds DEF Prepare, Lapse, GrowOld, FinalStays
<1>3. ASSUME NEW p \in Submitters,
             \/ \E t \in Sends : Submit(p, t)
             \/ Broadcast(p) \/ BroadcastThrows(p) \/ WriteRow(p) \/ EraseIntent(p)
      PROVE  FeedInv' /\ FinalStays
  <2>1. CASE \E t \in Sends : Submit(p, t)
    BY <2>1, SubmitHolds DEF Submit, FinalStays
  <2>2. CASE Broadcast(p)
    BY <2>2, BroadcastHolds DEF Broadcast, FinalStays
  <2>3. CASE BroadcastThrows(p)
    BY <2>3, BroadcastThrowsHolds DEF BroadcastThrows, FinalStays
  <2>4. CASE WriteRow(p)
    BY <2>4, WriteRowHolds
  <2>5. CASE EraseIntent(p)
    BY <2>5, EraseIntentHolds DEF EraseIntent, FinalStays
  <2> QED
    BY <1>3, <2>1, <2>2, <2>3, <2>4, <2>5
<1>4. ASSUME NEW p \in Hooks, (\E t \in Txs : Deliver(p, t)) \/ Tail(p) \/ HookThrows(p)
      PROVE  FeedInv' /\ FinalStays
  <2>1. CASE \E t \in Txs : Deliver(p, t)
    BY <2>1, DeliverHolds DEF Deliver, FinalStays
  <2>2. CASE Tail(p)
    BY <2>2, TailHolds, Roles
  <2>3. CASE HookThrows(p)
    BY <2>3, AbandonHolds, Roles DEF HookThrows, FinalStays
  <2> QED
    BY <1>4, <2>1, <2>2, <2>3
<1>5. ASSUME NEW p \in Replayers, Sweep(p) \/ RepairOne(p) \/ Replaying(p)
      PROVE  FeedInv' /\ FinalStays
  <2>1. CASE Sweep(p)
    BY <2>1, ReplayHolds DEF Sweep, Replay, FinalStays
  <2>2. CASE RepairOne(p)
    BY <2>2, ReplayHolds DEF RepairOne, Repair, Replay, FinalStays
  <2>3. CASE NextTransfer(p)
    BY <2>3, NextTransferHolds DEF NextTransfer, FinalStays
  <2>4. CASE Tail(p)
    BY <2>4, TailHolds, Roles
  <2> QED
    BY <1>5, <2>1, <2>2, <2>3, <2>4 DEF Replaying
<1>6. ASSUME NEW p \in Tickers, Tick(p)
      PROVE  FeedInv' /\ FinalStays
  <2>1. CASE \E t \in Sends : TickSelect(p, t)
    BY <2>1, TickSelectHolds DEF TickSelect, FinalStays
  <2>2. CASE TickAsk(p)
    BY <2>2, TickAskHolds DEF TickAsk, FinalStays
  <2>3. CASE TickSettle(p)
    BY <2>3, TickSettleHolds
  <2> QED
    BY <1>6, <2>1, <2>2, <2>3 DEF Tick
<1>7. ASSUME NEW p \in Completers, (\E t \in Txs : RecordPayment(p, t)) \/ LinkTransfer(p)
      PROVE  FeedInv' /\ FinalStays
  <2>1. CASE \E t \in Txs : RecordPayment(p, t)
    BY <2>1, RecordPaymentHolds DEF RecordPayment, FinalStays
  <2>2. CASE LinkTransfer(p)
    BY <2>2, LinkTransferHolds
  <2> QED
    BY <1>7, <2>1, <2>2
<1>8. CASE \E p \in Procs : Die(p)
  BY <1>8, AbandonHolds DEF Die, FinalStays
<1>9. CASE UNCHANGED vars
  BY <1>9, AsideHolds DEF vars, FinalStays
<1> QED
  BY <1>1, <1>2, <1>3, <1>4, <1>5, <1>6, <1>7, <1>8, <1>9 DEF Next

LEMMA AlwaysFeed == Spec => []FeedInv
<1>1. FeedInv /\ [Next]_vars => FeedInv'
  BY NextFeed
<1> QED
  BY <1>1, InitFeed, PTL DEF Spec

\* A row that is CONFIRMED or FAILED keeps its status, whichever of submit, webhook,
\* replay, tick and completion writes it next (transferMergeStatus and the PENDING
\* guards of the reconciler).
THEOREM FinalStatusStays == Spec => StatusIsFinal
<1>1. FeedInv /\ [Next]_vars => [FinalStays]_vars
  BY NextFeed
<1>2. [FinalStays]_vars => [\A t \in Txs : (row[t] # None /\ row[t].status \in Final) => row'[t].status = row[t].status]_vars
  BY DEF FinalStays
<1> QED
  BY <1>1, <1>2, AlwaysFeed, PTL DEF Spec, StatusIsFinal

\* Activity tells the truth: a row is CONFIRMED only when the transaction landed,
\* and FAILED only when it errored or can land no more.
RowsTellTheTruth ==
  \A t \in Txs : row[t] # None =>
    /\ row[t].status = "CONFIRMED" => fate[t] = "landed"
    /\ row[t].status = "FAILED" => fate[t] \in {"errored", "lost"}

\* What Activity says of a transaction is what became of it, for any number of
\* transactions and writers: the tick marks a row FAILED only past PENDING_EXPIRY_MS,
\* when its blockhash is dead (reconciler.service.ts).
THEOREM ActivityIsTrue == Spec => []RowsTellTheTruth
<1>1. FeedInv => RowsTellTheTruth
  BY DEF FeedInv, RowTrue, RowsTellTheTruth
<1> QED
  BY <1>1, AlwaysFeed, PTL

-----------------------------------------------------------------------------
(* The rest of the types: the tables, what a handler has in hand, the slots *)

TablesTyped ==
  /\ kind \in Mixes /\ lapsed \subseteq Sends /\ prepared \subseteq Sends \ lapsed
  /\ paid \subseteq {t \in Pays : fate[t] = "landed"}
  /\ claims \subseteq Txs /\ acked \subseteq Txs /\ fails \in 0..MaxFails

HandsTyped == \A p \in Procs : pc[p] \notin {"idle", "next"} => on[p] \in Txs

\* The transactions of the clock and the chain: a slot is taken by a landing only.
LandedTxs == {t \in Txs : fate[t] = "landed"}
SlotsTyped ==
  /\ slot \in [Txs -> Nat] /\ \A t \in Txs : slot[t] <= Cardinality(LandedTxs)
  /\ Txs # {} => \E t \in Txs : \A u \in Txs : slot[u] <= slot[t]

LEMMA FailHolds == ASSUME fails \in 0..MaxFails, Fail PROVE fails' \in 0..MaxFails
  BY ConstantsAssumption DEF Fail

\* A transaction that landed stays landed.
LEMMA LandedStays ==
  ASSUME FeedInv, [Next]_vars, NEW t \in Txs, fate[t] = "landed"
  PROVE  fate'[t] = "landed"
<1>1. fate \in [Txs -> Fates]
  BY DEF FeedInv, FeedTypes
<1>2. ASSUME NEW u \in Txs, Land(u) PROVE fate'[t] = "landed"
  <2>1. u # t /\ \E to \in Fates : fate' = [fate EXCEPT ![u] = to]
    BY <1>2 DEF Land, Fates
  <2> QED
    BY <1>1, <2>1
<1>3. ASSUME NEW u \in Sends, Lapse(u) PROVE fate'[t] = "landed"
  <2>1. fate' = [fate EXCEPT ![u] = IF fate[u] = "flying" THEN "lost" ELSE fate[u]] /\ u \in Txs
    BY <1>3 DEF Lapse, Sends
  <2> QED
    BY <1>1, <2>1
<1>4. ASSUME NEW p \in Submitters, Broadcast(p) \/ BroadcastThrows(p) PROVE fate'[t] = "landed"
  BY <1>1, <1>4 DEF Broadcast, BroadcastThrows, Sent
<1>5. CASE UNCHANGED fate
  BY <1>5
<1>6. ASSUME ~ \E u \in Txs : Land(u), ~ \E u \in Sends : Lapse(u),
             ~ \E p \in Submitters : Broadcast(p) \/ BroadcastThrows(p)
      PROVE  UNCHANGED fate
  <2>1. CASE UNCHANGED vars
    BY <2>1 DEF vars
  <2>2. CASE (\E u \in Txs : Unheard(u)) \/ \E u \in Sends : Prepare(u) \/ GrowOld(u)
    BY <2>2 DEF Unheard, Prepare, GrowOld
  <2>3. ASSUME NEW p \in Submitters, (\E u \in Sends : Submit(p, u)) \/ WriteRow(p) \/ EraseIntent(p)
        PROVE  UNCHANGED fate
    BY <2>3 DEF Submit, WriteRow, EraseIntent
  <2>4. ASSUME NEW p \in Procs, Tail(p) \/ (\E u \in Txs : Deliver(p, u)) \/ HookThrows(p) \/ Die(p)
        PROVE  UNCHANGED fate
    BY <2>4 DEF Tail, Correlate, Upsert, Mark, Deliver, HookThrows, Die
  <2>5. ASSUME NEW p \in Replayers, Sweep(p) \/ RepairOne(p) \/ NextTransfer(p) PROVE UNCHANGED fate
    BY <2>5 DEF Sweep, RepairOne, Repair, Replay, NextTransfer
  <2>6. ASSUME NEW p \in Tickers, Tick(p) PROVE UNCHANGED fate
    BY <2>6 DEF Tick, TickSelect, TickAsk, TickSettle
  <2>7. ASSUME NEW p \in Completers, (\E u \in Txs : RecordPayment(p, u)) \/ LinkTransfer(p)
        PROVE  UNCHANGED fate
    BY <2>7 DEF RecordPayment, LinkTransfer
  <2> QED
    BY <1>6, <2>1, <2>2, <2>3, <2>4, <2>5, <2>6, <2>7, Roles DEF Next, Replaying
<1> QED
  BY <1>2, <1>3, <1>4, <1>5, <1>6

LEMMA TablesStep ==
  FeedInv /\ HandsTyped /\ TablesTyped /\ [Next]_vars => TablesTyped'
<1> SUFFICES ASSUME FeedInv, HandsTyped, TablesTyped, [Next]_vars PROVE TablesTyped'
  OBVIOUS
<1> USE DEF TablesTyped
<1>1. ASSUME kind' = kind PROVE Sends' = Sends /\ Pays' = Pays /\ kind' \in Mixes
  BY <1>1 DEF Sends, Pays
\* A step that touches none of the tables but paid's transactions.
<1>2. ASSUME UNCHANGED <<kind, lapsed, prepared, paid, claims, acked>>, fails' \in 0..MaxFails
      PROVE  TablesTyped'
  BY <1>1, <1>2, LandedStays DEF Pays
<1>3. ASSUME NEW t \in Txs, Land(t) \/ Unheard(t) PROVE TablesTyped'
  BY <1>1, <1>3, LandedStays DEF Land, Unheard, Pays
<1>4. ASSUME NEW t \in Sends, Prepare(t) \/ Lapse(t) \/ GrowOld(t) PROVE TablesTyped'
  BY <1>1, <1>4, LandedStays DEF Prepare, Lapse, GrowOld, Pays
<1>5. ASSUME NEW p \in Submitters,
             \/ \E t \in Sends : Submit(p, t)
             \/ Broadcast(p) \/ BroadcastThrows(p) \/ WriteRow(p)
      PROVE  TablesTyped'
  <2>1. fails' \in 0..MaxFails
    BY <1>5, FailHolds DEF Submit, Broadcast, BroadcastThrows, WriteRow
  <2> QED
    BY <1>2, <1>5, <2>1 DEF Submit, Broadcast, BroadcastThrows, WriteRow
<1>6. ASSUME NEW p \in Submitters, EraseIntent(p) PROVE TablesTyped'
  BY <1>1, <1>6, LandedStays DEF EraseIntent, Pays
<1>7. ASSUME NEW p \in Tailers, Tail(p) PROVE TablesTyped'
  <2>1. CASE Correlate(p) \/ Upsert(p)
    BY <1>2, <2>1 DEF Correlate, Upsert
  <2>2. CASE Mark(p)
    <3>1. on[p] \in Txs
      BY <2>2, Roles DEF Mark, HandsTyped
    <3> QED
      BY <1>1, <2>2, <3>1, LandedStays DEF Mark, Pays
  <2> QED
    BY <1>7, <2>1, <2>2 DEF Tail
<1>8. ASSUME NEW p \in Hooks, (\E t \in Txs : Deliver(p, t)) \/ HookThrows(p) PROVE TablesTyped'
  BY <1>1, <1>8, LandedStays, FailHolds DEF Deliver, HookThrows, Pays
<1>9. ASSUME NEW p \in Replayers, Sweep(p) \/ RepairOne(p) \/ NextTransfer(p) PROVE TablesTyped'
  <2>1. fails' \in 0..MaxFails
    BY <1>9, FailHolds DEF Sweep, RepairOne, Repair, Replay, NextTransfer
  <2> QED
    BY <1>2, <1>9, <2>1 DEF Sweep, RepairOne, Repair, Replay, NextTransfer
<1>10. ASSUME NEW p \in Tickers, Tick(p) PROVE TablesTyped'
  BY <1>2, <1>10 DEF Tick, TickSelect, TickAsk, TickSettle
<1>11. ASSUME NEW p \in Completers, (\E t \in Txs : RecordPayment(p, t)) \/ LinkTransfer(p)
       PROVE  TablesTyped'
  <2>1. CASE LinkTransfer(p)
    BY <1>2, <2>1 DEF LinkTransfer
  <2>2. ASSUME NEW t \in Txs, RecordPayment(p, t) PROVE TablesTyped'
    BY <1>1, <2>2, LandedStays DEF RecordPayment, Settled, Pays
  <2> QED
    BY <1>11, <2>1, <2>2
<1>12. ASSUME NEW p \in Procs, Die(p) PROVE TablesTyped'
  BY <1>2, <1>12, FailHolds DEF Die
<1>13. CASE UNCHANGED vars
  BY <1>2, <1>13 DEF vars
<1> QED
  BY <1>3, <1>4, <1>5, <1>6, <1>7, <1>8, <1>9, <1>10, <1>11, <1>12, <1>13, Roles DEF Next, Replaying

LEMMA HandsStep == FeedInv /\ HandsTyped /\ [Next]_vars => HandsTyped'
<1> SUFFICES ASSUME FeedInv, HandsTyped, [Next]_vars PROVE HandsTyped'
  OBVIOUS
<1>1. FeedTypes
  BY DEF FeedInv
<1>2. ASSUME UNCHANGED <<pc, on>> PROVE HandsTyped'
  BY <1>2 DEF HandsTyped
<1>3. ASSUME NEW p \in Procs, NEW from \in Points \ {"idle", "next"}, NEW to \in Points, Step(p, from, to)
      PROVE  HandsTyped'
  BY <1>1, <1>3, StepMoves DEF HandsTyped
<1>4. ASSUME NEW p \in Procs, NEW to \in Points, NEW t \in Txs, Begin(p, to, t) PROVE HandsTyped'
  BY <1>1, <1>4, BeginMoves DEF HandsTyped
<1>5. ASSUME NEW p \in Procs, Finish(p) PROVE HandsTyped'
  BY <1>1, <1>5, FinishMoves DEF HandsTyped
<1>6. CASE \/ \E t \in Txs : Land(t) \/ Unheard(t)
           \/ \E t \in Sends : Prepare(t) \/ Lapse(t) \/ GrowOld(t)
  BY <1>2, <1>6 DEF Land, Unheard, Prepare, Lapse, GrowOld
<1>7. ASSUME NEW p \in Submitters,
             \/ \E t \in Sends : Submit(p, t)
             \/ Broadcast(p) \/ BroadcastThrows(p) \/ WriteRow(p) \/ EraseIntent(p)
      PROVE  HandsTyped'
  BY <1>3, <1>4, <1>5, <1>7, Roles
  DEF Submit, Broadcast, BroadcastThrows, WriteRow, EraseIntent, Points
<1>8. ASSUME NEW p \in Tailers, Tail(p) PROVE HandsTyped'
  BY <1>3, <1>5, <1>8, Roles DEF Tail, Correlate, Upsert, Mark, Points
<1>9. ASSUME NEW p \in Hooks, (\E t \in Txs : Deliver(p, t)) \/ HookThrows(p) PROVE HandsTyped'
  BY <1>2, <1>4, <1>5, <1>9, Roles DEF Deliver, HookThrows, Points
<1>10. ASSUME NEW p \in Replayers, Sweep(p) \/ RepairOne(p) PROVE HandsTyped'
  <2>1. Begin(p, "next", None)
    BY <1>10 DEF Sweep, RepairOne, Repair, Replay
  <2> QED
    BY <1>1, <2>1, BeginMoves, Roles DEF HandsTyped, Points
<1>11. ASSUME NEW p \in Replayers, NextTransfer(p) PROVE HandsTyped'
  <2>1. CASE Finish(p)
    BY <1>5, <2>1, Roles
  <2>2. CASE UNCHANGED <<pc, on>>
    BY <1>2, <2>2
  <2>3. ASSUME NEW t \in todo[p], pc' = [pc EXCEPT ![p] = "correlate"], on' = [on EXCEPT ![p] = t]
        PROVE  HandsTyped'
    <3>1. t \in Txs
      BY <1>1, Roles DEF FeedTypes
    <3> QED
      BY <1>1, <2>3, <3>1, Roles DEF FeedTypes, HandsTyped
  <2> QED
    BY <1>11, <2>1, <2>2, <2>3 DEF NextTransfer
<1>12. ASSUME NEW p \in Tickers, Tick(p) PROVE HandsTyped'
  BY <1>3, <1>4, <1>5, <1>12, Roles DEF Tick, TickSelect, TickAsk, TickSettle, Points
<1>13. ASSUME NEW p \in Completers, (\E t \in Txs : RecordPayment(p, t)) \/ LinkTransfer(p)
       PROVE  HandsTyped'
  BY <1>4, <1>5, <1>13, Roles DEF RecordPayment, LinkTransfer, Points
<1>14. ASSUME NEW p \in Procs, Die(p) PROVE HandsTyped'
  BY <1>5, <1>14 DEF Die
<1>15. CASE UNCHANGED vars
  BY <1>2, <1>15 DEF vars
<1> QED
  BY <1>6, <1>7, <1>8, <1>9, <1>10, <1>11, <1>12, <1>13, <1>14, <1>15, Roles DEF Next, Replaying

LEMMA LandedCounted ==
  /\ IsFiniteSet(LandedTxs) /\ Cardinality(LandedTxs) \in Nat
  /\ Cardinality(Txs) \in Nat /\ Cardinality(LandedTxs) <= Cardinality(Txs)
<1>1. LandedTxs \in SUBSET Txs
  BY DEF LandedTxs
<1> QED
  BY <1>1, ConstantsAssumption, FS_CardinalityType, FS_Subset

\* The tip is the highest slot taken.
LEMMA TipIsHighest ==
  ASSUME SlotsTyped, Txs # {}
  PROVE  Tip \in Nat /\ Tip <= Cardinality(LandedTxs) /\ \A t \in Txs : slot[t] <= Tip
<1>1. PICK t \in Txs : \A u \in Txs : slot[u] <= slot[t]
  BY DEF SlotsTyped
<1>2. slot[t] \in Slots
  BY LandedCounted DEF SlotsTyped, Slots
<1>3. Tip \in Slots /\ Tip \in {slot[u] : u \in Txs} /\ \A u \in Txs : slot[u] <= Tip
  BY <1>1, <1>2 DEF Tip
<1> QED
  BY <1>3 DEF SlotsTyped

\* A slot is written by a landing, above or beside the highest; nothing else moves one.
LEMMA LandTakesASlot ==
  ASSUME FeedInv, SlotsTyped, NEW t \in Txs, Land(t)
  PROVE  /\ SlotsTyped' /\ fate[t] # "landed" /\ row' = row /\ bookmark' = bookmark
         /\ \A u \in Txs \ {t} : slot'[u] = slot[u] /\ fate'[u] = fate[u]
<1>1. fate \in [Txs -> Fates] /\ slot \in [Txs -> Nat]
  BY DEF FeedInv, FeedTypes, SlotsTyped
<1>2. fate[t] # "landed" /\ t \notin LandedTxs /\ row' = row /\ bookmark' = bookmark
  BY DEF Land, LandedTxs
<1>3. CASE fate' = [fate EXCEPT ![t] = "errored"] /\ UNCHANGED slot
  <2>1. LandedTxs' = LandedTxs
    BY <1>1, <1>2, <1>3 DEF LandedTxs
  <2> QED
    BY <1>1, <1>2, <1>3, <2>1 DEF SlotsTyped
<1>4. ASSUME NEW n \in {Tip, Tip + 1} \ {0}, fate' = [fate EXCEPT ![t] = "landed"],
             slot' = [slot EXCEPT ![t] = n]
      PROVE  SlotsTyped' /\ \A u \in Txs \ {t} : slot'[u] = slot[u] /\ fate'[u] = fate[u]
  <2>1. LandedTxs' = LandedTxs \cup {t}
    BY <1>1, <1>4 DEF LandedTxs
  <2>2. Cardinality(LandedTxs') = Cardinality(LandedTxs) + 1
    BY <1>2, <2>1, LandedCounted, FS_AddElement
  <2>3. /\ Tip \in Nat /\ Tip <= Cardinality(LandedTxs) /\ Cardinality(LandedTxs) \in Nat
        /\ \A u \in Txs : slot[u] <= Tip
    BY TipIsHighest, LandedCounted
  <2> HIDE DEF Tip
  <2>4. /\ n \in Nat /\ Tip <= n /\ n <= Cardinality(LandedTxs')
        /\ slot' \in [Txs -> Nat] /\ slot'[t] = n /\ \A u \in Txs \ {t} : slot'[u] = slot[u]
    BY <1>1, <1>4, <2>2, <2>3
  <2>5. \A u \in Txs : slot'[u] <= n
    BY <1>1, <2>3, <2>4
  <2> QED
    BY <1>1, <1>4, <2>4, <2>5, <2>2, <2>3 DEF SlotsTyped
<1> QED
  BY <1>1, <1>2, <1>3, <1>4 DEF Land

LEMMA SlotsKept ==
  ASSUME FeedInv, [Next]_vars, ~ \E t \in Txs : Land(t) PROVE slot' = slot
<1>1. CASE UNCHANGED vars
  BY <1>1 DEF vars
<1>2. CASE (\E u \in Txs : Unheard(u)) \/ \E u \in Sends : Prepare(u) \/ Lapse(u) \/ GrowOld(u)
  BY <1>2 DEF Unheard, Prepare, Lapse, GrowOld
<1>3. ASSUME NEW p \in Submitters,
             \/ \E u \in Sends : Submit(p, u)
             \/ Broadcast(p) \/ BroadcastThrows(p) \/ WriteRow(p) \/ EraseIntent(p)
      PROVE  slot' = slot
  BY <1>3 DEF Submit, Broadcast, BroadcastThrows, WriteRow, EraseIntent
<1>4. ASSUME NEW p \in Procs, Tail(p) \/ (\E u \in Txs : Deliver(p, u)) \/ HookThrows(p) \/ Die(p)
      PROVE  slot' = slot
  BY <1>4 DEF Tail, Correlate, Upsert, Mark, Deliver, HookThrows, Die
<1>5. ASSUME NEW p \in Replayers, Sweep(p) \/ RepairOne(p) \/ NextTransfer(p) PROVE slot' = slot
  BY <1>5 DEF Sweep, RepairOne, Repair, Replay, NextTransfer
<1>6. ASSUME NEW p \in Tickers, Tick(p) PROVE slot' = slot
  BY <1>6 DEF Tick, TickSelect, TickAsk, TickSettle
<1>7. ASSUME NEW p \in Completers, (\E u \in Txs : RecordPayment(p, u)) \/ LinkTransfer(p)
      PROVE  slot' = slot
  BY <1>7 DEF RecordPayment, LinkTransfer
<1> QED
  BY <1>1, <1>2, <1>3, <1>4, <1>5, <1>6, <1>7, Roles DEF Next, Replaying

LEMMA SlotsStep == FeedInv /\ SlotsTyped /\ [Next]_vars => SlotsTyped'
<1> SUFFICES ASSUME FeedInv, SlotsTyped, [Next]_vars PROVE SlotsTyped'
  OBVIOUS
<1>1. CASE \E t \in Txs : Land(t)
  BY <1>1, LandTakesASlot
<1>2. CASE ~ \E t \in Txs : Land(t)
  <2>1. slot' = slot
    BY <1>2, SlotsKept
  <2>2. LandedTxs \subseteq LandedTxs' /\ IsFiniteSet(Txs) /\ LandedTxs' \in SUBSET Txs
    BY LandedStays, ConstantsAssumption DEF LandedTxs
  <2>3. IsFiniteSet(LandedTxs')
    BY <2>2, FS_Subset
  <2>4. /\ Cardinality(LandedTxs) <= Cardinality(LandedTxs')
        /\ Cardinality(LandedTxs) \in Nat /\ Cardinality(LandedTxs') \in Nat
    BY <2>2, <2>3, FS_Subset, FS_CardinalityType, LandedCounted
  <2> QED
    BY <2>1, <2>4 DEF SlotsTyped
<1> QED
  BY <1>1, <1>2

-----------------------------------------------------------------------------
(* The bookmark *)

Shown(t) == row[t] # None /\ row[t].status = "CONFIRMED"

\* The bookmark is where some transaction landed that Activity already shows:
\* upsertConfirmedTransfer writes the row before it moves last_indexed_slot, so a
\* handler that dies between the two leaves the bookmark behind the row.
BookmarkRests ==
  bookmark = 0 \/ \E t \in Txs : fate[t] = "landed" /\ Shown(t) /\ slot[t] = bookmark

MarkersWrote == \A p \in Tailers : pc[p] = "mark" => Shown(on[p])

\* No write takes a row away.
LEMMA RowsStay ==
  ASSUME FeedInv, [Next]_vars, NEW t \in Txs, row[t] # None
  PROVE  row'[t] # None
<1>1. row \in [Txs -> Rows \cup {None}] /\ None \notin Rows
  BY ConstantsAssumption DEF FeedInv, FeedTypes
<1>2. row' \in [Txs -> Rows \cup {None}]
  BY NextFeed DEF FeedInv, FeedTypes
<1>3. CASE UNCHANGED row
  BY <1>3
<1>4. ASSUME NEW u, NEW w, w # None, row' = [row EXCEPT ![u] = w] PROVE row'[t] # None
  BY <1>1, <1>4
<1>5. ASSUME NEW p \in Submitters, WriteRow(p) PROVE row'[t] # None
  <2> DEFINE w == IF row[on[p]] = None THEN [status |-> "PENDING", intent |-> TRUE, linked |-> FALSE]
                  ELSE [row[on[p]] EXCEPT !.status = Kept(row[on[p]].status, "PENDING"), !.intent = TRUE]
  <2>1. row' = [row EXCEPT ![on[p]] = w]
    BY <1>5 DEF WriteRow
  <2>2. CASE on[p] # t
    BY <1>1, <2>1, <2>2
  <2>3. CASE on[p] = t
    <3>1. w \in Rows
      BY <1>1, <2>3 DEF Rows, Final, Kept
    <3> QED
      BY <1>1, <2>1, <3>1, <1>4
  <2> QED
    BY <2>2, <2>3
<1>6. ASSUME NEW p \in Tailers, Upsert(p) PROVE row'[t] # None
  <2> DEFINE s == Kept(row[on[p]].status, "CONFIRMED")
             b == row[on[p]].linked \/ link[p]
  <2>1. CASE on[p] # t
    BY <1>1, <1>6, <2>1 DEF Upsert
  <2>2. CASE on[p] = t
    <3>1. row'[t] = [row[t] EXCEPT !.status = s, !.linked = b] /\ row[t] \in Rows
      BY <1>1, <1>6, <2>2 DEF Upsert
    <3>2. s \in {"PENDING"} \cup Final /\ b \in BOOLEAN
      BY DEF Kept, Final
    <3> HIDE DEF s, b
    <3>3. row'[t] \in Rows
      BY <3>1, <3>2 DEF Rows
    <3> QED
      BY <1>1, <3>3
  <2> QED
    BY <2>1, <2>2
<1>7. ASSUME NEW p \in Tickers, TickSettle(p) PROVE row'[t] # None
  <2> DEFINE to == IF verdict[p] = "landed" THEN "CONFIRMED"
                   ELSE IF verdict[p] = "errored" \/ expired[p] THEN "FAILED" ELSE "PENDING"
  <2>1. row' = IF Pending(on[p]) THEN [row EXCEPT ![on[p]].status = to] ELSE row
    BY <1>7 DEF TickSettle
  <2>2. to \in {"PENDING"} \cup Final
    BY DEF Final
  <2> HIDE DEF to
  <2>3. [row[t] EXCEPT !.status = to] \in Rows
    BY <1>1, <2>2 DEF Rows
  <2> QED
    BY <1>1, <2>1, <2>3
<1>8. ASSUME NEW p \in Completers, LinkTransfer(p) PROVE row'[t] # None
  <2>1. [row[t] EXCEPT !.linked = TRUE] \in Rows
    BY <1>1 DEF Rows
  <2> QED
    BY <1>1, <1>8, <2>1 DEF LinkTransfer
<1>9. ASSUME ~ \E p \in Submitters : WriteRow(p), ~ \E p \in Tailers : Upsert(p),
             ~ \E p \in Tickers : TickSettle(p), ~ \E p \in Completers : LinkTransfer(p)
      PROVE  UNCHANGED row
  <2>1. CASE UNCHANGED vars
    BY <2>1 DEF vars
  <2>2. CASE \/ \E u \in Txs : Land(u) \/ Unheard(u)
             \/ \E u \in Sends : Prepare(u) \/ Lapse(u) \/ GrowOld(u)
    BY <2>2 DEF Land, Unheard, Prepare, Lapse, GrowOld
  <2>3. ASSUME NEW p \in Submitters,
               (\E u \in Sends : Submit(p, u)) \/ Broadcast(p) \/ BroadcastThrows(p) \/ EraseIntent(p)
        PROVE  UNCHANGED row
    BY <2>3 DEF Submit, Broadcast, BroadcastThrows, EraseIntent
  <2>4. ASSUME NEW p \in Procs,
               Correlate(p) \/ Mark(p) \/ (\E u \in Txs : Deliver(p, u)) \/ HookThrows(p) \/ Die(p)
        PROVE  UNCHANGED row
    BY <2>4 DEF Correlate, Mark, Deliver, HookThrows, Die
  <2>5. ASSUME NEW p \in Replayers, Sweep(p) \/ RepairOne(p) \/ NextTransfer(p) PROVE UNCHANGED row
    BY <2>5 DEF Sweep, RepairOne, Repair, Replay, NextTransfer
  <2>6. ASSUME NEW p \in Tickers, (\E u \in Sends : TickSelect(p, u)) \/ TickAsk(p) PROVE UNCHANGED row
    BY <2>6 DEF TickSelect, TickAsk
  <2>7. ASSUME NEW p \in Completers, \E u \in Txs : RecordPayment(p, u) PROVE UNCHANGED row
    BY <2>7 DEF RecordPayment
  <2> QED
    BY <1>9, <2>1, <2>2, <2>3, <2>4, <2>5, <2>6, <2>7, Roles DEF Next, Replaying, Tail, Tick
<1> QED
  BY <1>3, <1>5, <1>6, <1>7, <1>8, <1>9

LEMMA ShownStays ==
  ASSUME FeedInv, [Next]_vars, NEW t \in Txs, Shown(t)
  PROVE  Shown(t)'
  BY RowsStay, NextFeed DEF Shown, FinalStays, Final

\* What a tailer wrote is there when it moves the bookmark.
LEMMA MarkersStep == FeedInv /\ HandsTyped /\ MarkersWrote /\ [Next]_vars => MarkersWrote'
<1> SUFFICES ASSUME FeedInv, HandsTyped, MarkersWrote, [Next]_vars,
                    NEW q \in Tailers, pc'[q] = "mark"
             PROVE  Shown(on[q])' 
  BY DEF MarkersWrote
<1>1. FeedTypes /\ q \in Procs
  BY Roles DEF FeedInv
<1>2. CASE pc[q] = "mark" /\ on'[q] = on[q]
  <2>1. on[q] \in Txs
    BY <1>1, <1>2 DEF HandsTyped
  <2>2. row'[on[q]] # None /\ row'[on[q]].status = "CONFIRMED"
    BY <1>2, <2>1, ShownStays DEF MarkersWrote, Shown
  <2> QED
    BY <1>2, <2>2 DEF Shown
<1>3. CASE Upsert(q)
  <2> DEFINE t == on[q]
  <2>1. pc[q] = "upsert" /\ on' = on
    BY <1>3 DEF Upsert, Step
  <2>2. t \in Txs /\ fate[t] = "landed" /\ RowTrue(t) /\ row \in [Txs -> Rows \cup {None}]
    BY <1>1, <2>1 DEF FeedInv, FeedTypes, HandTrue
  <2>3. row'[t] # None
    <3>1. CASE row[t] # None
      BY <2>2, <3>1, RowsStay
    <3>2. CASE row[t] = None
      <4>1. row'[t] \in Rows
        BY <1>1, <1>3, <2>2, <3>2 DEF Upsert, Rows, Final, FeedTypes
      <4> QED
        BY <4>1, ConstantsAssumption
    <3> QED
      BY <3>1, <3>2
  <2>4. row'[t].status = "CONFIRMED"
    <3>1. CASE row[t] = None
      BY <1>3, <2>2, <3>1 DEF Upsert
    <3>2. CASE row[t] # None
      <4>1. row[t] \in Rows /\ row[t].status # "FAILED"
        BY <2>2, <3>2 DEF RowTrue
      <4>2. row'[t].status = Kept(row[t].status, "CONFIRMED")
        BY <1>3, <2>2, <3>2, <4>1 DEF Upsert, Rows
      <4> QED
        BY <4>1, <4>2 DEF Kept, Final
    <3> QED
      BY <3>1, <3>2
  <2> QED
    BY <2>1, <2>3, <2>4 DEF Shown
<1>4. ~ (pc[q] = "mark" /\ on'[q] = on[q]) => Upsert(q)
  <2> SUFFICES ASSUME ~ (pc[q] = "mark" /\ on'[q] = on[q]) PROVE Upsert(q)
    OBVIOUS
  <2>1. ASSUME NEW p \in Procs, NEW from, NEW to \in Points \ {"mark"}, Step(p, from, to) PROVE FALSE
    BY <1>1, <2>1, StepMoves
  <2>2. ASSUME NEW p \in Procs, NEW to \in Points \ {"mark"}, NEW t \in Txs \cup {None}, Begin(p, to, t)
        PROVE  FALSE
    BY <1>1, <2>2, BeginMoves
  <2>3. ASSUME NEW p \in Procs, Finish(p) PROVE FALSE
    BY <1>1, <2>3, FinishMoves
  <2>4. UNCHANGED <<pc, on>> => FALSE
    OBVIOUS
  <2>5. CASE \/ UNCHANGED vars
             \/ \E t \in Txs : Land(t) \/ Unheard(t)
             \/ \E t \in Sends : Prepare(t) \/ Lapse(t) \/ GrowOld(t)
    BY <2>4, <2>5 DEF vars, Land, Unheard, Prepare, Lapse, GrowOld
  <2>6. ASSUME NEW p \in Submitters,
               \/ \E t \in Sends : Submit(p, t)
               \/ Broadcast(p) \/ BroadcastThrows(p) \/ WriteRow(p) \/ EraseIntent(p)
        PROVE  FALSE
    BY <2>1, <2>2, <2>3, <2>6, Roles
    DEF Submit, Broadcast, BroadcastThrows, WriteRow, EraseIntent, Points
  <2>7. ASSUME NEW p \in Tailers, Correlate(p) \/ Mark(p) PROVE FALSE
    BY <2>1, <2>3, <2>7, Roles DEF Correlate, Mark, Points
  <2>8. ASSUME NEW p \in Tailers \ {q}, Upsert(p) PROVE FALSE
    BY <1>1, <2>8, StepMoves, Roles DEF Upsert, Points
  <2>9. ASSUME NEW p \in Hooks, (\E t \in Txs : Deliver(p, t)) \/ HookThrows(p) PROVE FALSE
    BY <2>2, <2>3, <2>4, <2>9, Roles DEF Deliver, HookThrows, Points
  <2>10. ASSUME NEW p \in Replayers, Sweep(p) \/ RepairOne(p) PROVE FALSE
    BY <2>2, <2>10, Roles DEF Sweep, RepairOne, Repair, Replay, Points
  <2>11. ASSUME NEW p \in Replayers, NextTransfer(p) PROVE FALSE
    BY <1>1, <2>3, <2>4, <2>11, Roles DEF NextTransfer, FeedTypes
  <2>12. ASSUME NEW p \in Tickers, Tick(p) PROVE FALSE
    BY <2>1, <2>2, <2>3, <2>12, Roles DEF Tick, TickSelect, TickAsk, TickSettle, Points
  <2>13. ASSUME NEW p \in Completers, (\E t \in Txs : RecordPayment(p, t)) \/ LinkTransfer(p)
         PROVE  FALSE
    BY <2>2, <2>3, <2>13, Roles DEF RecordPayment, LinkTransfer, Points
  <2>14. ASSUME NEW p \in Procs, Die(p) PROVE FALSE
    BY <2>3, <2>14 DEF Die
  <2> QED
    BY <2>5, <2>6, <2>7, <2>8, <2>9, <2>10, <2>11, <2>12, <2>13, <2>14, Roles
    DEF Next, Replaying, Tail
<1> QED
  BY <1>2, <1>3, <1>4

\* Only a mark writes the bookmark.
LEMMA BookmarkWritten ==
  ASSUME [Next]_vars, ~ \E p \in Tailers : Mark(p)
  PROVE  bookmark' = bookmark
<1>1. CASE UNCHANGED vars
  BY <1>1 DEF vars
<1>2. CASE \/ \E u \in Txs : Land(u) \/ Unheard(u)
           \/ \E u \in Sends : Prepare(u) \/ Lapse(u) \/ GrowOld(u)
  BY <1>2 DEF Land, Unheard, Prepare, Lapse, GrowOld
<1>3. ASSUME NEW p \in Submitters,
             \/ \E u \in Sends : Submit(p, u)
             \/ Broadcast(p) \/ BroadcastThrows(p) \/ WriteRow(p) \/ EraseIntent(p)
      PROVE  bookmark' = bookmark
  BY <1>3 DEF Submit, Broadcast, BroadcastThrows, WriteRow, EraseIntent
<1>4. ASSUME NEW p \in Procs,
             Correlate(p) \/ Upsert(p) \/ (\E u \in Txs : Deliver(p, u)) \/ HookThrows(p) \/ Die(p)
      PROVE  bookmark' = bookmark
  BY <1>4 DEF Correlate, Upsert, Deliver, HookThrows, Die
<1>5. ASSUME NEW p \in Replayers, Sweep(p) \/ RepairOne(p) \/ NextTransfer(p) PROVE bookmark' = bookmark
  BY <1>5 DEF Sweep, RepairOne, Repair, Replay, NextTransfer
<1>6. ASSUME NEW p \in Tickers, Tick(p) PROVE bookmark' = bookmark
  BY <1>6 DEF Tick, TickSelect, TickAsk, TickSettle
<1>7. ASSUME NEW p \in Completers, (\E u \in Txs : RecordPayment(p, u)) \/ LinkTransfer(p)
      PROVE  bookmark' = bookmark
  BY <1>7 DEF RecordPayment, LinkTransfer
<1> QED
  BY <1>1, <1>2, <1>3, <1>4, <1>5, <1>6, <1>7, Roles DEF Next, Replaying, Tail

LEMMA BookmarkStep ==
  FeedInv /\ HandsTyped /\ SlotsTyped /\ MarkersWrote /\ BookmarkRests /\ [Next]_vars
  => BookmarkRests'
<1> SUFFICES ASSUME FeedInv, HandsTyped, SlotsTyped, MarkersWrote, BookmarkRests, [Next]_vars
             PROVE  BookmarkRests'
  OBVIOUS
\* Where a transaction landed stays.
<1>1. ASSUME NEW t \in Txs, fate[t] = "landed" PROVE fate'[t] = "landed" /\ slot'[t] = slot[t]
  <2>1. CASE \E u \in Txs : Land(u)
    BY <1>1, <2>1, LandTakesASlot, LandedStays
  <2>2. CASE ~ \E u \in Txs : Land(u)
    BY <1>1, <2>2, SlotsKept, LandedStays
  <2> QED
    BY <2>1, <2>2
<1>2. CASE bookmark' = bookmark
  BY <1>1, <1>2, ShownStays DEF BookmarkRests
<1>3. ASSUME NEW p \in Tailers, Mark(p), bookmark' # bookmark PROVE BookmarkRests'
  <2>1. pc[p] = "mark" /\ bookmark' = slot[on[p]]
    BY <1>3 DEF Mark
  <2>2. on[p] \in Txs /\ fate[on[p]] = "landed" /\ Shown(on[p])
    BY <2>1, Roles DEF FeedInv, HandTrue, MarkersWrote
  <2>3. Shown(on[p]) => row'[on[p]] # None /\ row'[on[p]].status = "CONFIRMED"
    BY <1>3 DEF Mark, Shown
  <2> QED
    BY <1>1, <2>1, <2>2, <2>3 DEF BookmarkRests, Shown
<1> QED
  BY <1>2, <1>3, BookmarkWritten

FullInv ==
  FeedInv /\ TablesTyped /\ HandsTyped /\ SlotsTyped /\ MarkersWrote /\ BookmarkRests

LEMMA InitFull == Init => FullInv
<1> SUFFICES ASSUME Init PROVE FullInv
  OBVIOUS
<1>1. LandedTxs = {} /\ Cardinality(LandedTxs) = 0
  BY FS_EmptySet DEF Init, LandedTxs
<1>2. SlotsTyped
  BY <1>1 DEF Init, SlotsTyped
<1>3. TablesTyped
  BY ConstantsAssumption DEF Init, TablesTyped
<1>4. HandsTyped /\ MarkersWrote /\ BookmarkRests
  BY Roles DEF Init, HandsTyped, MarkersWrote, BookmarkRests
<1> QED
  BY <1>2, <1>3, <1>4, InitFeed DEF FullInv

LEMMA AlwaysFull == Spec => []FullInv
<1>1. FullInv /\ [Next]_vars => FullInv'
  BY NextFeed, TablesStep, HandsStep, SlotsStep, MarkersStep, BookmarkStep DEF FullInv
<1> QED
  BY <1>1, InitFull, PTL DEF Spec

\* Every table of the feed, what its handlers hold and where the chain has got to stay
\* what their columns allow; a slot never exceeds the number of transactions that
\* landed, nor the bookmark the slots (tailer_state, transfers).
THEOREM TypeCorrect == Spec => []TypeOK
<1>1. FullInv => TypeOK
  <2> SUFFICES ASSUME FullInv PROVE TypeOK
    OBVIOUS
  <2> USE DEF FullInv
  <2>1. slot \in [Txs -> Slots]
    <3>1. \A t \in Txs : slot[t] \in Nat /\ slot[t] <= Cardinality(Txs)
      BY LandedCounted DEF SlotsTyped
    <3> QED
      BY <3>1, LandedCounted DEF SlotsTyped, Slots
  <2>2. bookmark \in Slots
    BY <2>1, LandedCounted DEF BookmarkRests, Slots
  <2>3. \A p \in Procs : pc[p] \notin {"idle", "next"} => on[p] # None
    BY Roles DEF HandsTyped
  <2> QED
    BY <2>1, <2>2, <2>3 DEF TypeOK, FeedInv, FeedTypes, TablesTyped, Fates, Points
<1> QED
  BY <1>1, AlwaysFull, PTL

\* The bookmark never runs ahead of Activity: it is where a transaction landed that
\* has its row, CONFIRMED, whichever of webhook and replay moved it and wherever one
\* of them died (tailer.service.ts, tailer_state.last_indexed_slot).  What a replay
\* from the bookmark may miss is what lies below it, which is why a repair starts
\* at its own payment.
THEOREM BookmarkFollowsTheRows == Spec => []BookmarkRests
<1>1. FullInv => BookmarkRests
  BY DEF FullInv
<1> QED
  BY <1>1, AlwaysFull, PTL

-----------------------------------------------------------------------------
(* Links: what a tailer or a completion found paid is paid when it writes.   *)

LinkInv ==
  /\ \A q \in Tailers : link[q] => pc[q] = "upsert" /\ on[q] \in paid
  /\ \A q \in Completers : pc[q] = "link" => on[q] \in paid

\* What a step of p alone must show.
LEMMA LinkFrame ==
  ASSUME LinkInv, NEW p \in Procs, paid \subseteq paid',
         \A q \in Procs \ {p} : pc'[q] = pc[q] /\ on'[q] = on[q],
         \A q \in Tailers \ {p} : link'[q] = link[q],
         p \in Tailers /\ link'[p] => pc'[p] = "upsert" /\ on'[p] \in paid',
         p \in Completers /\ pc'[p] = "link" => on'[p] \in paid'
  PROVE  LinkInv'
  BY Roles DEF LinkInv

LEMMA LinkStep == FeedInv /\ LinkInv /\ [Next]_vars => LinkInv'
<1> SUFFICES ASSUME FeedInv, LinkInv, [Next]_vars PROVE LinkInv'
  OBVIOUS
<1>1. FeedTypes
  BY DEF FeedInv
<1>2. ASSUME UNCHANGED <<pc, on, link, paid>> PROVE LinkInv'
  BY <1>2 DEF LinkInv
<1>3. ASSUME NEW p \in Procs, NEW from \in Points \ {"upsert"}, NEW to \in Points \ {"link"},
             Step(p, from, to), UNCHANGED <<link, paid>>
      PROVE  LinkInv'
  BY <1>1, <1>3, StepMoves, LinkFrame DEF LinkInv
<1>4. ASSUME NEW p \in Procs, NEW to \in Points \ {"link"}, NEW t \in Txs \cup {None},
             Begin(p, to, t), UNCHANGED <<link, paid>>
      PROVE  LinkInv'
  <2>1. pc[p] = "idle"
    BY <1>4 DEF Begin
  <2> QED
    BY <1>1, <1>4, <2>1, BeginMoves, LinkFrame DEF LinkInv
<1>5. ASSUME NEW p \in Procs, Finish(p), pc[p] # "upsert", UNCHANGED <<link, paid>> PROVE LinkInv'
  BY <1>1, <1>5, FinishMoves, LinkFrame DEF LinkInv
<1>6. ASSUME NEW p \in Procs, Finish(p), Forget(p), UNCHANGED paid PROVE LinkInv'
  <2>1. \A q \in Tailers \ {p} : link'[q] = link[q]
    BY <1>1, <1>6 DEF Forget, FeedTypes
  <2>2. p \in Tailers => ~ link'[p]
    BY <1>1, <1>6 DEF Forget, FeedTypes
  <2> QED
    BY <1>1, <1>6, <2>1, <2>2, FinishMoves, LinkFrame
<1>7. CASE \/ \E t \in Txs : Land(t) \/ Unheard(t)
           \/ \E t \in Sends : Prepare(t) \/ Lapse(t) \/ GrowOld(t)
  BY <1>2, <1>7 DEF Land, Unheard, Prepare, Lapse, GrowOld
<1>8. ASSUME NEW p \in Submitters,
             \/ \E t \in Sends : Submit(p, t)
             \/ Broadcast(p) \/ BroadcastThrows(p) \/ WriteRow(p) \/ EraseIntent(p)
      PROVE  LinkInv'
  BY <1>3, <1>4, <1>5, <1>8, Roles
  DEF Submit, Broadcast, BroadcastThrows, WriteRow, EraseIntent, Points
<1>9. ASSUME NEW p \in Tailers, Correlate(p) PROVE LinkInv'
  <2>1. /\ pc'[p] = "upsert" /\ on' = on /\ paid' = paid
        /\ \A q \in Procs \ {p} : pc'[q] = pc[q]
    BY <1>1, <1>9, StepMoves, Roles DEF Correlate, Points
  <2>2. /\ link'[p] <=> on[p] \in paid
        /\ \A q \in Tailers \ {p} : link'[q] = link[q]
    BY <1>1, <1>9 DEF Correlate, FeedTypes
  <2> QED
    BY <2>1, <2>2, LinkFrame, Roles
<1>10. ASSUME NEW p \in Tailers, Upsert(p) PROVE LinkInv'
  <2>1. /\ pc'[p] = "mark" /\ on' = on /\ paid' = paid
        /\ \A q \in Procs \ {p} : pc'[q] = pc[q]
    BY <1>1, <1>10, StepMoves, Roles DEF Upsert, Points
  <2>2. ~ link'[p] /\ \A q \in Tailers \ {p} : link'[q] = link[q]
    BY <1>1, <1>10 DEF Upsert, FeedTypes
  <2> QED
    BY <2>1, <2>2, LinkFrame, Roles
<1>11. ASSUME NEW p \in Tailers, Mark(p) PROVE LinkInv'
  BY <1>3, <1>5, <1>11, Roles DEF Mark, Points
<1>12. ASSUME NEW p \in Hooks, (\E t \in Txs : Deliver(p, t)) \/ HookThrows(p) PROVE LinkInv'
  BY <1>2, <1>4, <1>6, <1>12, Roles DEF Deliver, HookThrows, Points
<1>13. ASSUME NEW p \in Replayers, Sweep(p) \/ RepairOne(p) PROVE LinkInv'
  <2>1. Begin(p, "next", None) /\ UNCHANGED <<link, paid>>
    BY <1>13 DEF Sweep, RepairOne, Repair, Replay
  <2> QED
    BY <1>4, <2>1, Roles DEF Points
<1>14. ASSUME NEW p \in Replayers, NextTransfer(p) PROVE LinkInv'
  <2>1. pc[p] = "next" /\ UNCHANGED <<link, paid>> /\ p \in Tailers /\ p \notin Completers
    BY <1>14, Roles DEF NextTransfer
  <2>2. ~ link[p] /\ link' = link
    BY <2>1 DEF LinkInv
  <2>3. CASE Finish(p)
    BY <1>5, <2>1, <2>3, Roles
  <2>4. CASE UNCHANGED <<pc, on>>
    BY <1>2, <2>1, <2>4
  <2>5. ASSUME NEW t \in todo[p], pc' = [pc EXCEPT ![p] = "correlate"], on' = [on EXCEPT ![p] = t]
        PROVE  LinkInv'
    <3>1. \A q \in Procs \ {p} : pc'[q] = pc[q] /\ on'[q] = on[q]
      BY <1>1, <2>5 DEF FeedTypes
    <3> QED
      BY <2>1, <2>2, <3>1, LinkFrame, Roles
  <2> QED
    BY <1>14, <2>3, <2>4, <2>5 DEF NextTransfer
<1>15. ASSUME NEW p \in Tickers, Tick(p) PROVE LinkInv'
  BY <1>3, <1>4, <1>6, <1>15, Roles DEF Tick, TickSelect, TickAsk, TickSettle, Points
<1>16. ASSUME NEW p \in Completers, NEW t \in Txs, RecordPayment(p, t) PROVE LinkInv'
  <2>1. Begin(p, "link", t) /\ paid' = paid \cup {t} /\ UNCHANGED link
    BY <1>16 DEF RecordPayment
  <2>2. p \notin Tailers /\ p \in Procs
    BY Roles
  <2> QED
    BY <1>1, <2>1, <2>2, BeginMoves, LinkFrame DEF Points
<1>17. ASSUME NEW p \in Completers, LinkTransfer(p) PROVE LinkInv'
  <2>1. Finish(p) /\ pc[p] = "link" /\ UNCHANGED <<link, paid>>
    BY <1>17 DEF LinkTransfer
  <2> QED
    BY <1>5, <2>1, Roles
<1>18. ASSUME NEW p \in Procs, Die(p) PROVE LinkInv'
  BY <1>6, <1>18 DEF Die
<1>19. CASE UNCHANGED vars
  BY <1>2, <1>19 DEF vars
<1> QED
  BY <1>7, <1>8, <1>9, <1>10, <1>11, <1>12, <1>13, <1>14, <1>15, <1>16, <1>17, <1>18, <1>19, Roles
  DEF Next, Replaying, Tail

-----------------------------------------------------------------------------
(* The promise *)

Status(t) == IF row[t] = None THEN "none" ELSE row[t].status
Linked == {t \in Txs : row[t] # None /\ row[t].linked}

\* A write of one row is the promise's, when it is true of the chain, leaves an end
\* as it is and links nothing but a settled Payment.
LEMMA WriteKeeps ==
  ASSUME FeedInv, NEW t \in Txs, NEW w \in Rows, row' = [row EXCEPT ![t] = w],
         UNCHANGED <<fate, slot, paid, bookmark>>,
         w.status = "CONFIRMED" => fate[t] = "landed",
         w.status = "FAILED" => fate[t] \in {"errored", "lost"},
         w.status = "PENDING" => fate[t] # "none",
         row[t] # None /\ row[t].status \in Final => w.status = row[t].status,
         row[t] # None /\ row[t].linked => w.linked,
         w.linked => t \in paid \/ (row[t] # None /\ row[t].linked)
  PROVE  Promise!Next
<1> DEFINE shown == [u \in Txs |-> IF row[u] = None THEN "none" ELSE row[u].status]
<1>1. row \in [Txs -> Rows \cup {None}] /\ w # None /\ w.status \in {"PENDING"} \cup Final
  BY ConstantsAssumption DEF FeedInv, FeedTypes, Rows
<1>2. row'[t] = w /\ \A u \in Txs \ {t} : row'[u] = row[u]
  BY <1>1
<1>3. shown' = [shown EXCEPT ![t] = w.status] /\ shown[t] = Status(t)
  BY <1>1, <1>2 DEF Status
<1>4. Linked' = Linked \/ (t \in paid /\ Linked' = Linked \cup {t})
  <2>1. \A u \in Txs \ {t} : u \in Linked' <=> u \in Linked
    BY <1>2 DEF Linked
  <2>2. t \in Linked' <=> w.linked
    BY <1>1, <1>2 DEF Linked
  <2>3. t \in Linked <=> row[t] # None /\ row[t].linked
    BY DEF Linked
  <2>4. Linked \subseteq Txs /\ Linked' \subseteq Txs
    BY DEF Linked
  <2>5. CASE w.linked
    BY <2>1, <2>2, <2>3, <2>4, <2>5
  <2>6. CASE ~ w.linked
    BY <2>1, <2>2, <2>3, <2>4, <2>6
  <2> QED
    BY <2>5, <2>6
<1>5. Promise!True(t, w.status)
  BY <1>1 DEF Promise!True, Final
<1>6. shown[t] \in Final => w.status = shown[t]
  BY DEF Final
<1> HIDE DEF shown
<1>7. Promise!Write(t, w.status)
  BY <1>3, <1>4, <1>5, <1>6 DEF Promise!Write, Promise!Final, Final, shown, Linked
<1> QED
  BY <1>1, <1>7 DEF Promise!Next, Final

LEMMA WriteRowKeeps ==
  ASSUME FeedInv, NEW p \in Submitters, WriteRow(p) PROVE Promise!Next
<1> DEFINE t == on[p]
           w == IF row[t] = None THEN [status |-> "PENDING", intent |-> TRUE, linked |-> FALSE]
                ELSE [row[t] EXCEPT !.status = Kept(row[t].status, "PENDING"), !.intent = TRUE]
<1>1. pc[p] = "write" /\ UNCHANGED <<fate, slot, paid, bookmark>> /\ row' = [row EXCEPT ![t] = w]
  BY DEF WriteRow, Step
<1>2. t \in Txs /\ fate[t] # "none" /\ RowTrue(t)
  BY <1>1, Roles DEF FeedInv, HandTrue
<1>3. row[t] = None \/ row[t] \in Rows
  BY <1>2 DEF FeedInv, FeedTypes
<1>4. w \in Rows
  BY <1>3 DEF Rows, Final, Kept
<1>5. row[t] # None => /\ w.linked = row[t].linked
                       /\ w.status = IF row[t].status \in Final THEN row[t].status ELSE "PENDING"
  BY <1>3 DEF Rows, Kept
<1>6. row[t] = None => w.status = "PENDING" /\ w.linked = FALSE
  OBVIOUS
<1> HIDE DEF t, w
<1> QED
  BY <1>1, <1>2, <1>4, <1>5, <1>6, WriteKeeps DEF RowTrue, Final

LEMMA UpsertKeeps ==
  ASSUME FeedInv, LinkInv, NEW p \in Tailers, Upsert(p) PROVE Promise!Next
<1> DEFINE t == on[p]
           w == IF row[t] = None THEN [status |-> "CONFIRMED", intent |-> FALSE, linked |-> link[p]]
                ELSE [row[t] EXCEPT !.status = Kept(row[t].status, "CONFIRMED"), !.linked = row[t].linked \/ link[p]]
<1>1. pc[p] = "upsert" /\ UNCHANGED <<fate, slot, paid, bookmark>> /\ row' = [row EXCEPT ![t] = w]
  BY DEF Upsert, Step
<1>2. t \in Txs /\ fate[t] = "landed" /\ RowTrue(t) /\ (link[p] => t \in paid)
  BY <1>1, Roles DEF FeedInv, HandTrue, LinkInv
<1>3. (row[t] = None \/ row[t] \in Rows) /\ link[p] \in BOOLEAN
  BY <1>2 DEF FeedInv, FeedTypes
<1>4. CASE row[t] = None
  <2>1. w = [status |-> "CONFIRMED", intent |-> FALSE, linked |-> link[p]]
    BY <1>4
  <2>2. w \in Rows /\ w.status = "CONFIRMED" /\ w.linked = link[p]
    BY <1>3, <2>1 DEF Rows, Final
  <2> HIDE DEF t, w
  <2> QED
    BY <1>1, <1>2, <1>4, <2>2, WriteKeeps
<1>5. CASE row[t] # None
  <2> DEFINE keep == Kept(row[t].status, "CONFIRMED")
             linked == row[t].linked \/ link[p]
  <2>1. /\ keep = IF row[t].status \in Final THEN row[t].status ELSE "CONFIRMED"
        /\ keep \in {"PENDING"} \cup Final /\ linked \in BOOLEAN
        /\ linked <=> row[t].linked \/ link[p]
    BY DEF Kept, Final
  <2>2. w = [row[t] EXCEPT !.status = keep, !.linked = linked]
    BY <1>5
  <2> HIDE DEF keep, linked
  <2>3. w \in Rows /\ w.status = keep /\ w.linked = linked
    BY <1>3, <1>5, <2>1, <2>2 DEF Rows
  <2> HIDE DEF t, w
  <2>4. /\ w.status = "CONFIRMED" => fate[t] = "landed"
        /\ w.status = "FAILED" => fate[t] \in {"errored", "lost"}
        /\ w.status # "PENDING"
    BY <1>2, <1>5, <2>1, <2>3 DEF RowTrue, Final
  <2> QED
    BY <1>1, <1>2, <1>5, <2>1, <2>3, <2>4, WriteKeeps
<1> QED
  BY <1>4, <1>5

LEMMA TickSettleKeeps ==
  ASSUME FeedInv, NEW p \in Tickers, TickSettle(p) PROVE Promise!Next \/ UNCHANGED row
<1> DEFINE t == on[p]
           to == IF verdict[p] = "landed" THEN "CONFIRMED"
                 ELSE IF verdict[p] = "errored" \/ expired[p] THEN "FAILED" ELSE "PENDING"
           w == [row[t] EXCEPT !.status = to]
<1>1. /\ UNCHANGED <<fate, slot, paid, bookmark>> /\ pc[p] = "settle"
      /\ row' = IF Pending(t) THEN [row EXCEPT ![t].status = to] ELSE row
  BY DEF TickSettle
<1>2. HandTrue(p) /\ t \in Txs
  BY <1>1, Roles DEF FeedInv, HandTrue
<1>3. RowTrue(t) /\ row[t] \in Rows \cup {None}
  BY <1>2 DEF FeedInv, FeedTypes
<1>4. CASE ~ Pending(t)
  BY <1>1, <1>4
<1>5. CASE Pending(t)
  <2>1. row[t] \in Rows /\ row[t] # None /\ row[t].status = "PENDING" /\ fate[t] # "none"
    BY <1>3, <1>5 DEF Pending, RowTrue
  <2>2. /\ to = "CONFIRMED" => fate[t] = "landed"
        /\ to = "FAILED" => fate[t] \in {"errored", "lost"}
        /\ to \in {"PENDING"} \cup Final
    BY <1>1, <1>2 DEF HandTrue, Final
  <2> HIDE DEF to
  <2>3. w \in Rows /\ w.status = to /\ w.linked = row[t].linked /\ row' = [row EXCEPT ![t] = w]
    BY <1>1, <1>5, <2>1, <2>2 DEF Rows
  <2> HIDE DEF w, t
  <2> QED
    BY <1>1, <1>2, <2>1, <2>2, <2>3, WriteKeeps DEF Final
<1> QED
  BY <1>4, <1>5

LEMMA LinkTransferKeeps ==
  ASSUME FeedInv, LinkInv, NEW p \in Completers, LinkTransfer(p)
  PROVE  Promise!Next \/ UNCHANGED row
<1> DEFINE t == on[p]
           w == [row[t] EXCEPT !.linked = TRUE]
<1>1. /\ UNCHANGED <<fate, slot, paid, bookmark>> /\ pc[p] = "link"
      /\ row' = IF row[t] # None THEN [row EXCEPT ![t].linked = TRUE] ELSE row
  BY DEF LinkTransfer
<1>2. t \in Txs /\ t \in paid
  BY <1>1, Roles DEF FeedInv, HandTrue, LinkInv
<1>3. RowTrue(t) /\ row[t] \in Rows \cup {None}
  BY <1>2 DEF FeedInv, FeedTypes
<1>4. CASE row[t] = None
  BY <1>1, <1>4
<1>5. CASE row[t] # None
  <2>1. w \in Rows /\ w.status = row[t].status /\ w.linked = TRUE /\ row' = [row EXCEPT ![t] = w]
    BY <1>1, <1>3, <1>5 DEF Rows
  <2> HIDE DEF w, t
  <2> QED
    BY <1>1, <1>2, <1>3, <1>5, <2>1, WriteKeeps DEF RowTrue
<1> QED
  BY <1>4, <1>5

\* A landing takes a slot no lower than any other's.
LEMMA LandKeeps ==
  ASSUME FeedInv, SlotsTyped, NEW t \in Txs, Land(t) PROVE Promise!Next
<1>1. fate \in [Txs -> Fates] /\ UNCHANGED <<paid, row, bookmark>>
  BY DEF FeedInv, FeedTypes, Land
<1>2. CASE t \in Sends /\ fate' = [fate EXCEPT ![t] = "errored"] /\ UNCHANGED slot
  <2>1. Promise!Fail(t)
    BY <1>1, <1>2 DEF Land, Promise!Fail, Promise!Meet
  <2> QED
    BY <2>1 DEF Promise!Next
<1>3. ASSUME NEW n \in {Tip, Tip + 1} \ {0}, fate' = [fate EXCEPT ![t] = "landed"],
             slot' = [slot EXCEPT ![t] = n]
      PROVE  Promise!Next
  <2>1. Tip \in Nat /\ (\A u \in Txs : slot[u] <= Tip) /\ slot \in [Txs -> Nat]
    BY TipIsHighest DEF SlotsTyped
  <2> HIDE DEF Tip
  <2>2. n \in Nat \ {0} /\ (\A u \in Txs : slot[u] <= n) /\ slot'[t] = n
    BY <1>3, <2>1
  <2>3. slot'[t] <= Cardinality(LandedTxs')
    BY LandTakesASlot DEF SlotsTyped
  <2>4. IsFiniteSet(Txs) /\ LandedTxs' \in SUBSET Txs
    BY ConstantsAssumption DEF LandedTxs
  <2>5. /\ Cardinality(LandedTxs') <= Cardinality(Txs)
        /\ Cardinality(LandedTxs') \in Nat /\ Cardinality(Txs) \in Nat
    BY <2>4, FS_Subset, FS_CardinalityType
  <2>6. n \in Slots \ {0}
    BY <2>2, <2>3, <2>5 DEF Slots
  <2>7. fate[t] \in {"none", "flying"}
    BY DEF Land
  <2>8. Promise!Meet(t, "landed")
    BY <1>1, <1>3 DEF Promise!Meet
  <2>9. \E m \in Slots \ {0} :
          (\A u \in Txs : slot[u] <= m) /\ slot' = [slot EXCEPT ![t] = m]
    BY <1>3, <2>2, <2>6
  <2>10. Promise!Land(t)
    BY <2>7, <2>8, <2>9 DEF Promise!Land
  <2> QED
    BY <2>10 DEF Promise!Next
<1> QED
  BY <1>2, <1>3 DEF Land

\* A step of the code is one of the promise, or nothing Activity could show.
LEMMA PromiseStep ==
  ASSUME FullInv, LinkInv, [Next]_vars
  PROVE  [Promise!Next]_(Promise!promise)
<1> DEFINE Done == UNCHANGED Promise!promise \/ Promise!Next
<1> SUFFICES Done
  BY Zenon
<1> FeedInv /\ HandsTyped /\ SlotsTyped /\ MarkersWrote /\ fate \in [Txs -> Fates]
  BY DEF FullInv, FeedInv, FeedTypes
<1>1. ASSUME UNCHANGED <<fate, slot, paid, row, bookmark>> PROVE Done
  BY <1>1 DEF Promise!promise
<1>2. ASSUME NEW t \in Txs, Land(t) \/ Unheard(t) PROVE Done
  BY <1>1, <1>2, LandKeeps DEF Unheard
<1>3. ASSUME NEW t \in Sends, Lapse(t) PROVE Done
  <2>1. /\ fate' = [fate EXCEPT ![t] = IF fate[t] = "flying" THEN "lost" ELSE fate[t]]
        /\ UNCHANGED <<slot, paid, row, bookmark>> /\ t \in Txs
    BY <1>3, Roles DEF Lapse
  <2>2. CASE fate[t] = "flying"
    <3>1. Promise!Fail(t)
      BY <2>1, <2>2 DEF Promise!Fail, Promise!Meet
    <3> QED
      BY <2>1, <3>1 DEF Promise!Next
  <2>3. CASE fate[t] # "flying"
    BY <1>1, <2>1, <2>3
  <2> QED
    BY <2>2, <2>3
<1>4. ASSUME NEW t \in Txs, fate' = Sent(t), UNCHANGED <<slot, paid, row, bookmark>> PROVE Done
  <2>1. CASE fate[t] = "none"
    <3>1. Promise!Send(t)
      BY <1>4, <2>1 DEF Sent, Promise!Send, Promise!Meet
    <3> QED
      BY <3>1 DEF Promise!Next
  <2>2. CASE fate[t] # "none"
    BY <1>1, <1>4, <2>2 DEF Sent
  <2> QED
    BY <2>1, <2>2
<1>5. ASSUME NEW p \in Submitters, Broadcast(p) \/ BroadcastThrows(p) PROVE Done
  <2>1. on[p] \in Txs
    BY <1>5, Roles DEF HandsTyped, Broadcast, BroadcastThrows, Step
  <2>2. (fate' = Sent(on[p]) \/ UNCHANGED fate) /\ UNCHANGED <<slot, paid, row, bookmark>>
    BY <1>5 DEF Broadcast, BroadcastThrows
  <2> QED
    BY <1>1, <1>4, <2>1, <2>2
<1>6. ASSUME NEW p \in Submitters,
             (\E t \in Sends : Submit(p, t)) \/ WriteRow(p) \/ EraseIntent(p)
      PROVE  Done
  BY <1>1, <1>6, WriteRowKeeps DEF Submit, EraseIntent
<1>7. ASSUME NEW p \in Tailers, Mark(p) PROVE Done
  <2>1. on[p] \in Txs /\ Shown(on[p])
    BY <1>7, Roles DEF Mark, HandsTyped, MarkersWrote
  <2>2. UNCHANGED <<fate, slot, paid, row>>
        /\ bookmark' = IF slot[on[p]] > bookmark THEN slot[on[p]] ELSE bookmark
    BY <1>7 DEF Mark
  <2>3. CASE slot[on[p]] > bookmark
    <3>1. Promise!Index(on[p])
      BY <2>1, <2>2, <2>3 DEF Promise!Index, Shown
    <3> QED
      BY <2>1, <3>1 DEF Promise!Next
  <2>4. CASE ~ (slot[on[p]] > bookmark)
    BY <1>1, <2>2, <2>4
  <2> QED
    BY <2>3, <2>4
<1>8. ASSUME NEW p \in Tailers, Tail(p) PROVE Done
  BY <1>1, <1>7, <1>8, UpsertKeeps DEF Tail, Correlate
<1>9. ASSUME NEW p \in Hooks, (\E t \in Txs : Deliver(p, t)) \/ HookThrows(p) PROVE Done
  BY <1>1, <1>9 DEF Deliver, HookThrows
<1>10. ASSUME NEW p \in Replayers, Sweep(p) \/ RepairOne(p) \/ NextTransfer(p) PROVE Done
  BY <1>1, <1>10 DEF Sweep, RepairOne, Repair, Replay, NextTransfer
<1>11. ASSUME NEW p \in Tickers, Tick(p) PROVE Done
  <2>1. CASE (\E t \in Sends : TickSelect(p, t)) \/ TickAsk(p)
    BY <1>1, <2>1 DEF TickSelect, TickAsk
  <2>2. CASE TickSettle(p)
    <3>1. UNCHANGED <<fate, slot, paid, bookmark>>
      BY <2>2 DEF TickSettle
    <3> QED
      BY <1>1, <2>2, <3>1, TickSettleKeeps
  <2> QED
    BY <1>11, <2>1, <2>2 DEF Tick
<1>12. ASSUME NEW p \in Completers, NEW t \in Txs, RecordPayment(p, t) PROVE Done
  <2>1. Promise!Settle(t)
    BY <1>12 DEF RecordPayment, Settled, Promise!Settle
  <2> QED
    BY <2>1 DEF Promise!Next
<1>13. ASSUME NEW p \in Completers, LinkTransfer(p) PROVE Done
  <2>1. UNCHANGED <<fate, slot, paid, bookmark>>
    BY <1>13 DEF LinkTransfer
  <2> QED
    BY <1>1, <1>13, <2>1, LinkTransferKeeps
<1>14. CASE \/ \E t \in Sends : Prepare(t) \/ GrowOld(t)
            \/ \E p \in Procs : Die(p)
            \/ UNCHANGED vars
  BY <1>1, <1>14 DEF Prepare, GrowOld, Die, vars
<1> QED
  BY <1>2, <1>3, <1>5, <1>6, <1>8, <1>9, <1>10, <1>11, <1>12, <1>13, <1>14, Roles
  DEF Next, Replaying

\* Whatever submit, webhook, replay, tick and completion do to rows and bookmark, in
\* any overlap and wherever one dies, is what FeedPromise lets happen.
THEOREM PromiseKept == Spec => KeepsPromise
<1>1. Init => LinkInv
  BY Roles DEF Init, LinkInv
<1>2. Spec => [](FullInv /\ LinkInv)
  <2>1. FullInv /\ LinkInv /\ [Next]_vars => LinkInv'
    BY LinkStep DEF FullInv
  <2> QED
    BY <1>1, <2>1, AlwaysFull, PTL DEF Spec
<1>3. Init => Promise!Init
  BY DEF Init, Promise!Init
<1> QED
  BY <1>2, <1>3, PromiseStep, PTL DEF Spec, KeepsPromise, Promise!Spec

=============================================================================
