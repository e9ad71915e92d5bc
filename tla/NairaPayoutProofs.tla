------------------------- MODULE NairaPayoutProofs -------------------------
(***************************************************************************)
(* Proofs about NairaPayout, for any number of settlements, processes and  *)
(* webhook requests.                                                       *)
(***************************************************************************)
EXTENDS NairaPayout, TLAPS

USE DEF settled, ramps, provider, locals

-----------------------------------------------------------------------------
(* Types, and what a process may rely on where it is *)

HolderOK(p) ==
  /\ pc[p] # "idle" => on[p] \in Settlements
  /\ pc[p] \in {"timeout", "tellTimeout", "reopen"} => was[p] \in {"pending", "converting"}
  /\ pc[p] = "paid" => <<on[p], "paid">> \in sent

TypeInv == TypeOK /\ \A p \in Procs : HolderOK(p)

Others(p) ==
  \A q \in Procs \ {p} :
    pc'[q] = pc[q] /\ on'[q] = on[q] /\ kind'[q] = kind[q] /\ saw'[q] = saw[q] /\ was'[q] = was[q]

LocalsOK ==
  /\ pc \in [Procs -> PCs]
  /\ on \in [Procs -> Settlements \cup {None}]
  /\ kind \in [Procs -> Kinds \cup {None}]
  /\ saw \in [Procs -> BOOLEAN]
  /\ was \in [Procs -> RampStatuses]

RowsOK ==
  /\ intent \in [Settlements -> {"settling", "succeeded"}]
  /\ claimed \in SUBSET Settlements
  /\ lapsed \in SUBSET Settlements
  /\ payment \in SUBSET Settlements
  /\ ramp \in [Settlements -> RampStatuses]
  /\ linked \in SUBSET Settlements
  /\ quiet \in SUBSET Settlements

WorldOK ==
  /\ asked \in [Settlements -> Nat]
  /\ bank \in [Settlements -> {"none", "asked", "landed", "refused"}]
  /\ sent \in SUBSET (Settlements \X Kinds)
  /\ acted \in SUBSET (Settlements \X Kinds)
  /\ told \in [Settlements -> [Topics -> Nat]]
  /\ fails \in Nat

LEMMA TypeParts == TypeOK <=> LocalsOK /\ RowsOK /\ WorldOK
  BY DEF TypeOK, LocalsOK, RowsOK, WorldOK

LEMMA TypePartsNext == TypeOK' <=> LocalsOK' /\ RowsOK' /\ WorldOK'
  BY DEF TypeOK, LocalsOK, RowsOK, WorldOK

LEMMA FinishHolds ==
  ASSUME LocalsOK, NEW p \in Procs, Finish(p)
  PROVE  LocalsOK' /\ Others(p) /\ HolderOK(p)' /\ pc'[p] = "idle"
<1>1. LocalsOK' /\ Others(p) /\ pc'[p] = "idle"
  BY DEF LocalsOK, Finish, Others, PCs, RampStatuses
<1> QED
  BY <1>1 DEF HolderOK

LEMMA GotoHolds ==
  ASSUME LocalsOK, NEW p \in Procs, NEW label \in PCs, Goto(p, label)
  PROVE  /\ LocalsOK' /\ Others(p) /\ pc'[p] = label
         /\ on'[p] = on[p] /\ kind'[p] = kind[p] /\ saw'[p] = saw[p] /\ was'[p] = was[p]
  BY DEF LocalsOK, Goto, Others

LEMMA BeginHolds ==
  ASSUME LocalsOK, NEW p \in Procs, NEW label \in PCs, NEW s \in Settlements,
         NEW k \in Kinds \cup {None}, NEW st \in RampStatuses, Begin(p, label, s, k, st)
  PROVE  /\ LocalsOK' /\ Others(p) /\ pc'[p] = label
         /\ on'[p] = s /\ kind'[p] = k /\ was'[p] = st
  BY DEF LocalsOK, Begin, Others

LEMMA SetRampHolds ==
  ASSUME RowsOK, NEW s \in Settlements, NEW to \in RampStatuses, SetRamp(s, to)
  PROVE  /\ ramp' \in [Settlements -> RampStatuses] /\ quiet' \in SUBSET Settlements
         /\ ramp'[s] = to /\ \A x \in Settlements \ {s} : ramp'[x] = ramp[x]
  BY DEF RowsOK, SetRamp

LEMMA PublishHolds ==
  ASSUME WorldOK, NEW s \in Settlements, NEW topic \in Topics, Publish(s, topic)
  PROVE  /\ told' \in [Settlements -> [Topics -> Nat]]
         /\ told'[s][topic] = told[s][topic] + 1
         /\ \A x \in Settlements, t \in Topics : x # s \/ t # topic => told'[x][t] = told[x][t]
  BY DEF WorldOK, Publish

LEMMA InitTypeInv == Init => TypeInv
<1> SUFFICES ASSUME Init PROVE TypeInv
  OBVIOUS
<1>1. TypeOK
  BY DEF Init, TypeOK, RampStatuses, PCs
<1>2. \A p \in Procs : HolderOK(p)
  BY DEF Init, HolderOK
<1> QED
  BY <1>1, <1>2 DEF TypeInv

-----------------------------------------------------------------------------
(* The row: asked for once, paid only for naira that landed, told once *)

Completed(s) == told[s]["payout.completed"]

Asks(p, s) == pc[p] = "withdraw" /\ on[p] = s
Tells(p, s) == pc[p] \in {"complete", "tellCompleted"} /\ on[p] = s

RowInv(s) ==
  /\ asked[s] <= 1
  /\ asked[s] > 0 => ramp[s] # "none"
  /\ ramp[s] = "paid" => bank[s] = "landed"
  /\ <<s, "paid">> \in sent => bank[s] = "landed"
  /\ Completed(s) <= 1
  /\ Completed(s) > 0 => ramp[s] = "paid"

\* Who asks has not asked before, who tells has not told, and each is alone.
HoldInv(p, s) ==
  /\ Asks(p, s) => asked[s] = 0 /\ ramp[s] # "none"
  /\ Tells(p, s) => Completed(s) = 0 /\ ramp[s] = "paid"
  /\ \A q \in Procs : /\ Asks(p, s) /\ Asks(q, s) => p = q
                      /\ Tells(p, s) /\ Tells(q, s) => p = q

SafeInv == \A s \in Settlements : RowInv(s) /\ \A p \in Procs : HoldInv(p, s)

\* The rows are left alone, and p neither asks nor tells, or goes on telling.
LEMMA SafeQuiet ==
  ASSUME SafeInv, NEW p \in Procs, Others(p), UNCHANGED <<asked, ramp, bank>>,
         \A s \in Settlements : <<s, "paid">> \in sent' => <<s, "paid">> \in sent,
         \A s \in Settlements : told'[s]["payout.completed"] = told[s]["payout.completed"],
         pc'[p] # "withdraw",
         pc'[p] \in {"complete", "tellCompleted"} =>
           pc[p] \in {"complete", "tellCompleted"} /\ on'[p] = on[p]
  PROVE  SafeInv'
<1>1. \A q \in Procs, s \in Settlements : (Asks(q, s)' => Asks(q, s)) /\ (Tells(q, s)' => Tells(q, s))
  BY DEF Others, Asks, Tells
<1>2. \A s \in Settlements : RowInv(s)'
  BY DEF SafeInv, RowInv, Completed
<1>3. \A s \in Settlements, q \in Procs : HoldInv(q, s)'
  BY <1>1 DEF SafeInv, HoldInv, Completed
<1> QED
  BY <1>2, <1>3 DEF SafeInv

\* One row x changes; the others, and what other processes do to them, do not.
LEMMA SafeRow ==
  ASSUME SafeInv, NEW p \in Procs, Others(p), NEW x \in Settlements,
         on[p] = x, on'[p] = x \/ pc'[p] = "idle",
         \A s \in Settlements \ {x} :
           /\ asked'[s] = asked[s] /\ ramp'[s] = ramp[s] /\ bank'[s] = bank[s]
           /\ told'[s]["payout.completed"] = told[s]["payout.completed"]
           /\ <<s, "paid">> \in sent' => <<s, "paid">> \in sent,
         RowInv(x)', \A q \in Procs : HoldInv(q, x)'
  PROVE  SafeInv'
<1>1. \A q \in Procs, s \in Settlements \ {x} :
        (Asks(q, s)' => Asks(q, s)) /\ (Tells(q, s)' => Tells(q, s))
  BY DEF Others, Asks, Tells
<1>2. ASSUME NEW s \in Settlements \ {x} PROVE RowInv(s)'
  <2>1. RowInv(s) /\ Completed(s)' = Completed(s)
    BY DEF SafeInv, Completed
  <2> QED
    BY <2>1 DEF RowInv
<1>3. \A s \in Settlements \ {x}, q \in Procs : HoldInv(q, s)'
  BY <1>1 DEF SafeInv, HoldInv, Completed
<1> QED
  BY <1>2, <1>3 DEF SafeInv

Inv == TypeInv /\ SafeInv

LEMMA InitInv == Init => Inv
<1> SUFFICES ASSUME Init PROVE Inv
  OBVIOUS
<1>1. /\ \A p \in Procs : pc[p] = "idle"
      /\ \A s \in Settlements :
           asked[s] = 0 /\ ramp[s] = "none" /\ <<s, "paid">> \notin sent /\ Completed(s) = 0
  <2>1. \A p \in Procs : pc[p] = "idle"
    BY DEF Init
  <2>2. \A s \in Settlements : Completed(s) = 0
    BY DEF Init, Completed, Topics
  <2> QED
    BY <2>1, <2>2 DEF Init
<1>2. ASSUME NEW s \in Settlements PROVE RowInv(s)
  <2>1. asked[s] = 0 /\ ramp[s] = "none" /\ <<s, "paid">> \notin sent /\ Completed(s) = 0
    BY <1>1
  <2> QED
    BY <2>1 DEF RowInv
<1>3. \A s \in Settlements, p \in Procs : HoldInv(p, s)
  BY <1>1 DEF HoldInv, Asks, Tells
<1> QED
  BY <1>2, <1>3, InitTypeInv DEF Inv, SafeInv

-----------------------------------------------------------------------------
LEMMA InvStep == Inv /\ [Next]_vars => Inv'
<1> SUFFICES ASSUME Inv, [Next]_vars PROVE Inv'
  OBVIOUS
<1> LocalsOK /\ RowsOK /\ WorldOK /\ SafeInv /\ \A p \in Procs : HolderOK(p)
  BY TypeParts DEF Inv, TypeInv
<1> Workers \subseteq Procs /\ Hooks \subseteq Procs /\ Timers \subseteq Procs
  BY DEF Procs
\* What a step of p must show.
<1>0. ASSUME NEW p \in Procs, Others(p), LocalsOK', RowsOK', WorldOK', HolderOK(p)',
             sent \subseteq sent', SafeInv'
      PROVE  Inv'
  <2>1. \A q \in Procs : HolderOK(q)'
    BY <1>0 DEF Others, HolderOK
  <2> QED
    BY <1>0, <2>1, TypePartsNext DEF Inv, TypeInv
\* Steps in which p stops, or moves on elsewhere, and only its surroundings change.
<1>1. ASSUME NEW p \in Procs, Finish(p), RowsOK', WorldOK', UNCHANGED <<asked, ramp, bank, sent>>,
             \A s \in Settlements : told'[s]["payout.completed"] = told[s]["payout.completed"]
      PROVE  Inv'
  <2>1. LocalsOK' /\ Others(p) /\ HolderOK(p)' /\ pc'[p] = "idle"
    BY <1>1, FinishHolds
  <2> QED
    BY <1>0, <1>1, <2>1, SafeQuiet
<1>2. ASSUME NEW p \in Procs, NEW label \in PCs, NEW s \in Settlements,
             NEW k \in Kinds \cup {None}, NEW st \in RampStatuses, Begin(p, label, s, k, st),
             label \in {"link", "processing", "paid", "failed", "timeout"},
             label = "paid" => <<s, "paid">> \in sent,
             label = "timeout" => st \in {"pending", "converting"},
             RowsOK', WorldOK', UNCHANGED <<asked, ramp, bank, sent, told>>
      PROVE  Inv'
  <2>1. /\ LocalsOK' /\ Others(p) /\ pc'[p] = label /\ on'[p] = s /\ was'[p] = st
    BY <1>2, BeginHolds
  <2>2. HolderOK(p)'
    BY <1>2, <2>1 DEF HolderOK
  <2>3. SafeInv'
    BY <1>2, <2>1, SafeQuiet
  <2> QED
    BY <1>0, <1>2, <2>1, <2>2, <2>3
<1>3. ASSUME NEW w \in Workers, NEW s \in Settlements, ClaimSettlement(w, s) \/ Resume(w, s)
      PROVE  Inv'
  <2>1. Begin(w, "link", s, None, "none") /\ UNCHANGED <<asked, ramp, bank, sent, told>>
    BY <1>3 DEF ClaimSettlement, Resume
  <2>2. RowsOK' /\ WorldOK' /\ "link" \in PCs /\ "none" \in RampStatuses
    BY <1>3 DEF ClaimSettlement, Resume, RowsOK, WorldOK, PCs, RampStatuses
  <2> QED
    BY <1>2, <2>1, <2>2
<1>4. ASSUME NEW h \in Hooks, NEW s \in Settlements, NEW k \in Kinds, Receive(h, s, k)
      PROVE  Inv'
  <2>1. Begin(h, k, s, k, "none") /\ UNCHANGED <<asked, ramp, bank, sent, told>> /\ <<s, k>> \in sent
    BY <1>4 DEF Receive
  <2>2. RowsOK' /\ WorldOK' /\ k \in PCs /\ "none" \in RampStatuses /\ k \in {"processing", "paid", "failed"}
    BY <1>4 DEF Receive, RowsOK, WorldOK, PCs, Kinds, RampStatuses
  <2> QED
    BY <1>2, <2>1, <2>2
<1>5. ASSUME NEW t \in Timers, NEW s \in Settlements, SelectStuck(t, s) PROVE Inv'
  <2>1. /\ Begin(t, "timeout", s, None, ramp[s]) /\ UNCHANGED <<asked, ramp, bank, sent, told>>
        /\ ramp[s] \in {"pending", "converting"}
    BY <1>5 DEF SelectStuck, Stuck
  <2>2. RowsOK' /\ WorldOK' /\ "timeout" \in PCs /\ ramp[s] \in RampStatuses
    BY <1>5 DEF SelectStuck, RowsOK, WorldOK, PCs
  <2> QED
    BY <1>2, <2>1, <2>2
<1>6. ASSUME NEW p \in Procs, ReadLink(p) PROVE Inv'
  <2>1. LocalsOK' /\ Others(p) /\ pc'[p] = "open" /\ on'[p] = on[p]
    BY <1>6 DEF ReadLink, LocalsOK, Others, PCs
  <2>2. RowsOK' /\ WorldOK' /\ HolderOK(p)' /\ UNCHANGED <<asked, ramp, bank, sent, told>>
    BY <1>6, <2>1 DEF ReadLink, RowsOK, WorldOK, HolderOK
  <2>3. SafeInv'
    BY <2>1, <2>2, SafeQuiet
  <2> QED
    BY <1>0, <2>1, <2>2, <2>3
\* The row is opened by one worker, who has not asked.
<1>7. ASSUME NEW p \in Procs, OpenRamp(p) PROVE Inv'
  <2>1. pc[p] = "open" /\ on[p] \in Settlements /\ UNCHANGED <<asked, bank, sent, told>>
    BY <1>7 DEF OpenRamp, HolderOK
  <2>2. PICK x \in Settlements : x = on[p]
    BY <2>1
  <2>3. CASE ~Unopened(x) /\ Goto(p, "record") /\ UNCHANGED <<ramp, linked, quiet>>
    <3>1. LocalsOK' /\ Others(p) /\ pc'[p] = "record" /\ on'[p] = on[p] /\ RowsOK' /\ WorldOK'
      BY <1>7, <2>3, GotoHolds DEF OpenRamp, PCs, RowsOK, WorldOK
    <3>2. HolderOK(p)' /\ SafeInv'
      BY <2>1, <2>3, <3>1, SafeQuiet DEF HolderOK
    <3> QED
      BY <1>0, <2>1, <3>1, <3>2
  <2>4. CASE /\ Unopened(x) /\ SetRamp(x, "pending") /\ Goto(p, "withdraw")
             /\ linked' = IF saw[p] THEN linked \cup {x} ELSE linked
    <3>1. /\ LocalsOK' /\ Others(p) /\ pc'[p] = "withdraw" /\ on'[p] = x
      BY <2>2, <2>4, GotoHolds DEF PCs
    <3>2. /\ ramp' \in [Settlements -> RampStatuses] /\ quiet' \in SUBSET Settlements
          /\ ramp'[x] = "pending" /\ \A s \in Settlements \ {x} : ramp'[s] = ramp[s]
      BY <2>4, SetRampHolds DEF RampStatuses
    <3>3. RowsOK' /\ WorldOK' /\ HolderOK(p)'
      BY <1>7, <2>1, <2>4, <3>1, <3>2 DEF OpenRamp, RowsOK, WorldOK, HolderOK
    <3>4. /\ ramp[x] = "none" /\ RowInv(x) /\ asked[x] \in Nat /\ Completed(x) \in Nat
          /\ \A q \in Procs : HoldInv(q, x)
      BY <2>4 DEF Unopened, SafeInv, WorldOK, Completed, Topics
    <3>5. asked[x] = 0 /\ Completed(x) = 0
      BY <3>4 DEF RowInv
    <3>6. RowInv(x)'
      BY <2>1, <3>2, <3>4 DEF RowInv, Completed
    <3>7. \A q \in Procs : ~Asks(q, x) /\ ~Tells(q, x)
      BY <3>4 DEF HoldInv
    <3>8. \A q \in Procs : ~Tells(q, x)' /\ (Asks(q, x)' => q = p)
      BY <3>1, <3>7 DEF Others, Asks, Tells
    <3>9. \A q \in Procs : HoldInv(q, x)'
      BY <2>1, <3>2, <3>5, <3>8 DEF HoldInv, Completed
    <3>10. SafeInv'
      BY <2>1, <2>2, <3>1, <3>2, <3>6, <3>9, SafeRow
    <3> QED
      BY <1>0, <2>1, <3>1, <3>3, <3>10
  <2> QED
    BY <1>7, <2>2, <2>3, <2>4 DEF OpenRamp
\* It asks, and the next label is past asking.
<1>8. ASSUME NEW p \in Procs, Withdraw(p) PROVE Inv'
  <2>1. pc[p] = "withdraw" /\ on[p] \in Settlements /\ UNCHANGED <<ramp, sent, told>>
    BY <1>8 DEF Withdraw, HolderOK
  <2>2. PICK x \in Settlements : x = on[p]
    BY <2>1
  <2>3. /\ LocalsOK' /\ Others(p) /\ HolderOK(p)' /\ pc'[p] \in {"idle", "tellInitiated"}
        /\ on'[p] = x \/ pc'[p] = "idle"
    <3>1. CASE Finish(p)
      BY <3>1, FinishHolds
    <3>2. CASE Goto(p, "tellInitiated")
      <4>1. LocalsOK' /\ Others(p) /\ pc'[p] = "tellInitiated" /\ on'[p] = on[p]
        BY <3>2, GotoHolds DEF PCs
      <4> QED
        BY <2>2, <4>1 DEF HolderOK
    <3> QED
      BY <1>8, <3>1, <3>2 DEF Withdraw
  <2>4. RowsOK' /\ WorldOK'
    BY <1>8, <2>2 DEF Withdraw, RowsOK, WorldOK
  <2>5. /\ asked'[x] = asked[x] + 1 /\ (bank[x] = "landed" => bank'[x] = "landed")
        /\ \A s \in Settlements \ {x} : asked'[s] = asked[s] /\ bank'[s] = bank[s]
    BY <1>8, <2>2 DEF Withdraw, WorldOK
  <2>6. Asks(p, x) /\ HoldInv(p, x) /\ RowInv(x) /\ \A q \in Procs : HoldInv(q, x)
    BY <2>1, <2>2 DEF Asks, SafeInv
  <2>7. asked[x] = 0 /\ ramp[x] # "none"
    BY <2>6 DEF HoldInv
  <2>8. RowInv(x)'
    BY <2>1, <2>5, <2>6, <2>7 DEF RowInv, Completed
  <2>9. \A q \in Procs : ~Asks(q, x)' /\ (Tells(q, x)' => Tells(q, x))
    BY <2>3, <2>6 DEF HoldInv, Others, Asks, Tells
  <2>10. \A q \in Procs : HoldInv(q, x)'
    BY <2>1, <2>6, <2>9 DEF HoldInv, Completed
  <2>11. SafeInv'
    BY <2>1, <2>2, <2>3, <2>5, <2>8, <2>10, SafeRow
  <2> QED
    BY <1>0, <2>1, <2>3, <2>4, <2>11
\* A step that moves one row x from a status that is not paid, or to it truly.
<1>9. ASSUME NEW p \in Procs, Others(p), LocalsOK', RowsOK', WorldOK', HolderOK(p)',
             NEW x \in Settlements, on[p] = x, on'[p] = x \/ pc'[p] = "idle", pc'[p] # "withdraw",
             pc'[p] \notin {"complete", "tellCompleted"},
             UNCHANGED <<asked, bank, sent>>,
             \A s \in Settlements : told'[s]["payout.completed"] = told[s]["payout.completed"],
             ramp[x] \notin {"none", "paid"}, ramp'[x] \notin {"none", "paid"},
             \A s \in Settlements \ {x} : ramp'[s] = ramp[s]
      PROVE  Inv'
  <2>1. RowInv(x) /\ \A q \in Procs : HoldInv(q, x)
    BY DEF SafeInv
  <2>2. Completed(x)' = Completed(x) /\ Completed(x) \in Nat
    BY <1>9 DEF Completed, WorldOK, Topics
  <2>3. RowInv(x)'
    BY <1>9, <2>1, <2>2 DEF RowInv
  <2>4. \A q \in Procs : (Asks(q, x)' => Asks(q, x)) /\ (Tells(q, x)' => Tells(q, x))
    BY <1>9 DEF Others, Asks, Tells
  <2>5. \A q \in Procs : HoldInv(q, x)'
    BY <1>9, <2>1, <2>2, <2>4 DEF HoldInv
  <2>6. SafeInv'
    BY <1>9, <2>3, <2>5, SafeRow
  <2> QED
    BY <1>0, <1>9, <2>6
\* Only the event changes, and it is not payout.completed.
<1>10. ASSUME NEW p \in Procs, TellInitiated(p) PROVE Inv'
  <2>1. PICK x \in Settlements : x = on[p]
    BY <1>10 DEF TellInitiated, HolderOK
  <2>2. /\ LocalsOK' /\ Others(p) /\ pc'[p] = "record" /\ on'[p] = x
    BY <1>10, <2>1, GotoHolds DEF TellInitiated, PCs
  <2>3. /\ told' \in [Settlements -> [Topics -> Nat]]
        /\ \A s \in Settlements : told'[s]["payout.completed"] = told[s]["payout.completed"]
    BY <1>10, <2>1, PublishHolds DEF TellInitiated, Topics
  <2>4. RowsOK' /\ WorldOK' /\ HolderOK(p)' /\ UNCHANGED <<asked, ramp, bank, sent>>
    BY <1>10, <2>1, <2>2, <2>3 DEF TellInitiated, RowsOK, WorldOK, HolderOK
  <2>5. SafeInv'
    BY <2>2, <2>3, <2>4, SafeQuiet
  <2> QED
    BY <1>0, <2>2, <2>4, <2>5
<1>11. ASSUME NEW p \in Procs, RecordPayment(p) PROVE Inv'
  <2>1. RowsOK' /\ WorldOK' /\ UNCHANGED <<asked, ramp, bank, sent, told>> /\ Finish(p)
    BY <1>11 DEF RecordPayment, RowsOK, WorldOK, HolderOK
  <2> QED
    BY <1>1, <2>1
<1>12. ASSUME NEW p \in Procs, HandleProcessing(p) PROVE Inv'
  <2>1. PICK x \in Settlements : x = on[p]
    BY <1>12 DEF HandleProcessing, HolderOK
  <2>2. LocalsOK' /\ Others(p) /\ HolderOK(p)' /\ pc'[p] = "idle"
    BY <1>12, FinishHolds DEF HandleProcessing
  <2>3. CASE UNCHANGED <<ramp, quiet>>
    <3>1. RowsOK' /\ WorldOK'
      BY <1>12, <2>3 DEF HandleProcessing, RowsOK, WorldOK
    <3> QED
      BY <1>1, <1>12, <2>3, <3>1 DEF HandleProcessing
  <2>4. CASE ramp[x] = "pending" /\ SetRamp(x, "converting")
    <3>1. /\ ramp' \in [Settlements -> RampStatuses] /\ quiet' \in SUBSET Settlements
          /\ ramp'[x] = "converting" /\ \A s \in Settlements \ {x} : ramp'[s] = ramp[s]
      BY <2>4, SetRampHolds DEF RampStatuses
    <3>2. RowsOK' /\ WorldOK' /\ UNCHANGED <<asked, bank, sent, told>>
      BY <1>12, <3>1 DEF HandleProcessing, RowsOK, WorldOK
    <3> QED
      BY <1>9, <2>1, <2>2, <2>4, <3>1, <3>2
  <2> QED
    BY <1>12, <2>1, <2>3, <2>4 DEF HandleProcessing
\* Naira that landed marks the row, and one hook goes on to say so.
<1>13. ASSUME NEW p \in Procs, HandlePaid(p) PROVE Inv'
  <2>1. PICK x \in Settlements : x = on[p]
    BY <1>13 DEF HandlePaid, HolderOK
  <2>2. UNCHANGED <<asked, bank, sent, told>> /\ <<x, "paid">> \in sent
    BY <1>13, <2>1 DEF HandlePaid, HolderOK
  <2>3. CASE Finish(p) /\ UNCHANGED <<ramp, quiet>>
    <3>1. RowsOK' /\ WorldOK'
      BY <1>13, <2>3 DEF HandlePaid, RowsOK, WorldOK
    <3> QED
      BY <1>1, <2>2, <2>3, <3>1
  <2>4. CASE Payable(x) /\ SetRamp(x, "paid") /\ Goto(p, "complete")
    <3>1. LocalsOK' /\ Others(p) /\ pc'[p] = "complete" /\ on'[p] = x
      BY <2>1, <2>4, GotoHolds DEF PCs
    <3>2. /\ ramp' \in [Settlements -> RampStatuses] /\ quiet' \in SUBSET Settlements
          /\ ramp'[x] = "paid" /\ \A s \in Settlements \ {x} : ramp'[s] = ramp[s]
      BY <2>4, SetRampHolds DEF RampStatuses
    <3>3. RowsOK' /\ WorldOK' /\ HolderOK(p)'
      BY <1>13, <2>1, <3>1, <3>2 DEF HandlePaid, RowsOK, WorldOK, HolderOK
    <3>4. /\ RowInv(x) /\ \A q \in Procs : HoldInv(q, x)
      BY DEF SafeInv
    <3>5. Completed(x)' = Completed(x) /\ Completed(x) \in Nat
      BY <2>2 DEF Completed, WorldOK, Topics
    <3>6. ramp[x] = "pending" /\ bank[x] = "landed" /\ Completed(x) = 0
      BY <2>2, <2>4, <3>4, <3>5 DEF Payable, RowInv
    <3>7. RowInv(x)'
      BY <2>2, <3>2, <3>4, <3>5, <3>6 DEF RowInv
    <3>8. \A q \in Procs : ~Tells(q, x)
      BY <3>4, <3>6 DEF HoldInv
    <3>9. \A q \in Procs : (Asks(q, x)' => Asks(q, x)) /\ (Tells(q, x)' => q = p)
      BY <3>1, <3>8 DEF Others, Asks, Tells
    <3>10. \A q \in Procs : HoldInv(q, x)'
      BY <2>2, <3>2, <3>4, <3>5, <3>6, <3>9 DEF HoldInv
    <3>11. SafeInv'
      BY <2>1, <2>2, <3>1, <3>2, <3>7, <3>10, SafeRow
    <3> QED
      BY <1>0, <2>2, <3>1, <3>3, <3>11
  <2> QED
    BY <1>13, <2>1, <2>3, <2>4 DEF HandlePaid
<1>14. ASSUME NEW p \in Procs, CompleteDeferred(p) PROVE Inv'
  <2>1. PICK x \in Settlements : x = on[p]
    BY <1>14 DEF CompleteDeferred, HolderOK
  <2>2. LocalsOK' /\ Others(p) /\ pc'[p] = "tellCompleted" /\ pc[p] = "complete" /\ on'[p] = on[p]
    BY <1>14, GotoHolds DEF CompleteDeferred, PCs
  <2>3. /\ told' \in [Settlements -> [Topics -> Nat]]
        /\ \A s \in Settlements : told'[s]["payout.completed"] = told[s]["payout.completed"]
    BY <1>14, <2>1 DEF CompleteDeferred, WorldOK, Topics
  <2>4. RowsOK' /\ WorldOK' /\ HolderOK(p)' /\ UNCHANGED <<asked, ramp, bank, sent>>
    BY <1>14, <2>1, <2>2, <2>3 DEF CompleteDeferred, RowsOK, WorldOK, HolderOK
  <2>5. SafeInv'
    BY <2>2, <2>3, <2>4, SafeQuiet
  <2> QED
    BY <1>0, <2>2, <2>4, <2>5
<1>15. ASSUME NEW p \in Procs, HandleFailed(p) PROVE Inv'
  <2>1. PICK x \in Settlements : x = on[p]
    BY <1>15 DEF HandleFailed, HolderOK
  <2>2. UNCHANGED <<asked, bank, sent, told>>
    BY <1>15 DEF HandleFailed
  <2>3. CASE Finish(p) /\ UNCHANGED <<ramp, quiet>>
    <3>1. RowsOK' /\ WorldOK'
      BY <1>15, <2>3 DEF HandleFailed, RowsOK, WorldOK
    <3> QED
      BY <1>1, <2>2, <2>3, <3>1
  <2>4. CASE ramp[x] = "pending" /\ SetRamp(x, "failed") /\ Goto(p, "tellFailed")
    <3>1. LocalsOK' /\ Others(p) /\ pc'[p] = "tellFailed" /\ on'[p] = x
      BY <2>1, <2>4, GotoHolds DEF PCs
    <3>2. /\ ramp' \in [Settlements -> RampStatuses] /\ quiet' \in SUBSET Settlements
          /\ ramp'[x] = "failed" /\ \A s \in Settlements \ {x} : ramp'[s] = ramp[s]
      BY <2>4, SetRampHolds DEF RampStatuses
    <3>3. RowsOK' /\ WorldOK' /\ HolderOK(p)'
      BY <1>15, <2>1, <3>1, <3>2 DEF HandleFailed, RowsOK, WorldOK, HolderOK
    <3> QED
      BY <1>9, <2>1, <2>2, <2>4, <3>1, <3>2, <3>3
  <2> QED
    BY <1>15, <2>1, <2>3, <2>4 DEF HandleFailed
\* Who tells is alone, has not told, and stops.
<1>16. ASSUME NEW p \in Procs, TellPayout(p) PROVE Inv'
  <2>1. PICK x \in Settlements : x = on[p]
    BY <1>16 DEF TellPayout, HolderOK
  <2>2. /\ LocalsOK' /\ Others(p) /\ HolderOK(p)' /\ pc'[p] = "idle"
        /\ UNCHANGED <<asked, ramp, bank, sent>>
    BY <1>16, FinishHolds DEF TellPayout
  <2>3. \/ pc[p] = "tellCompleted" /\ Publish(x, "payout.completed")
        \/ pc[p] = "tellFailed" /\ Publish(x, "payout.failed")
    BY <1>16, <2>1 DEF TellPayout
  <2>4. told' \in [Settlements -> [Topics -> Nat]]
    BY <2>3, PublishHolds DEF Topics
  <2>5. RowsOK' /\ WorldOK'
    BY <1>16, <2>4 DEF TellPayout, RowsOK, WorldOK
  <2>6. CASE pc[p] = "tellFailed" /\ Publish(x, "payout.failed")
    <3>1. \A s \in Settlements : told'[s]["payout.completed"] = told[s]["payout.completed"]
      BY <2>6, PublishHolds DEF Topics
    <3>2. SafeInv'
      BY <2>2, <3>1, SafeQuiet
    <3> QED
      BY <1>0, <2>2, <2>5, <3>2
  <2>7. CASE pc[p] = "tellCompleted" /\ Publish(x, "payout.completed")
    <3>1. /\ told'[x]["payout.completed"] = told[x]["payout.completed"] + 1
          /\ \A s \in Settlements \ {x} :
               told'[s]["payout.completed"] = told[s]["payout.completed"]
      BY <2>7, PublishHolds DEF Topics
    <3>2. Tells(p, x) /\ RowInv(x) /\ \A q \in Procs : HoldInv(q, x)
      BY <2>1, <2>7 DEF Tells, SafeInv
    <3>3. Completed(x) = 0 /\ ramp[x] = "paid" /\ \A q \in Procs : Tells(q, x) => q = p
      BY <3>2 DEF HoldInv
    <3>4. Completed(x)' = 1
      BY <3>1, <3>3 DEF Completed
    <3>5. RowInv(x)'
      BY <2>2, <3>2, <3>3, <3>4 DEF RowInv
    <3>6. \A q \in Procs : ~Tells(q, x)' /\ (Asks(q, x)' => Asks(q, x))
      BY <2>2, <3>3 DEF Others, Asks, Tells
    <3>7. \A q \in Procs : HoldInv(q, x)'
      BY <2>2, <3>2, <3>6 DEF HoldInv
    <3>8. SafeInv'
      BY <2>1, <2>2, <3>1, <3>5, <3>7, SafeRow
    <3> QED
      BY <1>0, <2>2, <2>5, <3>8
  <2> QED
    BY <2>3, <2>6, <2>7
<1>17. ASSUME NEW p \in Procs, TimeOut(p) PROVE Inv'
  <2>1. PICK x \in Settlements : x = on[p]
    BY <1>17 DEF TimeOut, HolderOK
  <2>2. UNCHANGED <<asked, bank, sent, told>> /\ was[p] \in {"pending", "converting"}
    BY <1>17 DEF TimeOut, HolderOK
  <2>3. CASE Finish(p) /\ UNCHANGED <<ramp, quiet>>
    <3>1. RowsOK' /\ WorldOK'
      BY <1>17, <2>3 DEF TimeOut, RowsOK, WorldOK
    <3> QED
      BY <1>1, <2>2, <2>3, <3>1
  <2>4. CASE StillStuck(p) /\ SetRamp(x, "failed") /\ Goto(p, "tellTimeout")
    <3>1. /\ LocalsOK' /\ Others(p) /\ pc'[p] = "tellTimeout" /\ on'[p] = x /\ was'[p] = was[p]
      BY <2>1, <2>4, GotoHolds DEF PCs
    <3>2. /\ ramp' \in [Settlements -> RampStatuses] /\ quiet' \in SUBSET Settlements
          /\ ramp'[x] = "failed" /\ \A s \in Settlements \ {x} : ramp'[s] = ramp[s]
      BY <2>4, SetRampHolds DEF RampStatuses
    <3>3. RowsOK' /\ WorldOK' /\ HolderOK(p)'
      BY <1>17, <2>1, <2>2, <3>1, <3>2 DEF TimeOut, RowsOK, WorldOK, HolderOK
    <3>4. ramp[x] \in {"pending", "converting"}
      BY <2>1, <2>2, <2>4 DEF StillStuck
    <3> QED
      BY <1>9, <2>1, <2>2, <3>1, <3>2, <3>3, <3>4
  <2> QED
    BY <1>17, <2>1, <2>3, <2>4 DEF TimeOut
<1>18. ASSUME NEW p \in Procs, TellTimeout(p) PROVE Inv'
  <2>1. PICK x \in Settlements : x = on[p]
    BY <1>18 DEF TellTimeout, HolderOK
  <2>2. /\ told' \in [Settlements -> [Topics -> Nat]]
        /\ \A s \in Settlements : told'[s]["payout.completed"] = told[s]["payout.completed"]
    <3>1. Publish(x, "payout.failed") \/ UNCHANGED told
      BY <1>18, <2>1 DEF TellTimeout
    <3> QED
      BY <3>1, PublishHolds DEF Topics, WorldOK
  <2>3. RowsOK' /\ WorldOK' /\ UNCHANGED <<asked, ramp, bank, sent>>
    BY <1>18, <2>2 DEF TellTimeout, RowsOK, WorldOK
  <2>4. CASE Finish(p)
    BY <1>1, <2>2, <2>3, <2>4
  <2>5. CASE Goto(p, "reopen")
    <3>1. LocalsOK' /\ Others(p) /\ pc'[p] = "reopen" /\ on'[p] = x /\ was'[p] = was[p]
      BY <2>1, <2>5, GotoHolds DEF PCs
    <3>2. HolderOK(p)'
      BY <1>18, <3>1 DEF TellTimeout, HolderOK
    <3>3. SafeInv'
      BY <2>2, <2>3, <3>1, SafeQuiet
    <3> QED
      BY <1>0, <2>3, <3>1, <3>2, <3>3
  <2> QED
    BY <1>18, <2>4, <2>5 DEF TellTimeout
<1>19. ASSUME NEW p \in Procs, Reopen(p) PROVE Inv'
  <2>1. PICK x \in Settlements : x = on[p]
    BY <1>19 DEF Reopen, HolderOK
  <2>2. /\ UNCHANGED <<asked, bank, sent, told>> /\ was[p] \in {"pending", "converting"}
        /\ LocalsOK' /\ Others(p) /\ HolderOK(p)' /\ pc'[p] = "idle"
    BY <1>19, FinishHolds DEF Reopen, HolderOK
  <2>3. CASE UNCHANGED <<ramp, quiet>>
    <3>1. RowsOK' /\ WorldOK'
      BY <1>19, <2>3 DEF Reopen, RowsOK, WorldOK
    <3> QED
      BY <1>1, <1>19, <2>2, <2>3, <3>1 DEF Reopen
  <2>4. CASE ramp[x] = "failed" /\ ramp' = [ramp EXCEPT ![x] = was[p]] /\ quiet' = quiet \cup {x}
    <3>1. /\ RowsOK' /\ WorldOK' /\ ramp'[x] = was[p]
          /\ \A s \in Settlements \ {x} : ramp'[s] = ramp[s]
      BY <1>19, <2>1, <2>2, <2>4 DEF Reopen, RowsOK, WorldOK, RampStatuses
    <3> QED
      BY <1>9, <2>1, <2>2, <2>4, <3>1
  <2> QED
    BY <1>19, <2>1, <2>3, <2>4 DEF Reopen
<1>20. ASSUME NEW p \in Procs, Crash(p) \/ Throws(p) PROVE Inv'
  <2>1. RowsOK' /\ WorldOK' /\ UNCHANGED <<asked, ramp, bank, sent, told>> /\ Finish(p)
    BY <1>20 DEF Crash, Throws, RowsOK, WorldOK
  <2> QED
    BY <1>1, <2>1
<1>21. ASSUME NEW s \in Settlements, Converts(s) \/ PaysOut(s) PROVE Inv'
  <2>1. RowsOK' /\ WorldOK' /\ LocalsOK'
    <3>1. UNCHANGED <<settled, ramps, locals, told, acted, fails, asked>>
      BY <1>21 DEF Converts, PaysOut
    <3>2. bank' \in [Settlements -> {"none", "asked", "landed", "refused"}]
      BY <1>21 DEF Converts, PaysOut, WorldOK
    <3>3. sent' \in SUBSET (Settlements \X Kinds)
      BY <1>21 DEF Converts, PaysOut, WorldOK, Kinds
    <3>4. RowsOK' /\ LocalsOK'
      BY <3>1 DEF RowsOK, LocalsOK
    <3> QED
      BY <3>1, <3>2, <3>3, <3>4 DEF WorldOK
  <2>2. \A q \in Procs : HolderOK(q)'
    BY <1>21 DEF Converts, PaysOut, HolderOK
  <2>3. /\ UNCHANGED <<asked, ramp, told, pc, on>>
        /\ \A x \in Settlements : bank[x] = "landed" => bank'[x] = "landed"
        /\ \A x \in Settlements : <<x, "paid">> \in sent' => <<x, "paid">> \in sent \/ bank'[x] = "landed"
    BY <1>21 DEF Converts, PaysOut, WorldOK
  <2>4. ASSUME NEW x \in Settlements PROVE RowInv(x)'
    <3>1. RowInv(x) /\ Completed(x)' = Completed(x)
      BY <2>3 DEF SafeInv, Completed
    <3> QED
      BY <2>3, <3>1 DEF RowInv
  <2>5. \A x \in Settlements, q \in Procs : HoldInv(q, x)'
    BY <2>3 DEF SafeInv, HoldInv, Completed, Asks, Tells
  <2> QED
    BY <2>1, <2>2, <2>4, <2>5, TypePartsNext DEF Inv, TypeInv, SafeInv
<1>22. ASSUME UNCHANGED <<asked, ramp, bank, sent, told, acted, fails, locals, intent, linked, payment>>,
              claimed' \in SUBSET Settlements, lapsed' \in SUBSET Settlements,
              quiet' \in SUBSET Settlements
       PROVE  Inv'
  <2>1. RowsOK' /\ WorldOK' /\ LocalsOK' /\ \A q \in Procs : HolderOK(q)'
    BY <1>22 DEF RowsOK, WorldOK, LocalsOK, HolderOK
  <2>2. SafeInv'
    BY <1>22 DEF SafeInv, RowInv, HoldInv, Completed, Asks, Tells
  <2> QED
    BY <2>1, <2>2, TypePartsNext DEF Inv, TypeInv
<1>23. ASSUME NEW s \in Settlements, Lapses(s) \/ GoesQuiet(s) PROVE Inv'
  BY <1>22, <1>23 DEF Lapses, GoesQuiet, RowsOK
<1>24. CASE UNCHANGED vars
  BY <1>22, <1>24 DEF vars, RowsOK
<1> QED
  BY <1>3, <1>4, <1>5, <1>6, <1>7, <1>8, <1>10, <1>11, <1>12, <1>13, <1>14, <1>15, <1>16, <1>17,
     <1>18, <1>19, <1>20, <1>21, <1>23, <1>24
  DEF Next, Step, CompletionStep, HookStep, TimerStep

LEMMA InvHolds == Spec => []Inv
  BY InitInv, InvStep, PTL DEF Spec

\* Rows, reports and processes keep their types through crashes and replays.
THEOREM TypeCorrect == Spec => []TypeOK
  BY InvHolds, PTL DEF Inv, TypeInv

\* One conversion at most is asked for per settlement, however often its
\* completion is resumed and wherever it died.
THEOREM ConversionAskedOnce == Spec => []AskedOnce
<1>1. Inv => AskedOnce
  BY DEF Inv, SafeInv, RowInv, AskedOnce
<1> QED
  BY <1>1, InvHolds, PTL

\* payout.completed is published once at most, and only for naira that landed.
THEOREM CompletionToldOnce == Spec => []CompletedToldOnce
<1>1. Inv => CompletedToldOnce
  BY DEF Inv, SafeInv, RowInv, Completed, CompletedToldOnce
<1> QED
  BY <1>1, InvHolds, PTL

\* Whoever moves a row found it open, or failed and its own to put back.
LEMMA RampMoves ==
  ASSUME Inv, [Next]_vars
  PROVE  \/ UNCHANGED ramp
         \/ /\ UNCHANGED bank
            /\ \A s \in Settlements : ramp[s] = "paid" => ramp'[s] = "paid"
<1> RowsOK /\ \A p \in Procs : HolderOK(p)
  BY TypeParts DEF Inv, TypeInv
<1>1. ASSUME NEW p \in Procs, NEW to \in RampStatuses, on[p] \in Settlements,
             ramp[on[p]] # "paid", SetRamp(on[p], to)
      PROVE  \A s \in Settlements : ramp[s] = "paid" => ramp'[s] = "paid"
  BY <1>1, SetRampHolds
<1>2. ASSUME NEW p \in Procs, OpenRamp(p) \/ HandleProcessing(p) \/ HandlePaid(p) \/ HandleFailed(p)
      PROVE  UNCHANGED ramp \/ /\ UNCHANGED bank
                               /\ \A s \in Settlements : ramp[s] = "paid" => ramp'[s] = "paid"
  BY <1>1, <1>2 DEF OpenRamp, HandleProcessing, HandlePaid, HandleFailed, Unopened, Payable,
                    HolderOK, RampStatuses
<1>3. ASSUME NEW p \in Procs, TimeOut(p)
      PROVE  UNCHANGED ramp \/ /\ UNCHANGED bank
                               /\ \A s \in Settlements : ramp[s] = "paid" => ramp'[s] = "paid"
  BY <1>1, <1>3 DEF TimeOut, StillStuck, HolderOK, RampStatuses
<1>4. ASSUME NEW p \in Procs, Reopen(p)
      PROVE  UNCHANGED ramp \/ /\ UNCHANGED bank
                               /\ \A s \in Settlements : ramp[s] = "paid" => ramp'[s] = "paid"
  BY <1>4 DEF Reopen, RowsOK
<1>5. CASE UNCHANGED vars
  BY <1>5 DEF vars
<1>6. ASSUME NEW p \in Procs,
             \/ ReadLink(p) \/ Withdraw(p) \/ TellInitiated(p) \/ RecordPayment(p)
             \/ CompleteDeferred(p) \/ TellPayout(p) \/ TellTimeout(p) \/ Crash(p) \/ Throws(p)
      PROVE  UNCHANGED ramp
  BY <1>6 DEF ReadLink, Withdraw, TellInitiated, RecordPayment, CompleteDeferred, TellPayout,
              TellTimeout, Crash, Throws
<1>7. ASSUME NEW s \in Settlements, Converts(s) \/ PaysOut(s) \/ Lapses(s) \/ GoesQuiet(s)
      PROVE  UNCHANGED ramp
  BY <1>7 DEF Converts, PaysOut, Lapses, GoesQuiet
<1>8. ASSUME NEW p \in Procs, NEW s \in Settlements, NEW k \in Kinds,
             ClaimSettlement(p, s) \/ Resume(p, s) \/ Receive(p, s, k) \/ SelectStuck(p, s)
      PROVE  UNCHANGED ramp
  BY <1>8 DEF ClaimSettlement, Resume, Receive, SelectStuck
<1>9. Workers \subseteq Procs /\ Hooks \subseteq Procs /\ Timers \subseteq Procs /\ "paid" \in Kinds
  BY DEF Procs, Kinds
<1> QED
  BY <1>2, <1>3, <1>4, <1>5, <1>6, <1>7, <1>8, <1>9
  DEF Next, Step, CompletionStep, HookStep, TimerStep

\* A row that is paid stays paid, and was paid with naira that had landed.
THEOREM PaidIsFinal == Spec => PaidStaysPaid
<1>1. Inv /\ Inv' /\ [Next]_vars =>
        \A s \in Settlements : /\ ramp[s] = "paid" => ramp'[s] = "paid"
                               /\ ramp'[s] = "paid" => bank[s] = "landed"
  <2> SUFFICES ASSUME Inv, Inv', [Next]_vars, NEW s \in Settlements
               PROVE  /\ ramp[s] = "paid" => ramp'[s] = "paid"
                      /\ ramp'[s] = "paid" => bank[s] = "landed"
    OBVIOUS
  <2>1. /\ ramp[s] = "paid" => bank[s] = "landed"
        /\ ramp'[s] = "paid" => bank'[s] = "landed"
    BY DEF Inv, SafeInv, RowInv
  <2> QED
    BY <2>1, RampMoves
<1> QED
  BY <1>1, InvHolds, PTL DEF Spec, PaidStaysPaid

-----------------------------------------------------------------------------
(* NairaPayout implements PayoutPromise: a row that is pending or converting  *)
(* is open, and the steps that only prepare a write are invisible.            *)

Payout(s) == IF ramp[s] \in {"pending", "converting"} THEN "open" ELSE ramp[s]
Receipts(s) == told[s]["payment.succeeded"]

\* The bank has heard of no settlement it was not asked about, and a Payment
\* succeeds, and says so, on a paid row alone.
ReceiptInv ==
  \A s \in Settlements :
    /\ asked[s] = 0 => bank[s] = "none"
    /\ intent[s] = "settling" => Receipts(s) = 0
    /\ Receipts(s) <= 1
    /\ intent[s] = "succeeded" => ramp[s] = "paid"

\* Publishing on one topic leaves the others alone.
LEMMA OtherTopics ==
  ASSUME WorldOK, NEW s \in Settlements, NEW topic \in Topics, Publish(s, topic)
  PROVE  /\ topic # "payment.succeeded" => \A x \in Settlements : Receipts(x)' = Receipts(x)
         /\ topic # "payout.completed" => \A x \in Settlements : Completed(x)' = Completed(x)
  BY PublishHolds DEF Receipts, Completed, Topics

\* What a process step does outside itself, but for the two that write more.
LEMMA HeldBack ==
  ASSUME Inv, NEW p \in Procs,
         \/ ReadLink(p) \/ OpenRamp(p) \/ TellInitiated(p) \/ RecordPayment(p)
         \/ HandleProcessing(p) \/ HandlePaid(p) \/ HandleFailed(p) \/ TellPayout(p)
         \/ TimeOut(p) \/ TellTimeout(p) \/ Reopen(p) \/ Crash(p) \/ Throws(p)
  PROVE  /\ UNCHANGED <<asked, bank, intent>>
         /\ \A s \in Settlements : Receipts(s)' = Receipts(s)
<1> WorldOK /\ \A q \in Procs : HolderOK(q)
  BY TypeParts DEF Inv, TypeInv
<1>1. CASE \/ ReadLink(p) \/ OpenRamp(p) \/ RecordPayment(p)
           \/ HandleProcessing(p) \/ HandlePaid(p) \/ HandleFailed(p)
           \/ TimeOut(p) \/ Reopen(p) \/ Crash(p) \/ Throws(p)
  BY <1>1 DEF ReadLink, OpenRamp, RecordPayment, HandleProcessing, HandlePaid, HandleFailed,
              TimeOut, Reopen, Crash, Throws, Receipts
<1>2. CASE TellInitiated(p)
  BY <1>2, OtherTopics DEF TellInitiated, HolderOK, Topics
<1>3. CASE TellPayout(p)
  BY <1>3, OtherTopics DEF TellPayout, HolderOK, Topics
<1>4. CASE TellTimeout(p)
  <2>1. Publish(on[p], "payout.failed") \/ UNCHANGED told
    BY <1>4 DEF TellTimeout
  <2> QED
    BY <1>4, <2>1, OtherTopics DEF TellTimeout, HolderOK, Topics, Receipts
<1> QED
  BY <1>1, <1>2, <1>3, <1>4

LEMMA CompletesOnce ==
  ASSUME Inv, ReceiptInv, NEW p \in Procs, CompleteDeferred(p)
  PROVE  \E x \in Settlements :
           /\ ramp[x] = "paid" /\ UNCHANGED <<asked, bank, ramp>>
           /\ \A s \in Settlements : Completed(s)' = Completed(s)
           /\ \/ /\ UNCHANGED intent
                 /\ \A s \in Settlements : Receipts(s)' = Receipts(s)
              \/ /\ intent[x] = "settling" /\ intent' = [intent EXCEPT ![x] = "succeeded"]
                 /\ \A s \in Settlements : Receipts(s)' = IF s = x THEN 1 ELSE Receipts(s)
<1>1. PICK x \in Settlements : x = on[p]
  BY DEF CompleteDeferred, Inv, TypeInv, HolderOK
<1>2. RowsOK /\ WorldOK /\ ramp[x] = "paid"
  <2>1. HoldInv(p, x) /\ Tells(p, x)
    BY <1>1 DEF Inv, SafeInv, CompleteDeferred, Tells
  <2> QED
    BY <2>1, TypeParts DEF HoldInv, Inv, TypeInv
<1>3. \A s \in Settlements : Completed(s)' = Completed(s)
  BY <1>1, <1>2 DEF CompleteDeferred, Completed, WorldOK, Topics
<1>4. UNCHANGED <<asked, bank, ramp>>
  BY DEF CompleteDeferred
<1>5. CASE x \in linked /\ intent[x] = "settling"
  <2>1. intent' = [intent EXCEPT ![x] = "succeeded"]
    BY <1>1, <1>5 DEF CompleteDeferred
  <2>2. \A s \in Settlements : Receipts(s)' = IF s = x THEN Receipts(s) + 1 ELSE Receipts(s)
    BY <1>1, <1>2, <1>5 DEF CompleteDeferred, Receipts, WorldOK, Topics
  <2>3. Receipts(x) = 0
    BY <1>5 DEF ReceiptInv
  <2>4. \A s \in Settlements : Receipts(s)' = IF s = x THEN 1 ELSE Receipts(s)
    BY <2>2, <2>3
  <2> WITNESS x \in Settlements
  <2> QED
    BY <1>2, <1>3, <1>4, <1>5, <2>1, <2>4
<1>6. CASE ~(x \in linked /\ intent[x] = "settling")
  <2>1. UNCHANGED intent /\ \A s \in Settlements : Receipts(s)' = Receipts(s)
    BY <1>1, <1>2, <1>6 DEF CompleteDeferred, Receipts, RowsOK, WorldOK, Topics
  <2> QED
    BY <1>2, <1>3, <1>4, <2>1
<1> QED
  BY <1>5, <1>6

LEMMA AsksOnce ==
  ASSUME Inv, ReceiptInv, NEW p \in Procs, Withdraw(p)
  PROVE  \E x \in Settlements :
           /\ asked[x] = 0 /\ bank[x] = "none" /\ ramp[x] # "none"
           /\ asked' = [asked EXCEPT ![x] = 1] /\ bank' = [bank EXCEPT ![x] = "asked"]
           /\ UNCHANGED <<ramp, intent, told>>
<1>1. PICK x \in Settlements : x = on[p]
  BY DEF Withdraw, Inv, TypeInv, HolderOK
<1>2. asked[x] = 0 /\ ramp[x] # "none"
  <2>1. HoldInv(p, x) /\ Asks(p, x)
    BY <1>1 DEF Inv, SafeInv, Withdraw, Asks
  <2> QED
    BY <2>1 DEF HoldInv
<1>3. bank[x] = "none"
  BY <1>2 DEF ReceiptInv
<1>4. /\ asked' = [asked EXCEPT ![x] = 1] /\ bank' = [bank EXCEPT ![x] = "asked"]
      /\ UNCHANGED <<ramp, intent, told>>
  <2>1. asked' = [asked EXCEPT ![x] = asked[x] + 1]
    BY <1>1 DEF Withdraw
  <2>2. bank' = [bank EXCEPT ![x] = IF bank[x] = "none" THEN "asked" ELSE bank[x]]
    BY <1>1 DEF Withdraw
  <2>3. UNCHANGED <<ramp, intent, told>>
    BY DEF Withdraw
  <2>4. asked[x] + 1 = 1
    BY <1>2
  <2> QED
    BY <1>3, <2>1, <2>2, <2>3, <2>4
<1> WITNESS x \in Settlements
<1> QED
  BY <1>2, <1>3, <1>4

LEMMA ReceiptStep == Inv /\ ReceiptInv /\ [Next]_vars => ReceiptInv'
<1> SUFFICES ASSUME Inv, ReceiptInv, [Next]_vars PROVE ReceiptInv'
  OBVIOUS
<1> RowsOK /\ WorldOK
  BY TypeParts DEF Inv, TypeInv
<1> Workers \subseteq Procs /\ Hooks \subseteq Procs /\ Timers \subseteq Procs
  BY DEF Procs
<1>0. \A s \in Settlements : ramp[s] = "paid" => ramp'[s] = "paid"
  BY RampMoves
<1>1. ASSUME UNCHANGED <<asked, bank, intent>>, \A s \in Settlements : Receipts(s)' = Receipts(s)
      PROVE  ReceiptInv'
  BY <1>0, <1>1 DEF ReceiptInv
<1>2. ASSUME NEW p \in Procs,
             \/ ReadLink(p) \/ OpenRamp(p) \/ TellInitiated(p) \/ RecordPayment(p)
             \/ HandleProcessing(p) \/ HandlePaid(p) \/ HandleFailed(p) \/ TellPayout(p)
             \/ TimeOut(p) \/ TellTimeout(p) \/ Reopen(p) \/ Crash(p) \/ Throws(p)
      PROVE  ReceiptInv'
  BY <1>1, <1>2, HeldBack
<1>3. ASSUME NEW p \in Procs, CompleteDeferred(p) PROVE ReceiptInv'
  <2>1. PICK x \in Settlements :
           /\ ramp[x] = "paid" /\ UNCHANGED <<asked, bank, ramp>>
           /\ \/ /\ UNCHANGED intent
                 /\ \A s \in Settlements : Receipts(s)' = Receipts(s)
              \/ /\ intent[x] = "settling" /\ intent' = [intent EXCEPT ![x] = "succeeded"]
                 /\ \A s \in Settlements : Receipts(s)' = IF s = x THEN 1 ELSE Receipts(s)
    BY <1>3, CompletesOnce
  <2>2. CASE UNCHANGED intent /\ \A s \in Settlements : Receipts(s)' = Receipts(s)
    BY <1>1, <2>1, <2>2
  <2>3. CASE /\ intent' = [intent EXCEPT ![x] = "succeeded"]
             /\ \A s \in Settlements : Receipts(s)' = IF s = x THEN 1 ELSE Receipts(s)
    <3>1. \A s \in Settlements : intent'[s] = IF s = x THEN "succeeded" ELSE intent[s]
      BY <2>3 DEF RowsOK
    <3> QED
      BY <2>1, <2>3, <3>1 DEF ReceiptInv
  <2> QED
    BY <2>1, <2>2, <2>3
<1>4. ASSUME NEW p \in Procs, Withdraw(p) PROVE ReceiptInv'
  <2>1. PICK x \in Settlements :
           /\ asked' = [asked EXCEPT ![x] = 1] /\ bank' = [bank EXCEPT ![x] = "asked"]
           /\ UNCHANGED <<ramp, intent, told>>
    BY <1>4, AsksOnce
  <2>2. \A s \in Settlements : asked'[s] = 0 => asked[s] = 0 /\ bank'[s] = bank[s]
    BY <2>1 DEF WorldOK
  <2> QED
    BY <2>1, <2>2 DEF ReceiptInv, Receipts
<1>5. ASSUME NEW s \in Settlements, PaysOut(s) PROVE ReceiptInv'
  <2>1. \A x \in Settlements : bank'[x] = bank[x] \/ bank[x] = "asked"
    BY <1>5 DEF PaysOut, WorldOK
  <2> QED
    BY <1>5, <2>1 DEF PaysOut, ReceiptInv, Receipts
<1>6. ASSUME NEW s \in Settlements, Converts(s) \/ Lapses(s) \/ GoesQuiet(s) PROVE ReceiptInv'
  BY <1>1, <1>6 DEF Converts, Lapses, GoesQuiet, Receipts
<1>7. ASSUME NEW p \in Procs, NEW s \in Settlements, NEW k \in Kinds,
             ClaimSettlement(p, s) \/ Resume(p, s) \/ Receive(p, s, k) \/ SelectStuck(p, s)
      PROVE  ReceiptInv'
  BY <1>1, <1>7 DEF ClaimSettlement, Resume, Receive, SelectStuck, Receipts
<1>8. CASE UNCHANGED vars
  BY <1>1, <1>8 DEF vars, Receipts
<1> QED
  BY <1>2, <1>3, <1>4, <1>5, <1>6, <1>7, <1>8
  DEF Next, Step, CompletionStep, HookStep, TimerStep, Kinds

LEMMA ReceiptHolds == Spec => []ReceiptInv
<1>1. Init => ReceiptInv
  BY DEF Init, ReceiptInv, Receipts, Topics
<1> QED
  BY <1>1, ReceiptStep, InvHolds, PTL DEF Spec

\* Nobody outside sees the step.
LEMMA Unseen ==
  ASSUME UNCHANGED <<asked, bank, intent>>,
         \A s \in Settlements : /\ Payout(s)' = Payout(s)
                                /\ Receipts(s)' = Receipts(s) /\ Completed(s)' = Completed(s)
  PROVE  UNCHANGED Promise!promise
  BY DEF Promise!promise, Payout, Receipts, Completed

\* A write to one row turns its payout.
LEMMA RowTurns ==
  ASSUME Inv, NEW x \in Settlements, NEW to \in RampStatuses \ {"none"},
         ramp' = [ramp EXCEPT ![x] = to], UNCHANGED <<asked, bank, intent, told>>,
         \/ ramp[x] = "none" /\ to = "pending"
         \/ ramp[x] \in {"pending", "converting"} /\ to # "paid"
         \/ ramp[x] = "pending" /\ to = "paid" /\ bank[x] = "landed"
         \/ ramp[x] = "failed" /\ to \in {"pending", "converting"}
  PROVE  Promise!Next \/ UNCHANGED Promise!promise
<1> RowsOK
  BY TypeParts DEF Inv, TypeInv
<1> DEFINE payout == [s \in Settlements |->
                        IF ramp[s] \in {"pending", "converting"} THEN "open" ELSE ramp[s]]
           from == Payout(x)
           onto == IF to \in {"pending", "converting"} THEN "open" ELSE to
<1>1. \A s \in Settlements : Payout(s)' = IF s = x THEN onto ELSE Payout(s)
  BY DEF RowsOK, Payout
<1>2. payout[x] = from /\ payout' = [payout EXCEPT ![x] = onto]
  BY <1>1 DEF Payout
<1>3. UNCHANGED [s \in Settlements |-> told[s]["payment.succeeded"]]
      /\ UNCHANGED [s \in Settlements |-> told[s]["payout.completed"]]
  OBVIOUS
<1>4. Promise!Turn(x, from, onto)
  BY <1>2, <1>3 DEF Promise!Turn
<1> HIDE DEF payout
<1>5. CASE ramp[x] = "none" /\ to = "pending"
  <2>1. from = "none" /\ onto = "open"
    BY <1>5 DEF Payout
  <2> QED
    BY <1>4, <2>1 DEF Promise!Next, Promise!Open
<1>6. CASE ramp[x] \in {"pending", "converting"} /\ to = "failed"
  <2>1. from = "open" /\ onto = "failed"
    BY <1>6 DEF Payout
  <2> QED
    BY <1>4, <2>1 DEF Promise!Next, Promise!GiveUp
<1>7. CASE ramp[x] = "pending" /\ to = "paid" /\ bank[x] = "landed"
  <2>1. from = "open" /\ onto = "paid"
    BY <1>7 DEF Payout
  <2> QED
    BY <1>4, <1>7, <2>1 DEF Promise!Next, Promise!Pay
<1>8. CASE ramp[x] = "failed" /\ to \in {"pending", "converting"}
  <2>1. from = "failed" /\ onto = "open"
    BY <1>8 DEF Payout
  <2> QED
    BY <1>4, <2>1 DEF Promise!Next, Promise!Reopen
<1>9. CASE ramp[x] \in {"pending", "converting"} /\ to \in {"pending", "converting"}
  <2>1. \A s \in Settlements : Payout(s)' = Payout(s)
    BY <1>1, <1>9 DEF Payout
  <2> QED
    BY <2>1, Unseen DEF Receipts, Completed
<1> QED
  BY <1>5, <1>6, <1>7, <1>8, <1>9 DEF RampStatuses

LEMMA PromiseStep ==
  ASSUME Inv, Inv', ReceiptInv, [Next]_vars
  PROVE  [Promise!Next]_(Promise!promise)
<1> DEFINE Done == UNCHANGED Promise!promise \/ Promise!Next
<1> SUFFICES Done
  BY Zenon
<1> RowsOK /\ WorldOK /\ \A p \in Procs : HolderOK(p)
  BY TypeParts DEF Inv, TypeInv
<1> Workers \subseteq Procs /\ Hooks \subseteq Procs /\ Timers \subseteq Procs
  BY DEF Procs
<1>1. ASSUME UNCHANGED <<asked, bank, intent, ramp, told>> PROVE Done
  BY <1>1, Unseen DEF Payout, Receipts, Completed
<1>2. ASSUME NEW p \in Procs,
             \/ OpenRamp(p) \/ HandleProcessing(p) \/ HandlePaid(p) \/ HandleFailed(p)
             \/ TimeOut(p) \/ Reopen(p)
      PROVE  Done
  <2>1. UNCHANGED <<asked, bank, intent, told>>
    BY <1>2 DEF OpenRamp, HandleProcessing, HandlePaid, HandleFailed, TimeOut, Reopen
  <2>2. PICK x \in Settlements : x = on[p]
    BY <1>2 DEF OpenRamp, HandleProcessing, HandlePaid, HandleFailed, TimeOut, Reopen, HolderOK
  <2>3. HandlePaid(p) => bank[x] = "landed"
    BY <2>2 DEF HandlePaid, HolderOK, Inv, SafeInv, RowInv
  <2>4. TimeOut(p) \/ Reopen(p) => was[p] \in {"pending", "converting"}
    BY DEF TimeOut, Reopen, HolderOK
  <2>5. \/ UNCHANGED ramp
        \/ \E to \in RampStatuses \ {"none"} :
             /\ ramp' = [ramp EXCEPT ![x] = to]
             /\ \/ ramp[x] = "none" /\ to = "pending"
                \/ ramp[x] \in {"pending", "converting"} /\ to # "paid"
                \/ ramp[x] = "pending" /\ to = "paid" /\ bank[x] = "landed"
                \/ ramp[x] = "failed" /\ to \in {"pending", "converting"}
    <3>1. CASE OpenRamp(p)
      BY <2>2, <3>1 DEF OpenRamp, Unopened, SetRamp, RampStatuses
    <3>2. CASE HandleProcessing(p) \/ HandleFailed(p)
      BY <2>2, <3>2 DEF HandleProcessing, HandleFailed, SetRamp, RampStatuses
    <3>3. CASE HandlePaid(p)
      BY <2>2, <2>3, <3>3 DEF HandlePaid, Payable, SetRamp, RampStatuses
    <3>4. CASE TimeOut(p)
      BY <2>2, <2>4, <3>4 DEF TimeOut, StillStuck, SetRamp, RampStatuses
    <3>5. CASE Reopen(p)
      BY <2>2, <2>4, <3>5 DEF Reopen, RampStatuses
    <3> QED
      BY <1>2, <3>1, <3>2, <3>3, <3>4, <3>5
  <2> QED
    BY <1>1, <2>1, <2>5, RowTurns
<1>3. ASSUME NEW p \in Procs,
             ReadLink(p) \/ RecordPayment(p) \/ Crash(p) \/ Throws(p)
      PROVE  Done
  BY <1>1, <1>3 DEF ReadLink, RecordPayment, Crash, Throws
<1>4. ASSUME NEW p \in Procs, TellInitiated(p) \/ TellTimeout(p) PROVE Done
  <2>1. UNCHANGED <<asked, bank, intent, ramp>> /\ \A s \in Settlements : Receipts(s)' = Receipts(s)
    BY <1>4, HeldBack DEF TellInitiated, TellTimeout
  <2>2. \A s \in Settlements : Completed(s)' = Completed(s)
    <3>1. \/ Publish(on[p], "payout.initiated") \/ Publish(on[p], "payout.failed")
          \/ UNCHANGED told
      BY <1>4 DEF TellInitiated, TellTimeout
    <3>2. on[p] \in Settlements
      BY <1>4 DEF TellInitiated, TellTimeout, HolderOK
    <3> QED
      BY <3>1, <3>2, OtherTopics DEF Topics, Completed
  <2> QED
    BY <2>1, <2>2, Unseen DEF Payout
<1>5. ASSUME NEW p \in Procs, TellPayout(p) PROVE Done
  <2>1. UNCHANGED <<asked, bank, intent, ramp>> /\ \A s \in Settlements : Receipts(s)' = Receipts(s)
    BY <1>5, HeldBack DEF TellPayout
  <2>2. PICK x \in Settlements : x = on[p]
    BY <1>5 DEF TellPayout, HolderOK
  <2>3. CASE pc[p] = "tellFailed" /\ Publish(x, "payout.failed")
    BY <2>1, <2>3, OtherTopics, Unseen DEF Topics, Payout
  <2>4. CASE pc[p] = "tellCompleted" /\ Publish(x, "payout.completed")
    <3>1. Completed(x) = 0 /\ ramp[x] = "paid"
      BY <2>2, <2>4 DEF Inv, SafeInv, HoldInv, Tells
    <3>2. \A s \in Settlements : Completed(s)' = IF s = x THEN 1 ELSE Completed(s)
      BY <2>4, <3>1, PublishHolds DEF Completed, Topics
    <3> DEFINE notices == [s \in Settlements |-> told[s]["payout.completed"]]
    <3>3. notices[x] = 0 /\ notices' = [notices EXCEPT ![x] = 1]
      BY <3>1, <3>2 DEF Completed
    <3>4. UNCHANGED [s \in Settlements |-> told[s]["payment.succeeded"]]
      BY <2>1 DEF Receipts
    <3>5. UNCHANGED [s \in Settlements |->
                       IF ramp[s] \in {"pending", "converting"} THEN "open" ELSE ramp[s]]
      BY <2>1
    <3>6. Promise!Announce(x)
      BY <2>1, <3>1, <3>3, <3>4, <3>5 DEF Promise!Announce
    <3> QED
      BY <3>6 DEF Promise!Next
  <2> QED
    BY <1>5, <2>2, <2>3, <2>4 DEF TellPayout
<1>6. ASSUME NEW p \in Procs, CompleteDeferred(p) PROVE Done
  <2>1. PICK x \in Settlements :
           /\ ramp[x] = "paid" /\ UNCHANGED <<asked, bank, ramp>>
           /\ \A s \in Settlements : Completed(s)' = Completed(s)
           /\ \/ /\ UNCHANGED intent
                 /\ \A s \in Settlements : Receipts(s)' = Receipts(s)
              \/ /\ intent[x] = "settling" /\ intent' = [intent EXCEPT ![x] = "succeeded"]
                 /\ \A s \in Settlements : Receipts(s)' = IF s = x THEN 1 ELSE Receipts(s)
    BY <1>6, CompletesOnce
  <2>2. CASE UNCHANGED intent /\ \A s \in Settlements : Receipts(s)' = Receipts(s)
    BY <2>1, <2>2, Unseen DEF Payout
  <2>3. CASE /\ intent[x] = "settling" /\ intent' = [intent EXCEPT ![x] = "succeeded"]
             /\ \A s \in Settlements : Receipts(s)' = IF s = x THEN 1 ELSE Receipts(s)
    <3> DEFINE receipts == [s \in Settlements |-> told[s]["payment.succeeded"]]
    <3>1. receipts' = [receipts EXCEPT ![x] = 1]
      BY <2>3 DEF Receipts
    <3>2. UNCHANGED [s \in Settlements |-> told[s]["payout.completed"]]
      BY <2>1 DEF Completed
    <3>3. UNCHANGED [s \in Settlements |->
                       IF ramp[s] \in {"pending", "converting"} THEN "open" ELSE ramp[s]]
      BY <2>1
    <3>4. Promise!Complete(x)
      BY <2>1, <2>3, <3>1, <3>2, <3>3 DEF Promise!Complete
    <3> QED
      BY <3>4 DEF Promise!Next
  <2> QED
    BY <2>1, <2>2, <2>3
<1>7. ASSUME NEW p \in Procs, Withdraw(p) PROVE Done
  <2>1. PICK x \in Settlements :
           /\ asked[x] = 0 /\ bank[x] = "none" /\ ramp[x] # "none"
           /\ asked' = [asked EXCEPT ![x] = 1] /\ bank' = [bank EXCEPT ![x] = "asked"]
           /\ UNCHANGED <<ramp, intent, told>>
    BY <1>7, AsksOnce
  <2>2. Promise!Ask(x)
    BY <2>1 DEF Promise!Ask
  <2> QED
    BY <2>2 DEF Promise!Next
<1>8. ASSUME NEW s \in Settlements, PaysOut(s) PROVE Done
  <2>1. PICK outcome \in {"landed", "refused"} : bank' = [bank EXCEPT ![s] = outcome]
    BY <1>8 DEF PaysOut
  <2>2. Promise!Convert(s, outcome)
    BY <1>8, <2>1 DEF PaysOut, Promise!Convert
  <2> QED
    BY <2>2 DEF Promise!Next
<1>9. ASSUME NEW s \in Settlements, Converts(s) \/ Lapses(s) \/ GoesQuiet(s) PROVE Done
  BY <1>1, <1>9 DEF Converts, Lapses, GoesQuiet
<1>10. ASSUME NEW p \in Procs, NEW s \in Settlements, NEW k \in Kinds,
              ClaimSettlement(p, s) \/ Resume(p, s) \/ Receive(p, s, k) \/ SelectStuck(p, s)
       PROVE  Done
  BY <1>1, <1>10 DEF ClaimSettlement, Resume, Receive, SelectStuck
<1>11. CASE UNCHANGED vars
  BY <1>1, <1>11 DEF vars
<1> QED
  BY <1>2, <1>3, <1>4, <1>5, <1>6, <1>7, <1>8, <1>9, <1>10, <1>11
  DEF Next, Step, CompletionStep, HookStep, TimerStep, Kinds

\* Completions, deliveries and timeouts that race, repeat and die keep the
\* promise: the naira are asked for once, a paid payout is final and true of
\* the bank, and the Payment is completed and both are announced once by it.
THEOREM PromiseKept == Spec => KeepsPromise
<1>1. Init => Promise!Init
  BY DEF Init, Promise!Init, Topics
<1>2. Inv /\ Inv' /\ ReceiptInv /\ [Next]_vars => [Promise!Next]_(Promise!promise)
  BY PromiseStep
<1> QED
  BY <1>1, <1>2, InvHolds, ReceiptHolds, PTL DEF Spec, KeepsPromise, Promise!Spec

-----------------------------------------------------------------------------
(* A payments row is written after its off-ramp row, which is therefore      *)
(* opened without it, and stays so.                                          *)

Unlinked ==
  /\ linked = {}
  /\ \A s \in Settlements : intent[s] = "settling" /\ (s \in payment => ramp[s] # "none")
  /\ \A p \in Procs :
       pc[p] \in {"withdraw", "tellInitiated", "record"} \/ (pc[p] = "open" /\ saw[p]) =>
         ramp[on[p]] # "none"

RampsStay == \A s \in Settlements : ramp[s] # "none" => ramp'[s] # "none"

\* What a step of p alone must show.
LEMMA UnlinkedFrame ==
  ASSUME TypeInv, Unlinked, NEW p \in Procs, Others(p), RampsStay, UNCHANGED <<intent, linked>>,
         \A s \in Settlements : s \in payment' => s \in payment \/ ramp'[s] # "none",
         pc'[p] \in {"withdraw", "tellInitiated", "record"} \/ (pc'[p] = "open" /\ saw'[p]) =>
           ramp'[on'[p]] # "none"
  PROVE  Unlinked'
<1>1. \A q \in Procs \ {p} : pc[q] # "idle" => on[q] \in Settlements
  BY DEF TypeInv, HolderOK
<1>2. \A q \in Procs \ {p} : pc'[q] = pc[q] /\ on'[q] = on[q] /\ saw'[q] = saw[q]
  BY DEF Others
<1> QED
  BY <1>1, <1>2 DEF Unlinked, RampsStay

LEMMA UnlinkedStep == Inv /\ Unlinked /\ [Next]_vars => Unlinked'
<1> SUFFICES ASSUME Inv, Unlinked, [Next]_vars PROVE Unlinked'
  OBVIOUS
<1>1. TypeInv /\ LocalsOK /\ RowsOK /\ WorldOK /\ \A q \in Procs : HolderOK(q)
  BY TypeParts DEF Inv, TypeInv
<1>2. Workers \subseteq Procs /\ Hooks \subseteq Procs /\ Timers \subseteq Procs
  BY DEF Procs
<1>3. ASSUME NEW p \in Procs, NEW s \in Settlements, NEW k \in Kinds,
             ClaimSettlement(p, s) \/ Resume(p, s) \/ Receive(p, s, k) \/ SelectStuck(p, s)
      PROVE  Unlinked'
  <2>1. /\ Others(p) /\ UNCHANGED <<intent, linked, ramp, payment>>
        /\ pc'[p] \in {"link", "timeout"} \cup Kinds
    BY <1>1, <1>3 DEF ClaimSettlement, Resume, Receive, SelectStuck, Begin, LocalsOK, Others, Kinds
  <2> QED
    BY <1>1, <2>1, UnlinkedFrame DEF RampsStay, Kinds
<1>4. ASSUME NEW p \in Procs, Finish(p), UNCHANGED <<intent, linked, ramp, payment>> PROVE Unlinked'
  BY <1>1, <1>4, FinishHolds, UnlinkedFrame DEF RampsStay
<1>5. ASSUME NEW p \in Procs, ReadLink(p) PROVE Unlinked'
  <2>1. /\ Others(p) /\ UNCHANGED <<intent, linked, ramp, payment>>
        /\ pc'[p] = "open" /\ on'[p] = on[p] /\ saw'[p] = (on[p] \in payment) /\ on[p] \in Settlements
    BY <1>1, <1>5 DEF ReadLink, LocalsOK, Others, HolderOK
  <2> QED
    BY <1>1, <2>1, UnlinkedFrame DEF RampsStay, Unlinked
<1>6. ASSUME NEW p \in Procs, OpenRamp(p) PROVE Unlinked'
  <2>1. on[p] \in Settlements /\ pc[p] = "open" /\ UNCHANGED <<intent, payment>>
    BY <1>1, <1>6 DEF OpenRamp, HolderOK
  <2>2. CASE ramp[on[p]] = "none"
    <3>1. ~saw[p]
      BY <2>1, <2>2 DEF Unlinked
    <3>2. SetRamp(on[p], "pending") /\ Goto(p, "withdraw") /\ UNCHANGED linked
      BY <1>6, <2>2, <3>1 DEF OpenRamp, Unopened
    <3>3. /\ ramp'[on[p]] = "pending" /\ \A x \in Settlements \ {on[p]} : ramp'[x] = ramp[x]
          /\ Others(p) /\ pc'[p] = "withdraw" /\ on'[p] = on[p]
      BY <1>1, <2>1, <3>2, SetRampHolds, GotoHolds DEF RampStatuses, PCs
    <3> QED
      BY <1>1, <2>1, <3>2, <3>3, UnlinkedFrame DEF RampsStay
  <2>3. CASE ramp[on[p]] # "none"
    <3>1. Goto(p, "record") /\ UNCHANGED <<ramp, linked>>
      BY <1>6, <2>3 DEF OpenRamp, Unopened
    <3>2. Others(p) /\ pc'[p] = "record" /\ on'[p] = on[p]
      BY <1>1, <3>1, GotoHolds DEF PCs
    <3> QED
      BY <1>1, <2>1, <2>3, <3>1, <3>2, UnlinkedFrame DEF RampsStay
  <2> QED
    BY <2>2, <2>3
<1>7. ASSUME NEW p \in Procs, Withdraw(p) \/ TellInitiated(p) PROVE Unlinked'
  <2>1. on[p] \in Settlements /\ ramp[on[p]] # "none" /\ UNCHANGED <<intent, linked, ramp, payment>>
    BY <1>1, <1>7 DEF Withdraw, TellInitiated, HolderOK, Unlinked
  <2>2. Finish(p) \/ Goto(p, "tellInitiated") \/ Goto(p, "record")
    BY <1>7 DEF Withdraw, TellInitiated
  <2>3. CASE Finish(p)
    BY <1>4, <2>1, <2>3
  <2>4. CASE Goto(p, "tellInitiated") \/ Goto(p, "record")
    <3>1. Others(p) /\ on'[p] = on[p]
      BY <1>1, <2>4, GotoHolds DEF PCs
    <3> QED
      BY <1>1, <2>1, <3>1, UnlinkedFrame DEF RampsStay
  <2> QED
    BY <2>2, <2>3, <2>4
<1>8. ASSUME NEW p \in Procs, RecordPayment(p) PROVE Unlinked'
  <2>1. /\ ramp[on[p]] # "none" /\ payment' = payment \cup {on[p]}
        /\ Finish(p) /\ UNCHANGED <<intent, linked, ramp>>
    BY <1>8 DEF RecordPayment, Unlinked
  <2> QED
    BY <1>1, <2>1, FinishHolds, UnlinkedFrame DEF RampsStay
<1>9. ASSUME NEW p \in Procs, CompleteDeferred(p) PROVE Unlinked'
  <2>1. on[p] \in Settlements /\ on[p] \notin linked
    BY <1>1, <1>9 DEF CompleteDeferred, HolderOK, Unlinked
  <2>2. UNCHANGED <<intent, linked, ramp, payment>>
    BY <1>1, <1>9, <2>1 DEF CompleteDeferred, RowsOK
  <2>3. Others(p) /\ pc'[p] = "tellCompleted"
    BY <1>1, <1>9, GotoHolds DEF CompleteDeferred, PCs
  <2> QED
    BY <1>1, <2>2, <2>3, UnlinkedFrame DEF RampsStay
\* What is written to a row from outside a completion is not the lack of one.
<1>10. ASSUME NEW p \in Procs, NEW to \in RampStatuses \ {"none"}, NEW label \in PCs,
              label \notin {"open", "withdraw", "tellInitiated", "record"},
              UNCHANGED ramp \/ SetRamp(on[p], to), Finish(p) \/ Goto(p, label),
              UNCHANGED <<intent, linked, payment>>, pc[p] # "idle"
       PROVE  Unlinked'
  <2>1. on[p] \in Settlements
    BY <1>1, <1>10 DEF HolderOK
  <2>2. RampsStay
    BY <1>1, <1>10, <2>1, SetRampHolds DEF RampsStay
  <2>3. Others(p) /\ pc'[p] \in {"idle", label}
    BY <1>1, <1>10, FinishHolds, GotoHolds
  <2> QED
    BY <1>1, <1>10, <2>2, <2>3, UnlinkedFrame
<1>11. ASSUME NEW p \in Procs, HandleProcessing(p) PROVE Unlinked'
  BY <1>10, <1>11 DEF HandleProcessing, RampStatuses, PCs
<1>12. ASSUME NEW p \in Procs, HandlePaid(p) PROVE Unlinked'
  BY <1>10, <1>12 DEF HandlePaid, RampStatuses, PCs
<1>13. ASSUME NEW p \in Procs, HandleFailed(p) PROVE Unlinked'
  BY <1>10, <1>13 DEF HandleFailed, RampStatuses, PCs
<1>14. ASSUME NEW p \in Procs, TellPayout(p) \/ Crash(p) \/ Throws(p) PROVE Unlinked'
  BY <1>4, <1>14 DEF TellPayout, Crash, Throws
<1>15. ASSUME NEW p \in Procs, TimeOut(p) PROVE Unlinked'
  BY <1>10, <1>15 DEF TimeOut, RampStatuses, PCs
<1>16. ASSUME NEW p \in Procs, TellTimeout(p) PROVE Unlinked'
  BY <1>10, <1>16 DEF TellTimeout, RampStatuses, PCs
<1>17. ASSUME NEW p \in Procs, Reopen(p) PROVE Unlinked'
  <2>1. on[p] \in Settlements /\ was[p] # "none" /\ Finish(p) /\ UNCHANGED <<intent, linked, payment>>
    BY <1>1, <1>17 DEF Reopen, HolderOK
  <2>2. RampsStay
    BY <1>1, <1>17, <2>1 DEF Reopen, RampsStay, RowsOK
  <2> QED
    BY <1>1, <2>1, <2>2, FinishHolds, UnlinkedFrame
<1>18. CASE UNCHANGED <<intent, linked, ramp, payment, pc, on, saw>>
  BY <1>18 DEF Unlinked
<1>19. ASSUME NEW s \in Settlements, Converts(s) \/ PaysOut(s) \/ Lapses(s) \/ GoesQuiet(s) PROVE Unlinked'
  BY <1>18, <1>19 DEF Converts, PaysOut, Lapses, GoesQuiet
<1>20. CASE UNCHANGED vars
  BY <1>18, <1>20 DEF vars
<1>21. Kinds # {}
  BY DEF Kinds
<1> QED
  BY <1>2, <1>3, <1>5, <1>6, <1>7, <1>8, <1>9, <1>11, <1>12, <1>13, <1>14, <1>15, <1>16, <1>17,
     <1>19, <1>20, <1>21
  DEF Next, Step, CompletionStep, HookStep, TimerStep

LEMMA UnlinkedHolds == Spec => []Unlinked
<1>1. Init => Unlinked
  BY DEF Init, Unlinked
<1> QED
  BY <1>1, UnlinkedStep, InvHolds, PTL DEF Spec

\* No Payment of this rail completes by itself, whatever races, repeats, times out or
\* dies: the first completion reads the payments row that it writes last, and no
\* later one opens the row again, so completeDeferredSettlement never has a
\* payment_id to go by.
NoneCompletes == \A s \in Settlements : s \notin linked /\ intent[s] = "settling"

THEOREM NoPaymentCompletes == Spec => []NoneCompletes
<1>1. Unlinked => NoneCompletes
  BY DEF Unlinked, NoneCompletes
<1> QED
  BY <1>1, UnlinkedHolds, PTL

=============================================================================
