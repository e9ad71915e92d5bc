------------------------ MODULE AccountChangesProofs ------------------------
(***************************************************************************)
(* Proofs about AccountChanges, for any number of keys, limits, requests   *)
(* and proposals.                                                          *)
(***************************************************************************)
EXTENDS AccountChanges, TLAPS

USE DEF database, chain, locks

-----------------------------------------------------------------------------
(* Types, and what a request may rely on where it is *)

\* What a column of a kind may stage.
Fits(f) == IF f = "limit" THEN Limits ELSE Keys

Jobs == [op : Flows \cup {None}, at : Points, index : 0..MaxIndex, out : Outcomes \cup {"none"},
         was : Values \cup {None}, to : Values \cup {None}, had : [Roles -> Keys \cup {None}],
         add : SUBSET RecoveryKeys, drop : SUBSET RecoveryKeys]

StagedOK ==
  /\ staged \in [Columns -> [to : Values \cup {None}, index : 0..MaxIndex]]
  /\ \A f \in Columns : /\ staged[f].to \in Fits(f) \cup {None}
                        /\ staged[f].index # 0 => staged[f].to \in Fits(f)

RowsOK ==
  /\ key \in [Roles -> Keys]
  /\ rows \in [RecoveryKeys -> [status : Statuses, index : 0..MaxIndex]]
  /\ contact \in EmailKeys
  /\ told \in SUBSET [what : {"staged", "executed", "rejected"}, index : Indices,
                      kind : Kinds \cup {None}, to : Values \cup {None}]
  /\ grant \in [Roles -> EmailKeys \cup {None}]

PreparedOK ==
  /\ prepared \in [Flows -> [step : {"none", "propose", "approve", "execute", "reject"},
                             index : 0..MaxIndex, change : Changes \cup {None},
                             by : SUBSET Keys]]
  /\ \A f \in Flows : prepared[f].step = "propose" => prepared[f].change \in Changes

ChainOK ==
  /\ tip \in 0..MaxIndex
  /\ proposal \in [Indices -> [change : Changes \cup {None}, votes : SUBSET Keys,
                               standing : Standings]]
  /\ \A i \in Indices : i <= tip => proposal[i].change \in Changes
  /\ closed \in SUBSET Indices
  /\ signers \in SUBSET Keys
  /\ limit \in Limits

LocksOK == {lock, keyLock} \subseteq Requests \cup {None} /\ fails \in 0..MaxFails

JobsOK == job \in [Requests -> Jobs]

HolderOK(r) ==
  LET j == job[r] IN
  /\ j.at \in {"stage", "announce", "look", "ask", "land", "resolve", "tell", "mark", "follow",
               "rows", "withdraw"} => j.index \in Indices
  /\ j.at = "stage" => j.op \in Columns
  /\ j.at \in {"announce", "look", "land", "clear"} => j.op \in Kinds
  /\ j.at \in {"ask", "resolve"} => j.op \in Columns
  /\ j.at \in {"tell", "landed"} => j.op \in Flows
  /\ j.at \in {"stage", "announce"} /\ j.op \in Columns => j.to \in Fits(j.op)
  /\ j.at \in {"look", "ask", "land", "resolve", "tell", "clear"} =>
       IF j.op \in Columns THEN j.to \in Fits(j.op) \cup {None} ELSE j.to = None
  /\ j.at \in {"look", "ask", "land", "resolve", "tell"} /\ j.op \in Columns => j.was \in Fits(j.op)
  /\ j.at \in {"look", "ask", "land"} \/ (j.at = "announce" /\ j.op \in Columns) => j.had \in [Roles -> Keys]
  /\ j.at \in {"resolve", "tell", "follow", "rows"} \/ (j.at = "land" /\ j.op = "recovery") =>
       j.out \in Outcomes
  /\ j.at \in {"retire", "check", "mark"} => j.op = "recovery" /\ j.to \in RecoveryKeys
  /\ j.at = "retire" => j.was \in RecoveryKeys
  /\ j.at \in {"follow", "rows"} => j.op \in {"recovery", "reject"} /\ j.to = None
  /\ j.at = "withdraw" => j.op = "reject"
  /\ j.at = "landed" /\ j.op = "reject" => j.index \in Indices
  /\ j.at = "consume" => j.op \in Roles

TablesOK == RowsOK /\ PreparedOK /\ ChainOK /\ LocksOK

TypeInv == StagedOK /\ TablesOK /\ JobsOK /\ \A r \in Requests : HolderOK(r)

LEMMA TypeInvTypes == TypeInv => TypeOK
  BY DEF TypeInv, TypeOK, StagedOK, TablesOK, RowsOK, PreparedOK, ChainOK, LocksOK, JobsOK, Jobs

-----------------------------------------------------------------------------
(* The lock of a start is held until its column is staged, and the other     *)
(* columns are empty as long.                                                *)

Starting(r) ==
  \/ job[r].at = "stage"
  \/ job[r].at \in {"look", "ask", "land", "resolve", "tell", "clear"} /\ job[r].to # None

Alone(r) ==
  Starting(r) => lock = r /\ \A g \in Columns \ {job[r].op} : staged[g].index = 0

Inv == TypeInv /\ OneColumnAtATime /\ \A r \in Requests : Alone(r)

LEMMA Constants ==
  /\ Roles = {"device", "passkey"} /\ Columns = {"device", "passkey", "limit"}
  /\ Kinds = Columns \cup {"recovery"} /\ Flows = Kinds \cup {"reject"}
  /\ RecoveryKeys \subseteq Keys /\ EmailKeys \subseteq RecoveryKeys
  /\ \A f \in Roles : PhoneKeys[f] \subseteq Keys
  /\ Keys \cup Limits = Values /\ Keys \cap Limits = {}
  /\ None \notin Values /\ None \notin Requests
  /\ MaxIndex \in Nat /\ MaxFails \in Nat /\ Indices = 1..MaxIndex
  BY ConstantsAssumption DEF Roles, Columns, Kinds, Flows, Keys, Values, Indices

\* What a step of request r must show.
LEMMA StepHolds ==
  ASSUME Inv, NEW r \in Requests, \A q \in Requests \ {r} : job'[q] = job[q],
         StagedOK', TablesOK', JobsOK', HolderOK(r)', Alone(r)',
         lock' = lock \/ lock \in {None, r},
         UNCHANGED staged \/ lock = r \/ \A f \in Columns : staged'[f].index \in {0, staged[f].index},
         \A f, g \in Columns : staged'[f].index # 0 /\ staged'[g].index # 0 => f = g
  PROVE  Inv'
<1>1. ASSUME NEW q \in Requests \ {r} PROVE HolderOK(q)' /\ Alone(q)'
  <2>1. HolderOK(q) /\ Alone(q)
    BY DEF Inv, TypeInv
  <2>2. HolderOK(q)'
    BY <2>1 DEF HolderOK
  <2>3. Starting(q)' => Starting(q) /\ lock = q
    BY <2>1 DEF Starting, Alone
  <2>4. lock = q => lock' = lock /\ \A f \in Columns : staged'[f].index \in {0, staged[f].index}
    BY Constants
  <2>5. Alone(q)'
    BY <2>1, <2>3, <2>4 DEF Alone
  <2> QED
    BY <2>2, <2>5
<1>2. OneColumnAtATime'
  BY DEF OneColumnAtATime
<1> QED
  BY <1>1, <1>2 DEF Inv, TypeInv

\* A step of r that stages nothing, and is not on its way to stage.
LEMMA QuietHolds ==
  ASSUME Inv, NEW r \in Requests, \A q \in Requests \ {r} : job'[q] = job[q],
         UNCHANGED staged, TablesOK', JobsOK', HolderOK(r)',
         Starting(r)' => Starting(r) /\ lock' = lock /\ job'[r].op = job[r].op,
         lock' = lock \/ lock \in {None, r}
  PROVE  Inv'
<1>1. StagedOK'
  BY DEF Inv, TypeInv, StagedOK
<1>2. Alone(r)'
  BY DEF Inv, Alone
<1>3. \A f, g \in Columns : staged'[f].index # 0 /\ staged'[g].index # 0 => f = g
  BY DEF Inv, OneColumnAtATime
<1> QED
  BY <1>1, <1>2, <1>3, StepHolds

LEMMA FinishHolds ==
  ASSUME JobsOK, NEW r \in Requests, Finish(r)
  PROVE  /\ \A q \in Requests \ {r} : job'[q] = job[q]
         /\ JobsOK' /\ HolderOK(r)' /\ ~Starting(r)'
         /\ lock' = lock \/ lock = r
         /\ {lock, keyLock} \subseteq Requests \cup {None} => {lock', keyLock'} \subseteq Requests \cup {None}
<1>1. Idle \in Jobs
  BY Constants DEF Idle, NoKeys, Jobs, Points
<1>2. job' = [job EXCEPT ![r] = Idle]
  BY DEF Finish
<1>3. (\A q \in Requests \ {r} : job'[q] = job[q]) /\ JobsOK' /\ job'[r] = Idle
  BY <1>1, <1>2 DEF JobsOK
<1>4. HolderOK(r)' /\ ~Starting(r)'
  BY <1>3 DEF HolderOK, Starting, Idle
<1> QED
  BY <1>3, <1>4 DEF Finish, Release

LEMMA JobHolds ==
  ASSUME JobsOK, NEW r \in Requests, NEW j \in Jobs, job' = [job EXCEPT ![r] = j]
  PROVE  JobsOK' /\ job'[r] = j /\ \A q \in Requests \ {r} : job'[q] = job[q]
  BY DEF JobsOK

LEMMA BecomeHolds ==
  ASSUME JobsOK, NEW r \in Requests, NEW f \in Flows, NEW at \in Points, NEW i \in 0..MaxIndex,
         NEW to \in Values \cup {None}, Become(r, f, at, i, to)
  PROVE  /\ JobsOK' /\ \A q \in Requests \ {r} : job'[q] = job[q]
         /\ job'[r].op = f /\ job'[r].at = at /\ job'[r].index = i /\ job'[r].to = to
<1> DEFINE j == [Idle EXCEPT !.op = f, !.at = at, !.index = i, !.to = to]
<1>1. j \in Jobs /\ j.op = f /\ j.at = at /\ j.index = i /\ j.to = to
  BY Constants DEF Idle, NoKeys, Jobs
<1>2. job' = [job EXCEPT ![r] = j]
  BY DEF Become
<1> HIDE DEF j
<1> QED
  BY <1>1, <1>2, JobHolds

LEMMA GoToHolds ==
  ASSUME JobsOK, NEW r \in Requests, NEW at \in Points, GoTo(r, at)
  PROVE  /\ JobsOK' /\ \A q \in Requests \ {r} : job'[q] = job[q]
         /\ job'[r].at = at /\ job'[r].op = job[r].op /\ job'[r].index = job[r].index
         /\ job'[r].out = job[r].out /\ job'[r].was = job[r].was /\ job'[r].to = job[r].to
         /\ job'[r].add = job[r].add /\ job'[r].drop = job[r].drop /\ job'[r].had = job[r].had
<1> DEFINE j == [job[r] EXCEPT !.at = at]
<1>1. job[r] \in Jobs
  BY DEF JobsOK
<1>2. j \in Jobs
  BY <1>1 DEF Jobs
<1>3. /\ j.at = at /\ j.op = job[r].op /\ j.index = job[r].index /\ j.out = job[r].out
      /\ j.was = job[r].was /\ j.to = job[r].to /\ j.add = job[r].add /\ j.drop = job[r].drop
      /\ j.had = job[r].had
  BY <1>1 DEF Jobs
<1>4. job' = [job EXCEPT ![r] = j]
  BY DEF GoTo
<1> HIDE DEF j
<1>5. JobsOK' /\ job'[r] = j /\ \A q \in Requests \ {r} : job'[q] = job[q]
  BY <1>2, <1>4, JobHolds
<1> QED
  BY <1>3, <1>5

LEMMA TellHolds ==
  ASSUME RowsOK, NEW what \in {"staged", "executed", "rejected"}, NEW i \in Indices,
         NEW kind \in Kinds \cup {None}, NEW to \in Values \cup {None}, Tell(what, i, kind, to)
  PROVE  told' \in SUBSET [what : {"staged", "executed", "rejected"}, index : Indices,
                           kind : Kinds \cup {None}, to : Values \cup {None}]
  BY DEF RowsOK, Tell

LEMMA PrepareHolds ==
  ASSUME PreparedOK, NEW f \in Flows, NEW what \in {"propose", "approve", "execute", "reject"},
         NEW i \in 0..MaxIndex, NEW c \in Changes \cup {None}, NEW ks \in SUBSET Keys,
         what = "propose" => c \in Changes, Prepare(f, what, i, c, ks)
  PROVE  PreparedOK'
<1> DEFINE p == [step |-> what, index |-> i, change |-> c, by |-> ks]
<1>1. p \in [step : {"none", "propose", "approve", "execute", "reject"},
              index : 0..MaxIndex, change : Changes \cup {None}, by : SUBSET Keys]
  OBVIOUS
<1>2. p.step = what /\ p.change = c /\ prepared' = [prepared EXCEPT ![f] = p]
  BY DEF Prepare
<1> HIDE DEF p
<1> QED
  BY <1>1, <1>2 DEF PreparedOK

LEMMA ProposeHolds ==
  ASSUME PreparedOK, NEW f \in Kinds, NEW i \in 0..MaxIndex, NEW c \in Changes, Propose(f, i, c)
  PROVE  PreparedOK'
<1>1. Prepare(f, "propose", i, c, {}) /\ {} \in SUBSET Keys /\ f \in Flows
  BY Constants DEF Propose
<1> QED
  BY <1>1, PrepareHolds

LEMMA UnprepareHolds ==
  ASSUME PreparedOK, NEW f \in Flows, Unprepare(f)
  PROVE  PreparedOK'
<1>1. NoStep \in [step : {"none", "propose", "approve", "execute", "reject"},
                  index : 0..MaxIndex, change : Changes \cup {None}, by : SUBSET Keys]
  BY Constants DEF NoStep
<1> QED
  BY <1>1 DEF PreparedOK, Unprepare, NoStep

LEMMA ChangesHold ==
  ASSUME TypeInv
  PROVE  /\ \A f \in Columns : \A to \in Fits(f) : \A had \in [Roles -> Keys] : ChangeOf(f, to, had) \in Changes
         /\ \A i \in 0..MaxIndex : KeyChange(i) \in Changes
<1>1. ASSUME NEW f \in Columns, NEW to \in Fits(f), NEW had \in [Roles -> Keys]
      PROVE  ChangeOf(f, to, had) \in Changes
  <2>1. limit \in Limits
    BY DEF TypeInv, TablesOK, ChainOK
  <2>2. {to} \ Limits \subseteq Keys
    BY Constants DEF Fits
  <2>3. f \in Roles => {had[f]} \subseteq Keys
    OBVIOUS
  <2>4. (IF f = "limit" THEN to ELSE IF f = "passkey" THEN limit ELSE None) \in Limits \cup {None}
    BY <2>1 DEF Fits
  <2> QED
    BY <2>2, <2>3, <2>4, Constants DEF ChangeOf, Changes
<1>2. ASSUME NEW i \in 0..MaxIndex PROVE KeyChange(i) \in Changes
  <2>1. RowsIn(i) \subseteq Keys
    BY Constants DEF RowsIn
  <2> QED
    BY <2>1, Constants DEF KeyChange, Changes
<1> QED
  BY <1>1, <1>2

LEMMA StagedIndexHolds ==
  ASSUME TypeInv, NEW f \in Kinds
  PROVE  StagedIndex(f) \in 0..MaxIndex /\ (StagedIndex(f) # 0 => StagedIndex(f) \in Indices)
<1>1. CASE f = "recovery"
  <2>1. CASE OpenRecovery = {}
    BY <1>1, <2>1, Constants DEF StagedIndex
  <2>2. CASE OpenRecovery # {}
    <3>1. StagedIndex(f) = CHOOSE i \in OpenRecovery : TRUE
      BY <1>1, <2>2 DEF StagedIndex
    <3>2. StagedIndex(f) \in OpenRecovery
      BY <2>2, <3>1
    <3> QED
      BY <3>2, Constants DEF OpenRecovery
  <2> QED
    BY <2>1, <2>2
<1>2. CASE f # "recovery"
  <2>1. f \in Columns
    BY <1>2, Constants
  <2> QED
    BY <1>2, <2>1, Constants DEF StagedIndex, TypeInv, StagedOK
<1> QED
  BY <1>1, <1>2

LEMMA StandingHolds ==
  ASSUME ChainOK, NEW i \in 0..MaxIndex
  PROVE  Standing(i) # "none" => i \in Indices /\ i <= tip
  BY Constants DEF Standing, Readable, ChainOK

LEMMA InitInv == Init => Inv
<1> SUFFICES ASSUME Init PROVE Inv
  OBVIOUS
<1>1. StagedOK /\ OneColumnAtATime
  BY Constants DEF Init, StagedOK, NoStage, OneColumnAtATime
<1>2. RowsOK
  BY Constants, ConstantsAssumption DEF Init, RowsOK, NoRow, Statuses
<1>3. PreparedOK
  BY Constants DEF Init, PreparedOK, NoStep
<1>4. ChainOK
  <2>1. FirstKey["device"] \in Keys /\ FirstKey["passkey"] \in Keys /\ FirstKey["recovery"] \in Keys
    BY Constants, ConstantsAssumption
  <2>2. signers \subseteq Keys
    BY <2>1, Constants, ConstantsAssumption DEF Init
  <2> QED
    BY <2>2, Constants, ConstantsAssumption DEF Init, ChainOK, NoProposal, Standings
<1>5. LocksOK
  BY Constants DEF Init, LocksOK
<1>6. Idle \in Jobs
  BY Constants DEF Idle, NoKeys, Jobs, Points
<1>7. JobsOK /\ \A r \in Requests : HolderOK(r) /\ Alone(r)
  BY <1>6 DEF Init, JobsOK, HolderOK, Alone, Starting, Idle
<1> QED
  BY <1>1, <1>2, <1>3, <1>4, <1>5, <1>7 DEF Inv, TypeInv, TablesOK

-----------------------------------------------------------------------------
(* The steps of a request *)

LEMMA Kept ==
  ASSUME Inv
  PROVE  /\ StagedOK /\ RowsOK /\ PreparedOK /\ ChainOK /\ LocksOK /\ JobsOK /\ TypeInv
         /\ \A r \in Requests : HolderOK(r) /\ Alone(r) /\ job[r] \in Jobs
         /\ UNCHANGED <<key, rows, contact, told, grant>> => RowsOK'
         /\ UNCHANGED prepared => PreparedOK'
         /\ UNCHANGED <<tip, proposal, closed, signers, limit>> => ChainOK'
         /\ UNCHANGED <<lock, keyLock, fails>> => LocksOK'
<1>1. StagedOK /\ RowsOK /\ PreparedOK /\ ChainOK /\ LocksOK /\ JobsOK /\ TypeInv
  BY DEF Inv, TypeInv, TablesOK
<1>2. \A r \in Requests : HolderOK(r) /\ Alone(r) /\ job[r] \in Jobs
  BY <1>1 DEF Inv, TypeInv, JobsOK
<1>3. UNCHANGED <<key, rows, contact, told, grant>> => RowsOK'
  BY <1>1 DEF RowsOK
<1>4. UNCHANGED prepared => PreparedOK'
  BY <1>1 DEF PreparedOK
<1>5. UNCHANGED <<tip, proposal, closed, signers, limit>> => ChainOK'
  BY <1>1 DEF ChainOK
<1>6. UNCHANGED <<lock, keyLock, fails>> => LocksOK'
  BY <1>1 DEF LocksOK
<1> QED
  BY <1>1, <1>2, <1>3, <1>4, <1>5, <1>6

LEMMA Wanted ==
  ASSUME Inv, NEW f \in Columns, NEW to \in Values,
         to \in (IF f = "limit" THEN Limits \ {limit} ELSE PhoneKeys[f] \ {key[f]})
  PROVE  to \in Fits(f)
  BY Constants DEF Fits

LEMMA StartHolds ==
  ASSUME Inv, NEW r \in Requests, NEW f \in Columns, NEW to \in Values, Start(r, f, to)
  PROVE  Inv'
<1>1. to \in Fits(f) /\ to # None
  BY Wanted, Constants DEF Start
<1>2. NextIndex \in Indices /\ NextIndex \in 0..MaxIndex
  BY Kept, Constants DEF Start, ChainOK, NextIndex
<1>3. f \in Flows /\ "stage" \in Points
  BY Constants DEF Points
<1>4. /\ JobsOK' /\ \A q \in Requests \ {r} : job'[q] = job[q]
      /\ job'[r].op = f /\ job'[r].at = "stage" /\ job'[r].index = NextIndex /\ job'[r].to = to
  BY <1>2, <1>3, Kept, BecomeHolds DEF Start
<1>5. HolderOK(r)'
  BY <1>1, <1>2, <1>4 DEF HolderOK
<1>6. \A g \in Columns : staged[g].index = 0
  BY DEF Start, InFlight
<1>7. UNCHANGED staged /\ lock' = r
  BY DEF Start
<1>8. Alone(r)'
  BY <1>6, <1>7 DEF Alone
<1>9. LocksOK'
  BY <1>7, Kept DEF LocksOK, Start
<1>10. TablesOK' /\ StagedOK'
  BY <1>7, <1>9, Kept DEF Start, TablesOK, StagedOK
<1>11. \A g, h \in Columns : staged'[g].index # 0 /\ staged'[h].index # 0 => g = h
  BY <1>6, <1>7
<1>12. lock = None
  BY DEF Start, Free
<1> QED
  BY <1>4, <1>5, <1>7, <1>8, <1>10, <1>11, <1>12, StepHolds

LEMMA ReadHolds ==
  ASSUME Inv, NEW r \in Requests, NEW f \in Kinds, StagedIndex(f) # 0,
         NEW to \in Values \cup {None}, IF f \in Columns THEN to \in Fits(f) \cup {None} ELSE to = None,
         Read(r, f, to)
  PROVE  /\ JobsOK' /\ HolderOK(r)' /\ \A q \in Requests \ {r} : job'[q] = job[q]
         /\ job'[r].op = f /\ job'[r].to = to /\ job'[r].at = "look"
<1> DEFINE was == IF f = "recovery" THEN None ELSE staged[f].to
           j == [Idle EXCEPT !.op = f, !.at = "look", !.index = StagedIndex(f), !.was = was,
                   !.had = key, !.to = to]
<1>1. job' = [job EXCEPT ![r] = j]
  BY DEF Read
<1>2. f \in Columns => was \in Fits(f)
  <2>1. ASSUME f \in Columns PROVE was = staged[f].to /\ StagedIndex(f) = staged[f].index
    BY <2>1, Constants DEF StagedIndex
  <2> QED
    BY <2>1, Kept DEF StagedOK
<1>3. was \in Values \cup {None} /\ f \in Flows
  BY <1>2, Constants DEF Fits
<1>4. StagedIndex(f) \in Indices /\ StagedIndex(f) \in 0..MaxIndex
  BY Kept, StagedIndexHolds
<1> HIDE DEF was
<1>5. key \in [Roles -> Keys] /\ key \in [Roles -> Keys \cup {None}]
  BY Kept DEF RowsOK
<1>6. /\ j.op = f /\ j.at = "look" /\ j.index = StagedIndex(f) /\ j.was = was /\ j.had = key /\ j.to = to
      /\ j \in Jobs
  BY <1>3, <1>4, <1>5, Constants DEF Idle, Jobs, Points
<1> HIDE DEF j
<1>7. JobsOK' /\ job'[r] = j /\ \A q \in Requests \ {r} : job'[q] = job[q]
  BY <1>1, <1>6, Kept, JobHolds
<1>8. HolderOK(r)'
  BY <1>2, <1>4, <1>5, <1>6, <1>7 DEF HolderOK
<1> QED
  BY <1>6, <1>7, <1>8

LEMMA StartOverHolds ==
  ASSUME Inv, NEW r \in Requests, NEW f \in Columns, NEW to \in Values, StartOver(r, f, to)
  PROVE  Inv'
<1>1. to \in Fits(f) /\ f \in Kinds /\ StagedIndex(f) # 0
  BY Constants DEF StartOver, Fits, StagedIndex
<1>2. /\ JobsOK' /\ HolderOK(r)' /\ \A q \in Requests \ {r} : job'[q] = job[q]
      /\ job'[r].op = f /\ job'[r].to = to
  BY <1>1, ReadHolds DEF StartOver
<1>3. UNCHANGED staged /\ lock' = r
  BY DEF StartOver
<1>4. \A g \in Columns \ {f} : staged[g].index = 0
  BY DEF StartOver, InFlight
<1>5. Alone(r)'
  BY <1>2, <1>3, <1>4 DEF Alone
<1>6. LocksOK'
  BY <1>3, Kept DEF LocksOK, StartOver
<1>7. TablesOK' /\ StagedOK'
  BY <1>3, <1>6, Kept DEF StartOver, TablesOK, StagedOK
<1>8. \A g, h \in Columns : staged'[g].index # 0 /\ staged'[h].index # 0 => g = h
  BY <1>3, <1>4
<1>9. lock = None
  BY DEF StartOver, Free
<1> QED
  BY <1>2, <1>3, <1>5, <1>7, <1>8, <1>9, StepHolds

LEMMA LookHolds ==
  ASSUME Inv, NEW r \in Requests, NEW f \in Kinds, Look(r, f)
  PROVE  Inv'
<1>1. /\ JobsOK' /\ HolderOK(r)' /\ \A q \in Requests \ {r} : job'[q] = job[q]
      /\ job'[r].op = f /\ job'[r].to = None /\ job'[r].at = "look"
  BY ReadHolds DEF Look
<1>2. UNCHANGED <<staged, lock>> /\ TablesOK'
  BY Kept DEF Look, TablesOK
<1>3. ~Starting(r)'
  BY <1>1 DEF Starting
<1> QED
  BY <1>1, <1>2, <1>3, QuietHolds

LEMMA ConcludeHolds ==
  ASSUME Inv, NEW r \in Requests, job[r].at \in {"look", "ask", "land"}, job[r].op \in Columns,
         NEW out \in Outcomes, Conclude(r, out)
  PROVE  /\ JobsOK' /\ HolderOK(r)' /\ \A q \in Requests \ {r} : job'[q] = job[q]
         /\ job'[r].at = IF job[r].op = "limit" THEN "tell" ELSE "resolve"
         /\ job'[r].op = job[r].op /\ job'[r].to = job[r].to /\ job'[r].index = job[r].index
         /\ job'[r].was = job[r].was /\ job'[r].out = out
<1> DEFINE at == IF job[r].op = "limit" THEN "tell" ELSE "resolve"
           j == [job[r] EXCEPT !.at = at, !.out = out, !.had = NoKeys]
<1>1. job' = [job EXCEPT ![r] = j]
  BY Kept DEF Conclude, JobsOK, Jobs
<1>2. job[r] \in Jobs /\ HolderOK(r)
  BY Kept
<1>3. at \in Points /\ NoKeys \in [Roles -> Keys \cup {None}]
  BY DEF Points, NoKeys
<1>4. at \in {"tell", "resolve"}
  OBVIOUS
<1> HIDE DEF at
<1>5. /\ j.at = at /\ j.op = job[r].op /\ j.to = job[r].to /\ j.index = job[r].index
      /\ j.was = job[r].was /\ j.out = out /\ j \in Jobs
  BY <1>2, <1>3 DEF Jobs
<1> HIDE DEF j
<1>6. JobsOK' /\ job'[r] = j /\ \A q \in Requests \ {r} : job'[q] = job[q]
  BY <1>1, <1>5, Kept, JobHolds
<1>7. job[r].op \in Flows
  BY Constants
<1>8. HolderOK(r)'
  BY <1>2, <1>4, <1>5, <1>6, <1>7 DEF HolderOK
<1> QED
  BY <1>5, <1>6, <1>8 DEF at

\* A reading that goes on: it keeps the lock where it holds it, and stages nothing.
LEMMA ReadOnHolds ==
  ASSUME Inv, NEW r \in Requests, job[r].at \in {"look", "ask", "land"},
         UNCHANGED <<staged, lock>>, TablesOK',
         \/ JobsOK' /\ HolderOK(r)' /\ (\A q \in Requests \ {r} : job'[q] = job[q])
            /\ job'[r].op = job[r].op /\ job'[r].to = job[r].to /\ job'[r].at # "stage"
         \/ \E out \in Outcomes : job[r].op \in Columns /\ Conclude(r, out)
  PROVE  Inv'
<1>1. /\ JobsOK' /\ HolderOK(r)' /\ \A q \in Requests \ {r} : job'[q] = job[q]
      /\ job'[r].op = job[r].op /\ job'[r].to = job[r].to /\ job'[r].at # "stage"
  BY ConcludeHolds
<1>2. Starting(r)' => Starting(r)
  BY <1>1 DEF Starting
<1> QED
  BY <1>1, <1>2, QuietHolds

LEMMA FindSettledHolds ==
  ASSUME Inv, NEW r \in Requests, FindSettled(r)
  PROVE  Inv'
<1> DEFINE i == job[r].index
           s == Standing(i)
<1>1. /\ job[r].at = "look" /\ i \in Indices /\ job[r].op \in Kinds /\ s \in Outcomes
      /\ job[r] \in Jobs /\ HolderOK(r)
  BY Kept DEF FindSettled, HolderOK, Settled, Outcomes
<1>2. UNCHANGED <<staged, lock>> /\ TablesOK'
  BY Kept DEF FindSettled, TablesOK
<1>3. CASE s = "executed" \/ job[r].op = "recovery"
  <2> DEFINE j == [job[r] EXCEPT !.at = "land", !.out = s]
  <2>1. job' = [job EXCEPT ![r] = j]
    BY <1>3, Kept DEF FindSettled, JobsOK, Jobs
  <2> HIDE DEF s
  <2>2. /\ j \in Jobs /\ j.at = "land" /\ j.out = s /\ j.op = job[r].op /\ j.to = job[r].to
        /\ j.index = i /\ j.was = job[r].was /\ j.had = job[r].had
    BY <1>1 DEF Jobs, Points
  <2> HIDE DEF j
  <2>3. JobsOK' /\ job'[r] = j /\ \A q \in Requests \ {r} : job'[q] = job[q]
    BY <2>1, <2>2, Kept, JobHolds
  <2>4. HolderOK(r)'
    BY <1>1, <2>2, <2>3 DEF HolderOK
  <2> QED
    BY <1>1, <1>2, <2>2, <2>3, <2>4, ReadOnHolds
<1>4. CASE ~(s = "executed" \/ job[r].op = "recovery")
  <2>1. Conclude(r, "rejected") /\ "rejected" \in Outcomes /\ job[r].op \in Columns
    BY <1>1, <1>4, Constants DEF FindSettled, Outcomes
  <2> QED
    BY <1>1, <1>2, <2>1, ReadOnHolds
<1> QED
  BY <1>3, <1>4

\* A reading that ends, with a step prepared or not.
LEMMA ReadEndHolds ==
  ASSUME Inv, NEW r \in Requests, Finish(r), PreparedOK',
         UNCHANGED <<key, staged, rows, contact, told, grant, tip, proposal, closed, signers, limit, fails>>
  PROVE  Inv'
<1>1. /\ \A q \in Requests \ {r} : job'[q] = job[q]
      /\ JobsOK' /\ HolderOK(r)' /\ ~Starting(r)' /\ (lock' = lock \/ lock = r) /\ LocksOK'
  BY Kept, FinishHolds DEF LocksOK
<1> QED
  BY <1>1, Kept, QuietHolds DEF TablesOK

LEMMA FindOpenHolds ==
  ASSUME Inv, NEW r \in Requests, FindOpen(r)
  PROVE  Inv'
<1> DEFINE j == job[r]
           left == Voters(j) \ proposal[j.index].votes
<1>1. j.at = "look" /\ j.index \in 0..MaxIndex /\ j.op \in Flows /\ j.had \in [Roles -> Keys]
  BY Kept, Constants DEF FindOpen, HolderOK
<1>2. left \subseteq Keys
  BY <1>1 DEF Voters
<1>3. /\ Finish(r)
      /\ UNCHANGED <<key, staged, rows, contact, told, grant, tip, proposal, closed, signers, limit, fails>>
  BY DEF FindOpen
<1>4. \/ \E k \in left : Prepare(j.op, "approve", j.index, None, {k})
      \/ Prepare(j.op, "execute", j.index, None, {})
      \/ UNCHANGED prepared
  BY DEF FindOpen
<1>5. PICK f \in Flows, i \in 0..MaxIndex : f = j.op /\ i = j.index
  BY <1>1
<1> HIDE DEF j, left
<1>6. PreparedOK'
  <2>1. ASSUME NEW k \in left, Prepare(f, "approve", i, None, {k}) PROVE PreparedOK'
    <3>1. {k} \in SUBSET Keys
      BY <1>2
    <3> QED
      BY <2>1, <3>1, Kept, PrepareHolds
  <2>2. ASSUME Prepare(f, "execute", i, None, {}) PROVE PreparedOK'
    <3>1. {} \in SUBSET Keys
      OBVIOUS
    <3> QED
      BY <2>2, <3>1, Kept, PrepareHolds
  <2> QED
    BY <1>4, <1>5, <2>1, <2>2, Kept
<1> QED
  BY <1>3, <1>6, ReadEndHolds

LEMMA FindNothingHolds ==
  ASSUME Inv, NEW r \in Requests, FindNothing(r)
  PROVE  Inv'
<1> DEFINE j == job[r]
           f == j.op
           i == j.index
           c == KeyChange(i)
<1>1. j.at = "look" /\ i \in Indices /\ i \in 0..MaxIndex /\ f \in Kinds /\ HolderOK(r)
  BY Kept, Constants DEF FindNothing, HolderOK
<1>2. UNCHANGED <<key, staged, rows, contact, told, grant, tip, proposal, closed, signers, limit, fails>>
  BY DEF FindNothing
<1>3. CASE f = "recovery"
  <2>1. Propose(f, i, c) /\ Finish(r)
    BY <1>3 DEF FindNothing
  <2>2. c \in Changes
    BY <1>1, Kept, ChangesHold
  <2> HIDE DEF c, f, i
  <2>3. PreparedOK'
    BY <1>1, <2>1, <2>2, Kept, ProposeHolds
  <2> QED
    BY <1>2, <2>1, <2>3, ReadEndHolds
<1>4. CASE f # "recovery"
  <2>1. GoTo(r, "ask") /\ UNCHANGED <<prepared, lock, keyLock>> /\ "ask" \in Points /\ f \in Columns
    BY <1>1, <1>4, Constants DEF FindNothing, Points
  <2>2. /\ JobsOK' /\ (\A q \in Requests \ {r} : job'[q] = job[q])
        /\ job'[r].at = "ask" /\ job'[r].op = j.op /\ job'[r].index = j.index
        /\ job'[r].was = j.was /\ job'[r].to = j.to /\ job'[r].had = j.had
    BY <2>1, Kept, GoToHolds
  <2>3. HolderOK(r)'
    BY <1>1, <2>1, <2>2 DEF HolderOK
  <2>4. TablesOK'
    BY <1>2, <2>1, Kept DEF TablesOK
  <2> QED
    BY <1>1, <1>2, <2>1, <2>2, <2>3, <2>4, ReadOnHolds
<1> QED
  BY <1>3, <1>4

LEMMA AskTipHolds ==
  ASSUME Inv, NEW r \in Requests, AskTip(r)
  PROVE  Inv'
<1> DEFINE j == job[r]
           f == j.op
           i == j.index
           c == ChangeOf(f, j.was, j.had)
<1>1. /\ j.at = "ask" /\ i \in Indices /\ i \in 0..MaxIndex /\ f \in Columns /\ f \in Kinds /\ HolderOK(r)
      /\ j.was \in Fits(f) /\ j.had \in [Roles -> Keys]
  BY Kept, Constants DEF AskTip, HolderOK
<1>2. UNCHANGED <<key, staged, rows, contact, told, grant, tip, proposal, closed, signers, limit, fails>>
  BY DEF AskTip
<1>3. c \in Changes
  BY <1>1, Kept, ChangesHold
<1>4. CASE i = NextIndex
  <2>1. Finish(r) /\ (Propose(f, i, c) \/ UNCHANGED prepared)
    BY <1>4 DEF AskTip
  <2> HIDE DEF c, f, i
  <2>2. PreparedOK'
    BY <1>1, <1>3, <2>1, Kept, ProposeHolds
  <2> QED
    BY <1>2, <2>1, <2>2, ReadEndHolds
<1>5. CASE i # NextIndex
  <2>1. /\ UNCHANGED <<prepared, lock, keyLock>> /\ "land" \in Points /\ "rejected" \in Outcomes
        /\ IF f = "limit" THEN Conclude(r, "rejected") ELSE GoTo(r, "land")
    BY <1>5 DEF AskTip, Points, Outcomes
  <2>2. TablesOK'
    BY <1>2, <2>1, Kept DEF TablesOK
  <2>3. CASE f = "limit"
    BY <1>1, <1>2, <2>1, <2>2, <2>3, ReadOnHolds
  <2>4. CASE f # "limit"
    <3>1. /\ JobsOK' /\ (\A q \in Requests \ {r} : job'[q] = job[q])
          /\ job'[r].at = "land" /\ job'[r].op = j.op /\ job'[r].index = j.index
          /\ job'[r].was = j.was /\ job'[r].to = j.to /\ job'[r].had = j.had
      BY <2>1, <2>4, Kept, GoToHolds
    <3>2. HolderOK(r)'
      BY <1>1, <3>1, Constants, ConstantsAssumption DEF HolderOK
    <3> QED
      BY <1>1, <1>2, <2>1, <2>2, <3>1, <3>2, ReadOnHolds
  <2> QED
    BY <2>3, <2>4
<1> QED
  BY <1>4, <1>5

LEMMA FindLandedHolds ==
  ASSUME Inv, NEW r \in Requests, FindLanded(r)
  PROVE  Inv'
<1>1. /\ job[r].at = "land" /\ job[r].op \in Columns /\ PreparedOK' /\ Outcomes = {"executed", "rejected"}
      /\ UNCHANGED <<key, staged, rows, contact, told, prepared, grant, tip, proposal, closed, signers, limit, fails>>
  BY Kept DEF FindLanded, Outcomes
<1>2. \/ Finish(r)
      \/ (Conclude(r, "executed") \/ Conclude(r, "rejected")) /\ UNCHANGED <<lock, keyLock>>
  BY DEF FindLanded
<1>3. CASE Finish(r)
  BY <1>1, <1>3, ReadEndHolds
<1>4. CASE (Conclude(r, "executed") \/ Conclude(r, "rejected")) /\ UNCHANGED <<lock, keyLock>>
  <2>1. TablesOK'
    BY <1>1, <1>4, Kept DEF TablesOK
  <2> QED
    BY <1>1, <1>4, <2>1, ReadOnHolds
<1> QED
  BY <1>2, <1>3, <1>4

LEMMA StagedJob ==
  ASSUME JobsOK, RowsOK, NEW r \in Requests, job' = [job EXCEPT ![r].at = "announce", ![r].had = key]
  PROVE  /\ JobsOK' /\ \A q \in Requests \ {r} : job'[q] = job[q]
         /\ job'[r].at = "announce" /\ job'[r].op = job[r].op /\ job'[r].index = job[r].index
         /\ job'[r].out = job[r].out /\ job'[r].was = job[r].was /\ job'[r].to = job[r].to
         /\ job'[r].add = job[r].add /\ job'[r].drop = job[r].drop /\ job'[r].had = key
<1> DEFINE j == [job[r] EXCEPT !.at = "announce", !.had = key]
<1>1. job[r] \in Jobs /\ key \in [Roles -> Keys \cup {None}]
  BY DEF JobsOK, RowsOK
<1>2. /\ j \in Jobs /\ j.at = "announce" /\ j.op = job[r].op /\ j.index = job[r].index
      /\ j.out = job[r].out /\ j.was = job[r].was /\ j.to = job[r].to
      /\ j.add = job[r].add /\ j.drop = job[r].drop /\ j.had = key
  BY <1>1 DEF Jobs, Points
<1>3. job' = [job EXCEPT ![r] = j]
  BY <1>1 DEF JobsOK, Jobs
<1> HIDE DEF j
<1>4. JobsOK' /\ job'[r] = j /\ \A q \in Requests \ {r} : job'[q] = job[q]
  BY <1>2, <1>3, JobHolds
<1> QED
  BY <1>2, <1>4

LEMMA StageHolds ==
  ASSUME Inv, NEW r \in Requests, Stage(r)
  PROVE  Inv'
<1> DEFINE f == job[r].op
           i == job[r].index
           to == job[r].to
<1>1. /\ f \in Columns /\ i \in Indices /\ to \in Fits(f)
      /\ lock = r /\ \A g \in Columns \ {f} : staged[g].index = 0
  BY Kept DEF Stage, HolderOK, Alone, Starting
<1>2. /\ JobsOK' /\ \A q \in Requests \ {r} : job'[q] = job[q]
      /\ job'[r].op = f /\ job'[r].index = i /\ job'[r].to = to /\ job'[r].at = "announce"
      /\ job'[r].had \in [Roles -> Keys]
  BY Kept, StagedJob DEF Stage, RowsOK
<1>3. staged' = [staged EXCEPT ![f] = [to |-> to, index |-> i]]
  BY DEF Stage
<1> HIDE DEF f, i, to
<1>4. Fits(f) \subseteq Values /\ i \in 0..MaxIndex /\ i # 0
  BY <1>1, Constants DEF Fits
<1>5. StagedOK'
  <2>1. staged' \in [Columns -> [to : Values \cup {None}, index : 0..MaxIndex]]
    BY <1>1, <1>3, <1>4, Kept DEF StagedOK
  <2>2. staged'[f].to = to /\ staged'[f].index = i /\ \A g \in Columns \ {f} : staged'[g] = staged[g]
    BY <1>1, <1>3, Kept DEF StagedOK
  <2> QED
    BY <1>1, <2>1, <2>2, Kept DEF StagedOK
<1>6. \A g \in Columns \ {f} : staged'[g].index = 0
  BY <1>1, <1>3, Kept DEF StagedOK
<1>7. HolderOK(r)'
  <2>1. f \in Kinds
    BY <1>1, Constants
  <2> QED
    BY <1>1, <1>2, <2>1 DEF HolderOK
<1>8. Alone(r)'
  BY <1>2 DEF Alone, Starting
<1>9. TablesOK' /\ UNCHANGED lock
  BY Kept DEF Stage, TablesOK
<1> QED
  BY <1>1, <1>2, <1>5, <1>6, <1>7, <1>8, <1>9, StepHolds

LEMMA AnnounceHolds ==
  ASSUME Inv, NEW r \in Requests, Announce(r)
  PROVE  Inv'
<1> DEFINE f == job[r].op
           i == job[r].index
           to == job[r].to
           c == IF f = "recovery" THEN KeyChange(i) ELSE ChangeOf(f, to, job[r].had)
<1>1. f \in Kinds /\ i \in Indices /\ to \in Values \cup {None}
      /\ (f \in Columns => to \in Fits(f) /\ job[r].had \in [Roles -> Keys])
  BY Kept DEF Announce, HolderOK, Jobs
<1>2. Tell("staged", i, f, to) /\ Propose(f, i, c) /\ Finish(r)
  BY DEF Announce
<1>3. i \in 0..MaxIndex
  BY <1>1, Constants
<1>4. c \in Changes
  BY <1>1, <1>3, ChangesHold, Kept, Constants
<1> HIDE DEF f, i, to, c
<1>5. RowsOK'
  BY <1>1, <1>2, Kept, TellHolds DEF RowsOK, Announce
<1>6. PreparedOK'
  BY <1>1, <1>2, <1>3, <1>4, Kept, ProposeHolds
<1>7. /\ \A q \in Requests \ {r} : job'[q] = job[q]
      /\ JobsOK' /\ HolderOK(r)' /\ ~Starting(r)' /\ (lock' = lock \/ lock = r) /\ LocksOK'
  BY <1>2, Kept, FinishHolds DEF LocksOK, Announce
<1>8. UNCHANGED staged /\ ChainOK'
  BY Kept DEF Announce
<1> QED
  BY <1>5, <1>6, <1>7, <1>8, QuietHolds DEF TablesOK

LEMMA ResolveColumnsHolds ==
  ASSUME Inv, NEW r \in Requests, ResolveColumns(r)
  PROVE  Inv'
<1> DEFINE f == job[r].op
           at == IF f = "limit" THEN "clear" ELSE "tell"
<1>1. /\ f \in Columns /\ job[r].index \in Indices /\ job[r].out \in Outcomes
      /\ job[r].to \in Fits(f) \cup {None} /\ job[r].was \in Fits(f) /\ job[r].at = "resolve"
  BY Kept DEF ResolveColumns, HolderOK
<1>2. /\ GoTo(r, at) /\ staged' = [staged EXCEPT ![f] = NoStage] /\ UNCHANGED lock
      /\ at \in {"clear", "tell"} /\ at \in Points
  BY DEF ResolveColumns, Points
<1>3. RowsOK'
  <2>1. f \in Roles => job[r].was \in Keys
    BY <1>1, Constants DEF Fits
  <2>2. key' \in [Roles -> Keys]
    BY <2>1, Kept DEF ResolveColumns, RowsOK
  <2> QED
    BY <2>2, Kept DEF ResolveColumns, RowsOK
<1>4. TablesOK'
  BY <1>3, Kept DEF ResolveColumns, TablesOK
<1>5. f \in Kinds /\ f \in Flows
  BY <1>1, Constants
<1> HIDE DEF at
<1>6. /\ JobsOK' /\ \A q \in Requests \ {r} : job'[q] = job[q]
      /\ job'[r].at = at /\ job'[r].op = job[r].op /\ job'[r].index = job[r].index
      /\ job'[r].out = job[r].out /\ job'[r].was = job[r].was /\ job'[r].to = job[r].to
  BY <1>2, Kept, GoToHolds
<1>7. HolderOK(r)'
  BY <1>1, <1>2, <1>5, <1>6 DEF HolderOK
<1>8. staged' \in [Columns -> [to : Values \cup {None}, index : 0..MaxIndex]]
      /\ staged'[f] = NoStage /\ \A g \in Columns \ {f} : staged'[g] = staged[g]
  <2>1. NoStage \in [to : Values \cup {None}, index : 0..MaxIndex]
    BY Constants DEF NoStage
  <2> QED
    BY <1>1, <1>2, <2>1, Kept DEF StagedOK
<1>9. StagedOK' /\ \A g \in Columns : staged'[g].index \in {0, staged[g].index}
  BY <1>8, Kept DEF StagedOK, NoStage
<1>10. Alone(r)'
  BY <1>1, <1>2, <1>6, <1>8, Kept DEF Alone, Starting
<1>11. \A g, h \in Columns : staged'[g].index # 0 /\ staged'[h].index # 0 => g = h
  BY <1>9 DEF Inv, OneColumnAtATime
<1> QED
  BY <1>2, <1>4, <1>6, <1>7, <1>9, <1>10, <1>11, StepHolds

LEMMA TellOutcomeHolds ==
  ASSUME Inv, NEW r \in Requests, TellOutcome(r)
  PROVE  Inv'
<1> DEFINE f == job[r].op
           next == IF f = "limit" THEN "resolve" ELSE "clear"
<1>1. /\ f \in Flows /\ job[r].index \in Indices /\ job[r].out \in Outcomes /\ job[r].at = "tell"
      /\ job[r] \in Jobs /\ job[r].was \in Values \cup {None}
      /\ f \in Columns => job[r].to \in Fits(f) \cup {None} /\ job[r].was \in Fits(f)
      /\ f \notin Columns => job[r].to = None
  BY Kept DEF TellOutcome, HolderOK, Jobs
<1>2. RowsOK'
  <2>1. (IF f = "reject" THEN None ELSE f) \in Kinds \cup {None}
    BY <1>1, Constants
  <2>2. job[r].out \in {"staged", "executed", "rejected"}
    BY <1>1 DEF Outcomes
  <2>3. Tell(job[r].out, job[r].index, IF f = "reject" THEN None ELSE f, job[r].was)
    BY DEF TellOutcome
  <2> HIDE DEF f
  <2>4. told' \in SUBSET [what : {"staged", "executed", "rejected"}, index : Indices,
                           kind : Kinds \cup {None}, to : Values \cup {None}]
    BY <1>1, <2>1, <2>2, <2>3, Kept, TellHolds
  <2> QED
    BY <2>4, Kept DEF TellOutcome, RowsOK
<1>3. UNCHANGED staged /\ PreparedOK' /\ ChainOK' /\ UNCHANGED fails
  BY Kept DEF TellOutcome
<1>4. CASE f = "reject"
  <2>1. Finish(r)
    BY <1>4 DEF TellOutcome
  <2>2. /\ \A q \in Requests \ {r} : job'[q] = job[q]
        /\ JobsOK' /\ HolderOK(r)' /\ ~Starting(r)' /\ (lock' = lock \/ lock = r) /\ LocksOK'
    BY <1>3, <2>1, Kept, FinishHolds DEF LocksOK
  <2> QED
    BY <1>2, <1>3, <2>2, QuietHolds DEF TablesOK
<1>5. CASE f # "reject"
  <2>1. GoTo(r, next) /\ UNCHANGED <<lock, keyLock>> /\ next \in Points
    BY <1>5 DEF TellOutcome, Points
  <2>2. f = "limit" => f \in Columns
    BY Constants
  <2>3. f \in Kinds
    BY <1>1, <1>5, Constants
  <2>4. (next = "resolve" /\ f \in Columns) \/ next = "clear"
    BY <2>2
  <2> HIDE DEF next
  <2>5. /\ JobsOK' /\ \A q \in Requests \ {r} : job'[q] = job[q]
        /\ job'[r].at = next /\ job'[r].op = job[r].op /\ job'[r].index = job[r].index
        /\ job'[r].out = job[r].out /\ job'[r].was = job[r].was /\ job'[r].to = job[r].to
    BY <2>1, Kept, GoToHolds
  <2>6. HolderOK(r)'
    BY <1>1, <2>3, <2>4, <2>5 DEF HolderOK
  <2>7. Starting(r)' => Starting(r)
    BY <1>1, <2>4, <2>5 DEF Starting
  <2>8. TablesOK'
    BY <1>2, <1>3, <2>1, Kept DEF TablesOK
  <2> QED
    BY <1>3, <2>1, <2>5, <2>6, <2>7, <2>8, QuietHolds
<1> QED
  BY <1>4, <1>5

LEMMA ClearHolds ==
  ASSUME Inv, NEW r \in Requests, Clear(r)
  PROVE  Inv'
<1> DEFINE f == job[r].op
           to == job[r].to
<1>1. /\ f \in Kinds /\ job[r].at = "clear" /\ to \in Values \cup {None}
      /\ f \in Columns => to \in Fits(f) \cup {None}
      /\ f \notin Columns => to = None
  BY Kept DEF Clear, HolderOK, Jobs
<1>2. f \in Flows
  BY <1>1, Constants
<1>3. PreparedOK'
  BY <1>2, Kept, UnprepareHolds DEF Clear
<1>4. UNCHANGED staged /\ RowsOK' /\ ChainOK' /\ UNCHANGED fails
  BY Kept DEF Clear
<1>5. CASE to = None \/ tip = MaxIndex
  <2>1. Finish(r)
    BY <1>5 DEF Clear
  <2>2. /\ \A q \in Requests \ {r} : job'[q] = job[q]
        /\ JobsOK' /\ HolderOK(r)' /\ ~Starting(r)' /\ (lock' = lock \/ lock = r) /\ LocksOK'
    BY <1>4, <2>1, Kept, FinishHolds DEF LocksOK
  <2> QED
    BY <1>3, <1>4, <2>2, QuietHolds DEF TablesOK
<1>6. CASE to # None /\ tip # MaxIndex
  <2>1. Become(r, f, "stage", NextIndex, to) /\ UNCHANGED <<lock, keyLock>> /\ "stage" \in Points
    BY <1>6 DEF Clear, Points
  <2>2. NextIndex \in Indices /\ NextIndex \in 0..MaxIndex
    BY <1>6, Kept, Constants DEF ChainOK, NextIndex
  <2>3. f \in Columns /\ to \in Fits(f)
    BY <1>1, <1>6
  <2>4. Starting(r)
    BY <1>1, <1>6 DEF Starting
  <2>5. f = job[r].op
    OBVIOUS
  <2> HIDE DEF f, to
  <2>6. /\ JobsOK' /\ \A q \in Requests \ {r} : job'[q] = job[q]
        /\ job'[r].op = f /\ job'[r].at = "stage" /\ job'[r].index = NextIndex /\ job'[r].to = to
    BY <1>1, <1>2, <2>1, <2>2, Kept, BecomeHolds
  <2>7. HolderOK(r)'
    BY <2>2, <2>3, <2>6 DEF HolderOK
  <2>8. TablesOK'
    BY <1>3, <1>4, <2>1, Kept DEF TablesOK
  <2> QED
    BY <1>4, <2>1, <2>4, <2>5, <2>6, <2>7, <2>8, QuietHolds
<1> QED
  BY <1>5, <1>6

-----------------------------------------------------------------------------
(* The recovery keys *)

LEMMA SetRowHolds ==
  ASSUME RowsOK, NEW k \in RecoveryKeys, NEW status \in Statuses, NEW i \in 0..MaxIndex,
         SetRow(k, status, i), UNCHANGED <<key, contact, told, grant>>
  PROVE  RowsOK'
<1>1. [status |-> status, index |-> i] \in [status : Statuses, index : 0..MaxIndex]
  OBVIOUS
<1> QED
  BY <1>1 DEF RowsOK, SetRow

LEMMA OneKeyHolds ==
  ASSUME Inv, NEW r \in Requests, NEW k \in RecoveryKeys, AddKey(r, k) \/ RemoveKey(r, k)
  PROVE  Inv'
<1>1. Become(r, "recovery", "check", 0, k) /\ UNCHANGED <<staged, lock, fails>> /\ keyLock' = r
  BY DEF AddKey, RemoveKey
<1>2. /\ "recovery" \in Flows /\ "check" \in Points /\ 0 \in 0..MaxIndex /\ k \in Values \cup {None}
      /\ "pending_add" \in Statuses /\ "pending_remove" \in Statuses
  BY Constants DEF Points, Statuses
<1>3. RowsOK'
  <2>1. CASE AddKey(r, k)
    BY <1>2, <2>1, Kept, SetRowHolds DEF AddKey
  <2>2. CASE RemoveKey(r, k)
    BY <1>2, <2>2, Kept, SetRowHolds DEF RemoveKey
  <2> QED
    BY <2>1, <2>2
<1>4. PreparedOK' /\ ChainOK'
  BY Kept DEF AddKey, RemoveKey
<1>5. LocksOK'
  BY <1>1, Kept DEF LocksOK
<1>6. /\ JobsOK' /\ \A q \in Requests \ {r} : job'[q] = job[q]
      /\ job'[r].op = "recovery" /\ job'[r].at = "check" /\ job'[r].to = k
  BY <1>1, <1>2, Kept, BecomeHolds
<1>7. HolderOK(r)' /\ ~Starting(r)'
  BY <1>6 DEF HolderOK, Starting
<1> QED
  BY <1>1, <1>3, <1>4, <1>5, <1>6, <1>7, QuietHolds DEF TablesOK

LEMMA MoveContactHolds ==
  ASSUME Inv, NEW r \in Requests, NEW k \in RecoveryKeys, MoveContact(r, k)
  PROVE  Inv'
<1> DEFINE j == [Idle EXCEPT !.op = "recovery", !.at = "retire", !.was = contact, !.to = k]
<1>1. job' = [job EXCEPT ![r] = j] /\ UNCHANGED <<staged, lock, fails>> /\ keyLock' = r
  BY DEF MoveContact
<1>2. contact \in RecoveryKeys /\ RecoveryKeys \subseteq Values
  BY Kept, Constants DEF RowsOK
<1>3. j \in Jobs /\ j.op = "recovery" /\ j.at = "retire" /\ j.was = contact /\ j.to = k
  <2>1. "retire" \in Points /\ contact \in Values \cup {None} /\ k \in Values \cup {None}
    BY <1>2, Constants DEF Points
  <2>2. j.op = "recovery" /\ j.at = "retire" /\ j.was = contact /\ j.to = k
    BY DEF Idle
  <2>3. Idle \in Jobs
    BY Constants DEF Idle, NoKeys, Jobs, Points
  <2>4. [Idle EXCEPT !.op = "recovery", !.at = "retire"] \in Jobs
    BY <2>1, <2>3, Constants DEF Jobs
  <2>5. j \in Jobs
    BY <2>1, <2>4 DEF Jobs
  <2> QED
    BY <2>2, <2>5
<1> HIDE DEF j
<1>4. JobsOK' /\ job'[r] = j /\ \A q \in Requests \ {r} : job'[q] = job[q]
  BY <1>1, <1>3, Kept, JobHolds
<1>5. HolderOK(r)' /\ ~Starting(r)'
  BY <1>2, <1>3, <1>4 DEF HolderOK, Starting
<1>6. "pending_add" \in Statuses /\ 0 \in 0..MaxIndex
  BY Constants DEF Statuses
<1>7. RowsOK'
  BY <1>6, Kept, SetRowHolds DEF MoveContact
<1>8. TablesOK'
  BY <1>1, <1>7, Kept DEF MoveContact, TablesOK, LocksOK
<1> QED
  BY <1>1, <1>4, <1>5, <1>8, QuietHolds

LEMMA RetireHolds ==
  ASSUME Inv, NEW r \in Requests, Retire(r)
  PROVE  Inv'
<1>1. job[r].at = "retire" /\ job[r].op = "recovery" /\ job[r].to \in RecoveryKeys /\ job[r].was \in RecoveryKeys
  BY Kept DEF Retire, HolderOK
<1>2. "pending_remove" \in Statuses /\ 0 \in 0..MaxIndex /\ "check" \in Points
  BY Constants DEF Statuses, Points
<1>3. RowsOK'
  BY <1>1, <1>2, Kept, SetRowHolds DEF Retire
<1>4. TablesOK' /\ UNCHANGED <<staged, lock>>
  BY <1>3, Kept DEF Retire, TablesOK
<1>5. /\ JobsOK' /\ \A q \in Requests \ {r} : job'[q] = job[q]
      /\ job'[r].at = "check" /\ job'[r].op = job[r].op /\ job'[r].to = job[r].to
  BY <1>2, Kept, GoToHolds DEF Retire
<1>6. HolderOK(r)' /\ ~Starting(r)'
  BY <1>1, <1>5 DEF HolderOK, Starting
<1> QED
  BY <1>4, <1>5, <1>6, QuietHolds

LEMMA CheckKeysHolds ==
  ASSUME Inv, NEW r \in Requests, CheckKeys(r)
  PROVE  Inv'
<1>1. job[r].at = "check" /\ job[r].op = "recovery" /\ job[r].to \in RecoveryKeys /\ job[r] \in Jobs
  BY Kept DEF CheckKeys, HolderOK
<1>2. UNCHANGED <<staged, fails>> /\ RowsOK' /\ PreparedOK' /\ ChainOK'
  BY Kept DEF CheckKeys
<1>3. CASE \E f \in Columns : staged[f].index # 0
  <2>1. Finish(r)
    BY <1>3 DEF CheckKeys
  <2>2. /\ \A q \in Requests \ {r} : job'[q] = job[q]
        /\ JobsOK' /\ HolderOK(r)' /\ ~Starting(r)' /\ (lock' = lock \/ lock = r) /\ LocksOK'
    BY <1>2, <2>1, Kept, FinishHolds DEF LocksOK
  <2> QED
    BY <1>2, <2>2, QuietHolds DEF TablesOK
<1>4. CASE ~\E f \in Columns : staged[f].index # 0
  <2> DEFINE j == [job[r] EXCEPT !.at = "mark", !.index = NextIndex]
  <2>1. tip < MaxIndex /\ job' = [job EXCEPT ![r] = j] /\ lock' = r /\ UNCHANGED keyLock
    BY <1>4 DEF CheckKeys
  <2>2. NextIndex \in Indices /\ NextIndex \in 0..MaxIndex
    BY <2>1, Kept, Constants DEF ChainOK, NextIndex
  <2>3. j \in Jobs /\ j.at = "mark" /\ j.index = NextIndex /\ j.op = job[r].op /\ j.to = job[r].to
    BY <1>1, <2>2 DEF Jobs, Points
  <2> HIDE DEF j
  <2>4. JobsOK' /\ job'[r] = j /\ \A q \in Requests \ {r} : job'[q] = job[q]
    BY <2>1, <2>3, Kept, JobHolds
  <2>5. HolderOK(r)' /\ ~Starting(r)'
    BY <1>1, <2>2, <2>3, <2>4 DEF HolderOK, Starting
  <2>6. LocksOK' /\ lock = None
    BY <1>2, <2>1, Kept DEF LocksOK, CheckKeys, Free
  <2> QED
    BY <1>2, <2>4, <2>5, <2>6, QuietHolds DEF TablesOK
<1> QED
  BY <1>3, <1>4

LEMMA MarkKeyHolds ==
  ASSUME Inv, NEW r \in Requests, MarkKey(r)
  PROVE  Inv'
<1>1. /\ job[r].at = "mark" /\ job[r].op = "recovery" /\ job[r].to \in RecoveryKeys
      /\ job[r].index \in Indices /\ job[r].index \in 0..MaxIndex
  BY Kept, Constants DEF MarkKey, HolderOK
<1>2. RowsOK'
  <2>1. PICK k : rows' = rows \/ rows' = [rows EXCEPT ![k].index = job[r].index]
    BY DEF MarkKey, Mark
  <2>2. rows' \in [RecoveryKeys -> [status : Statuses, index : 0..MaxIndex]]
    BY <1>1, <2>1, Kept DEF RowsOK
  <2> QED
    BY <2>2, Kept DEF MarkKey, RowsOK
<1>3. TablesOK' /\ UNCHANGED <<staged, lock>>
  BY <1>2, Kept DEF MarkKey, TablesOK
<1>4. PICK at \in {"announce", "mark"} : GoTo(r, at)
  BY DEF MarkKey, Mark
<1>5. at \in Points
  BY DEF Points
<1>6. /\ JobsOK' /\ \A q \in Requests \ {r} : job'[q] = job[q]
      /\ job'[r].at = at /\ job'[r].op = job[r].op /\ job'[r].to = job[r].to
      /\ job'[r].index = job[r].index
  BY <1>4, <1>5, Kept, GoToHolds
<1>7. HolderOK(r)' /\ ~Starting(r)'
  BY <1>1, <1>6, Constants DEF HolderOK, Starting
<1> QED
  BY <1>3, <1>6, <1>7, QuietHolds

LEMMA TakeRowsHolds ==
  ASSUME JobsOK, NEW r \in Requests, NEW f \in {"recovery", "reject"},
         NEW at \in {"follow", "rows"}, NEW i \in Indices, NEW out \in Outcomes,
         NEW ks \in SUBSET RecoveryKeys, TakeRows(r, f, at, i, out, ks)
  PROVE  /\ JobsOK' /\ HolderOK(r)' /\ ~Starting(r)' /\ \A q \in Requests \ {r} : job'[q] = job[q]
<1> DEFINE to == IF ks = {} THEN "tell" ELSE at
           j == [Idle EXCEPT !.op = f, !.at = to, !.index = i, !.out = out,
            !.add = {k \in ks : rows[k].status = "pending_add"},
            !.drop = {k \in ks : rows[k].status = "pending_remove"}]
<1>1. job' = [job EXCEPT ![r] = j]
  BY DEF TakeRows
<1>2. f \in Flows /\ to \in {"follow", "rows", "tell"} /\ to \in Points /\ i \in 0..MaxIndex /\ f \notin Columns
  BY Constants DEF Points
<1> HIDE DEF to
<1>3. j \in Jobs
  <2>1. NoKeys \in [Roles -> Keys \cup {None}]
    BY DEF NoKeys
  <2>2. {k \in ks : rows[k].status = "pending_add"} \in SUBSET RecoveryKeys
        /\ {k \in ks : rows[k].status = "pending_remove"} \in SUBSET RecoveryKeys
    OBVIOUS
  <2> QED
    BY <1>2, <2>1, <2>2, Constants DEF Idle, Jobs
<1>4. j.op = f /\ j.at = to /\ j.index = i /\ j.out = out /\ j.to = None
  BY DEF Idle
<1> HIDE DEF j
<1>5. JobsOK' /\ job'[r] = j /\ \A q \in Requests \ {r} : job'[q] = job[q]
  BY <1>1, <1>3, JobHolds
<1>6. HolderOK(r)' /\ ~Starting(r)'
  BY <1>2, <1>4, <1>5 DEF HolderOK, Starting
<1> QED
  BY <1>5, <1>6

LEMMA SettleKeysHolds ==
  ASSUME Inv, NEW r \in Requests, SettleKeys(r)
  PROVE  Inv'
<1> DEFINE at == IF job[r].out = "executed" THEN "follow" ELSE "rows"
<1>1. job[r].index \in Indices /\ job[r].out \in Outcomes /\ RowsIn(job[r].index) \in SUBSET RecoveryKeys
  BY Kept DEF SettleKeys, HolderOK, RowsIn
<1>2. /\ at \in {"follow", "rows"} /\ PreparedOK'
      /\ UNCHANGED <<key, staged, rows, contact, told, prepared, grant, tip, proposal, closed, signers, limit, fails>>
  BY Kept DEF SettleKeys
<1>3. CASE Finish(r)
  BY <1>2, <1>3, ReadEndHolds
<1>4. CASE ~Finish(r)
  <2>1. TakeRows(r, "recovery", at, job[r].index, job[r].out, RowsIn(job[r].index)) /\ UNCHANGED <<lock, keyLock>>
    BY <1>4 DEF SettleKeys
  <2>2. TablesOK'
    BY <1>2, <2>1, Kept DEF TablesOK
  <2> HIDE DEF at
  <2>3. PICK i \in Indices, out \in Outcomes, ks \in SUBSET RecoveryKeys :
          i = job[r].index /\ out = job[r].out /\ ks = RowsIn(job[r].index)
    BY <1>1
  <2>4. JobsOK' /\ HolderOK(r)' /\ ~Starting(r)' /\ \A q \in Requests \ {r} : job'[q] = job[q]
    BY <1>2, <2>1, <2>3, Kept, TakeRowsHolds
  <2> QED
    BY <1>2, <2>1, <2>2, <2>4, QuietHolds
<1> QED
  BY <1>3, <1>4

LEMMA FollowContactHolds ==
  ASSUME Inv, NEW r \in Requests, FollowContact(r)
  PROVE  Inv'
<1>1. /\ job[r].at = "follow" /\ job[r].op \in {"recovery", "reject"} /\ job[r].index \in Indices
      /\ job[r].out \in Outcomes /\ job[r].to = None
  BY Kept DEF FollowContact, HolderOK
<1>2. contact' \in EmailKeys
  BY Kept DEF FollowContact, RowsOK
<1>3. TablesOK' /\ UNCHANGED <<staged, lock>>
  BY <1>2, Kept DEF FollowContact, TablesOK, RowsOK
<1>4. GoTo(r, "rows") /\ "rows" \in Points
  BY DEF FollowContact, Points
<1>5. /\ JobsOK' /\ \A q \in Requests \ {r} : job'[q] = job[q]
      /\ job'[r].at = "rows" /\ job'[r].op = job[r].op /\ job'[r].to = job[r].to
      /\ job'[r].index = job[r].index /\ job'[r].out = job[r].out
  BY <1>4, Kept, GoToHolds
<1>6. HolderOK(r)' /\ ~Starting(r)'
  BY <1>1, <1>5 DEF HolderOK, Starting
<1> QED
  BY <1>3, <1>5, <1>6, QuietHolds

LEMMA WriteRowHolds ==
  ASSUME Inv, NEW r \in Requests, NEW k \in RecoveryKeys, WriteRow(r, k)
  PROVE  Inv'
<1> DEFINE at == IF job[r].add \cup job[r].drop = {k} THEN "tell" ELSE "rows"
           j == [job[r] EXCEPT !.add = @ \ {k}, !.drop = @ \ {k}, !.at = at]
<1>1. /\ job[r].at = "rows" /\ job[r].op \in {"recovery", "reject"} /\ job[r].index \in Indices
      /\ job[r].out \in Outcomes /\ job[r].to = None /\ job[r] \in Jobs
  BY Kept DEF WriteRow, HolderOK
<1>2. rows' \in [RecoveryKeys -> [status : Statuses, index : 0..MaxIndex]]
  <2>1. {NoRow, [status |-> "active", index |-> 0], rows[k]} \subseteq [status : Statuses, index : 0..MaxIndex]
    BY Kept, Constants DEF NoRow, Statuses, RowsOK
  <2>2. PICK row \in {NoRow, [status |-> "active", index |-> 0], rows[k]} : rows' = [rows EXCEPT ![k] = row]
    BY DEF WriteRow
  <2> QED
    BY <2>1, <2>2, Kept DEF RowsOK
<1>3. TablesOK' /\ UNCHANGED <<staged, lock>>
  BY <1>2, Kept DEF WriteRow, TablesOK, RowsOK
<1>4. job' = [job EXCEPT ![r] = j]
  BY Kept DEF WriteRow, JobsOK, Jobs
<1>5. at \in {"tell", "rows"} /\ at \in Points
  BY DEF Points
<1> HIDE DEF at
<1>6. j \in Jobs /\ j.at = at /\ j.op = job[r].op /\ j.index = job[r].index /\ j.out = job[r].out /\ j.to = None
  BY <1>1, <1>5 DEF Jobs
<1> HIDE DEF j
<1>7. JobsOK' /\ job'[r] = j /\ \A q \in Requests \ {r} : job'[q] = job[q]
  BY <1>4, <1>6, Kept, JobHolds
<1>8. HolderOK(r)' /\ ~Starting(r)'
  BY <1>1, <1>5, <1>6, <1>7, Constants DEF HolderOK, Starting
<1> QED
  BY <1>3, <1>7, <1>8, QuietHolds

-----------------------------------------------------------------------------
(* Submissions *)

\* A step of r that goes on to a point that stages nothing.
LEMMA BecomeQuiet ==
  ASSUME Inv, NEW r \in Requests, NEW f \in Flows, NEW at \in {"landed", "consume"},
         NEW i \in Indices, Become(r, f, at, i, None), at = "consume" => f \in Roles,
         UNCHANGED <<staged, lock, keyLock, fails>>, RowsOK', PreparedOK', ChainOK'
  PROVE  Inv'
<1>1. at \in Points /\ i \in 0..MaxIndex /\ None \in Values \cup {None}
  BY Constants DEF Points
<1>2. /\ JobsOK' /\ \A q \in Requests \ {r} : job'[q] = job[q]
      /\ job'[r].op = f /\ job'[r].at = at /\ job'[r].index = i /\ job'[r].to = None
  BY <1>1, Kept, BecomeHolds
<1>3. HolderOK(r)' /\ ~Starting(r)'
  BY <1>2 DEF HolderOK, Starting
<1>4. TablesOK'
  BY Kept DEF TablesOK
<1> QED
  BY <1>2, <1>3, <1>4, QuietHolds

LEMMA VoteHolds ==
  ASSUME ChainOK, NEW i \in Indices, NEW ks \in SUBSET Keys, Vote(i, ks),
         UNCHANGED <<tip, closed, signers, limit>>
  PROVE  ChainOK'
<1> DEFINE standing == IF Cardinality(proposal[i].votes \cup ks) >= Threshold THEN "approved" ELSE "open"
<1>1. standing \in Standings
  BY DEF Standings
<1>2. proposal' = [proposal EXCEPT ![i].votes = proposal[i].votes \cup ks, ![i].standing = standing]
  BY DEF Vote
<1> HIDE DEF standing
<1> QED
  BY <1>1, <1>2 DEF ChainOK

LEMMA StandHolds ==
  ASSUME ChainOK, NEW i \in Indices, NEW standing \in Standings,
         proposal' = [proposal EXCEPT ![i].standing = standing],
         UNCHANGED <<tip, closed, signers, limit>>
  PROVE  ChainOK'
  BY DEF ChainOK

LEMMA RecoveryVoteHolds ==
  ASSUME Inv, NEW r \in Requests, RecoveryVote(r)
  PROVE  Inv'
<1>1. PICK f, i, k : f = job[r].op /\ i = job[r].index /\ k = grant[job[r].op]
  OBVIOUS
<1>2. /\ i \in Indices /\ f \in Flows /\ f \in Roles /\ {k} \in SUBSET Keys
      /\ Vote(i, {k}) /\ Become(r, f, "consume", i, None)
  BY <1>1, Kept, Constants DEF RecoveryVote, HolderOK, Backing
<1>3. ChainOK'
  BY <1>2, Kept, VoteHolds DEF RecoveryVote
<1>4. RowsOK' /\ PreparedOK' /\ UNCHANGED <<staged, lock, keyLock, fails>>
  BY Kept DEF RecoveryVote
<1> QED
  BY <1>2, <1>3, <1>4, BecomeQuiet

LEMMA ConsumeGrantHolds ==
  ASSUME Inv, NEW r \in Requests, ConsumeGrant(r)
  PROVE  Inv'
<1>1. RowsOK' /\ PreparedOK' /\ ChainOK' /\ UNCHANGED <<staged, fails>>
  <2>1. grant' \in [Roles -> EmailKeys \cup {None}]
    BY Kept DEF ConsumeGrant, RowsOK
  <2> QED
    BY <2>1, Kept DEF ConsumeGrant, RowsOK
<1>2. /\ \A q \in Requests \ {r} : job'[q] = job[q]
      /\ JobsOK' /\ HolderOK(r)' /\ ~Starting(r)' /\ (lock' = lock \/ lock = r) /\ LocksOK'
  BY <1>1, Kept, FinishHolds DEF LocksOK, ConsumeGrant
<1> QED
  BY <1>1, <1>2, QuietHolds DEF TablesOK

LEMMA SubmitProposeHolds ==
  ASSUME Inv, NEW r \in Requests, NEW f \in Kinds, SubmitPropose(r, f)
  PROVE  Inv'
<1> DEFINE p == prepared[f]
<1>1. f \in Flows /\ p.change \in Changes /\ p.index \in 0..MaxIndex /\ p.index = tip + 1
  BY Kept, Constants DEF SubmitPropose, PreparedOK, NextIndex
<1>2. p.index \in Indices /\ p.index = NextIndex
  BY <1>1, Kept, Constants DEF ChainOK, NextIndex
<1>3. ChainOK'
  <2> DEFINE q == [change |-> p.change, votes |-> {}, standing |-> "open"]
  <2>1. q \in [change : Changes \cup {None}, votes : SUBSET Keys, standing : Standings] /\ q.change \in Changes
    BY <1>1 DEF Standings
  <2>2. tip' = tip + 1 /\ proposal' = [proposal EXCEPT ![tip + 1] = q]
        /\ UNCHANGED <<closed, signers, limit>> /\ tip + 1 \in Indices
    BY <1>1, <1>2 DEF SubmitPropose, NextIndex
  <2> HIDE DEF q
  <2>3. proposal' \in [Indices -> [change : Changes \cup {None}, votes : SUBSET Keys, standing : Standings]]
    BY <2>1, <2>2, Kept DEF ChainOK
  <2>4. ASSUME NEW i \in Indices, i <= tip' PROVE proposal'[i].change \in Changes
    <3>1. CASE i = tip + 1
      BY <2>1, <2>2, <3>1, Kept DEF ChainOK
    <3>2. CASE i # tip + 1
      <4>1. i <= tip
        BY <2>2, <2>4, <3>2, Kept, Constants DEF ChainOK
      <4> QED
        BY <2>2, <3>2, <4>1, Kept DEF ChainOK
    <3> QED
      BY <3>1, <3>2
  <2>5. tip' \in 0..MaxIndex
    BY <2>2, Constants
  <2> QED
    BY <2>2, <2>3, <2>4, <2>5, Kept DEF ChainOK
<1>4. RowsOK' /\ PreparedOK' /\ UNCHANGED <<staged, lock, keyLock, fails>>
  BY Kept DEF SubmitPropose
<1>5. Become(r, f, "landed", p.index, None)
  BY DEF SubmitPropose
<1> HIDE DEF p
<1> QED
  BY <1>1, <1>2, <1>3, <1>4, <1>5, BecomeQuiet

LEMMA SubmitApproveHolds ==
  ASSUME Inv, NEW r \in Requests, NEW f \in Kinds, SubmitApprove(r, f)
  PROVE  Inv'
<1> DEFINE p == prepared[f]
<1>1. f \in Flows /\ p.index \in 0..MaxIndex /\ p.by \in SUBSET Keys
  BY Kept, Constants DEF PreparedOK
<1>2. Standing(p.index) = "open" /\ Vote(p.index, p.by) /\ Become(r, f, "landed", p.index, None)
  BY DEF SubmitApprove
<1>3. RowsOK' /\ PreparedOK' /\ UNCHANGED <<staged, lock, keyLock, fails>> /\ UNCHANGED <<tip, closed, signers, limit>>
  BY Kept DEF SubmitApprove
<1> HIDE DEF p
<1>4. p.index \in Indices
  BY <1>1, <1>2, Kept, StandingHolds
<1>5. ChainOK'
  BY <1>1, <1>2, <1>3, <1>4, Kept, VoteHolds
<1> QED
  BY <1>1, <1>2, <1>3, <1>4, <1>5, BecomeQuiet

LEMMA SubmitExecuteHolds ==
  ASSUME Inv, NEW r \in Requests, NEW f \in Kinds, SubmitExecute(r, f)
  PROVE  Inv'
<1> DEFINE p == prepared[f]
           c == proposal[p.index].change
<1>1. f \in Flows /\ p.index \in 0..MaxIndex
  BY Kept, Constants DEF PreparedOK
<1>2. /\ Standing(p.index) = "ripe" /\ Become(r, f, "landed", p.index, None)
      /\ proposal' = [proposal EXCEPT ![p.index].standing = "executed"]
      /\ signers' = (signers \ c.drop) \cup c.add
      /\ limit' = IF c.limit = None THEN limit ELSE c.limit
      /\ UNCHANGED <<tip, closed>>
  BY DEF SubmitExecute
<1>3. RowsOK' /\ PreparedOK' /\ UNCHANGED <<staged, lock, keyLock, fails>>
  BY Kept DEF SubmitExecute
<1> HIDE DEF p
<1>4. p.index \in Indices /\ p.index <= tip
  BY <1>1, <1>2, Kept, StandingHolds
<1>5. c \in Changes
  BY <1>4, Kept DEF ChainOK
<1> HIDE DEF c
<1>6. signers' \in SUBSET Keys /\ limit' \in Limits
  BY <1>2, <1>5, Kept DEF ChainOK, Changes
<1>7. ChainOK'
  BY <1>2, <1>4, <1>6, Kept DEF ChainOK, Standings
<1> QED
  BY <1>1, <1>2, <1>3, <1>4, <1>7, BecomeQuiet

LEMMA LandingHolds ==
  ASSUME Inv, NEW r \in Requests, Landing(r)
  PROVE  Inv'
<1>1. job[r].at = "landed" /\ job[r].op \in Flows /\ (job[r].op = "reject" => job[r].index \in Indices)
  BY Kept DEF Landing, HolderOK
<1>2. PreparedOK'
  BY <1>1, Kept, UnprepareHolds DEF Landing
<1>3. RowsOK' /\ ChainOK' /\ UNCHANGED <<staged, fails>>
  BY Kept DEF Landing
<1>4. CASE job[r].op = "reject"
  <2>1. GoTo(r, "withdraw") /\ UNCHANGED <<lock, keyLock>> /\ "withdraw" \in Points
    BY <1>4 DEF Landing, Points
  <2>2. /\ JobsOK' /\ \A q \in Requests \ {r} : job'[q] = job[q]
        /\ job'[r].at = "withdraw" /\ job'[r].op = job[r].op /\ job'[r].index = job[r].index
        /\ job'[r].to = job[r].to
    BY <2>1, Kept, GoToHolds
  <2>3. HolderOK(r)' /\ ~Starting(r)'
    BY <1>1, <1>4, <2>2 DEF HolderOK, Starting
  <2>4. TablesOK'
    BY <1>2, <1>3, <2>1, Kept DEF TablesOK
  <2> QED
    BY <1>3, <2>1, <2>2, <2>3, <2>4, QuietHolds
<1>5. CASE job[r].op # "reject"
  <2>1. Finish(r)
    BY <1>5 DEF Landing
  <2>2. /\ \A q \in Requests \ {r} : job'[q] = job[q]
        /\ JobsOK' /\ HolderOK(r)' /\ ~Starting(r)' /\ (lock' = lock \/ lock = r) /\ LocksOK'
    BY <1>3, <2>1, Kept, FinishHolds DEF LocksOK
  <2> QED
    BY <1>2, <1>3, <2>2, QuietHolds DEF TablesOK
<1> QED
  BY <1>4, <1>5

LEMMA SubmitRejectionHolds ==
  ASSUME Inv, NEW r \in Requests, SubmitRejection(r)
  PROVE  Inv'
<1> DEFINE p == prepared["reject"]
<1>1. "reject" \in Flows /\ p.index \in 0..MaxIndex
  BY Kept, Constants DEF PreparedOK
<1>2. /\ p.index \in 1..tip /\ Become(r, "reject", "landed", p.index, None)
      /\ proposal' = [proposal EXCEPT ![p.index].standing = "rejected"]
      /\ UNCHANGED <<tip, closed, signers, limit>>
  BY DEF SubmitRejection, Unsettled, Readable
<1>3. RowsOK' /\ PreparedOK' /\ UNCHANGED <<staged, lock, keyLock, fails>>
  BY Kept DEF SubmitRejection
<1> HIDE DEF p
<1>4. p.index \in Indices
  BY <1>2, Kept, Constants DEF ChainOK
<1>5. ChainOK'
  BY <1>2, <1>4, Kept, StandHolds DEF Standings
<1> QED
  BY <1>1, <1>2, <1>3, <1>4, <1>5, BecomeQuiet

LEMMA WithdrawHolds ==
  ASSUME Inv, NEW r \in Requests, Withdraw(r)
  PROVE  Inv'
<1>1. PICK i, ks : i = job[r].index /\ ks = RowsIn(StagedIndex("recovery"))
  OBVIOUS
<1>2. i \in Indices /\ "rejected" \in Outcomes /\ ks \in SUBSET RecoveryKeys
  BY <1>1, Kept DEF Withdraw, HolderOK, Outcomes, RowsIn
<1>3. TakeRows(r, "reject", "rows", i, "rejected", ks)
  BY <1>1 DEF Withdraw
<1>4. TablesOK' /\ UNCHANGED <<staged, lock>>
  BY Kept DEF Withdraw, TablesOK
<1>5. JobsOK' /\ HolderOK(r)' /\ ~Starting(r)' /\ \A q \in Requests \ {r} : job'[q] = job[q]
  BY <1>2, <1>3, Kept, TakeRowsHolds
<1> QED
  BY <1>4, <1>5, QuietHolds

LEMMA DieHolds ==
  ASSUME Inv, NEW r \in Requests, Die(r)
  PROVE  Inv'
<1>1. RowsOK' /\ PreparedOK' /\ ChainOK' /\ UNCHANGED staged
  BY Kept DEF Die
<1>2. fails' \in 0..MaxFails
  BY Kept, Constants DEF Die, LocksOK
<1>3. /\ \A q \in Requests \ {r} : job'[q] = job[q]
      /\ JobsOK' /\ HolderOK(r)' /\ ~Starting(r)' /\ (lock' = lock \/ lock = r) /\ LocksOK'
  BY <1>2, Kept, FinishHolds DEF LocksOK, Die
<1> QED
  BY <1>1, <1>3, QuietHolds DEF TablesOK

-----------------------------------------------------------------------------
(* What no request is in the middle of *)

LEMMA StillHolds ==
  ASSUME Inv, UNCHANGED <<staged, lock, keyLock, job, fails>>, RowsOK', PreparedOK', ChainOK'
  PROVE  Inv'
<1>1. StagedOK' /\ JobsOK' /\ TablesOK' /\ OneColumnAtATime'
  BY Kept DEF StagedOK, JobsOK, TablesOK, Inv, OneColumnAtATime
<1>2. ASSUME NEW r \in Requests PROVE HolderOK(r)' /\ Alone(r)'
  <2>1. HolderOK(r) /\ Alone(r)
    BY Kept
  <2> QED
    BY <2>1 DEF HolderOK, Alone, Starting
<1> QED
  BY <1>1, <1>2 DEF Inv, TypeInv

LEMMA VerifyCodeHolds ==
  ASSUME Inv, NEW f \in Roles, VerifyCode(f)
  PROVE  Inv'
<1>1. RowsOK'
  BY Kept DEF VerifyCode, RowsOK
<1> QED
  BY <1>1, Kept, StillHolds DEF VerifyCode

LEMMA PrepareRejectionHolds ==
  ASSUME Inv, PrepareRejection
  PROVE  Inv'
<1>1. /\ "reject" \in Flows /\ tip \in 0..MaxIndex
      /\ {key["device"], key["passkey"]} \in SUBSET Keys
  BY Kept, Constants DEF ChainOK, RowsOK
<1>2. PreparedOK'
  BY <1>1, Kept, PrepareHolds DEF PrepareRejection, Prepare
<1> QED
  BY <1>2, Kept, StillHolds DEF PrepareRejection

LEMMA WatchHolds ==
  ASSUME Inv, Watch
  PROVE  Inv'
<1>1. tip \in Indices
  BY Kept, Constants DEF Watch, ChainOK
<1>2. told' \in SUBSET [what : {"staged", "executed", "rejected"}, index : Indices,
                         kind : Kinds \cup {None}, to : Values \cup {None}]
  BY <1>1, Kept, TellHolds DEF Watch
<1>3. RowsOK'
  BY <1>2, Kept DEF Watch, RowsOK
<1> QED
  BY <1>3, Kept, StillHolds DEF Watch

LEMMA ChainMoveHolds ==
  ASSUME Inv, NEW i \in Indices, Ripen(i) \/ Close(i)
  PROVE  Inv'
<1>1. CASE Ripen(i)
  <2>1. ChainOK'
    BY <1>1, Kept, StandHolds DEF Ripen, Standings
  <2> QED
    BY <1>1, <2>1, Kept, StillHolds DEF Ripen
<1>2. CASE Close(i)
  <2>1. ChainOK'
    BY <1>2, Kept DEF Close, ChainOK
  <2> QED
    BY <1>2, <2>1, Kept, StillHolds DEF Close
<1> QED
  BY <1>1, <1>2

-----------------------------------------------------------------------------
(* The theorems *)

LEMMA StepInv == ASSUME Inv, NEW r \in Requests, Step(r) PROVE Inv'
<1>1. CASE \E f \in Columns, to \in Values : Start(r, f, to) \/ StartOver(r, f, to)
  BY <1>1, StartHolds, StartOverHolds
<1>2. CASE Stage(r) \/ Announce(r)
  BY <1>2, StageHolds, AnnounceHolds
<1>3. CASE (\E f \in Kinds : Look(r, f)) \/ FindSettled(r) \/ FindOpen(r)
  BY <1>3, LookHolds, FindSettledHolds, FindOpenHolds
<1>4. CASE FindNothing(r) \/ AskTip(r) \/ FindLanded(r)
  BY <1>4, FindNothingHolds, AskTipHolds, FindLandedHolds
<1>5. CASE ResolveColumns(r) \/ TellOutcome(r) \/ Clear(r)
  BY <1>5, ResolveColumnsHolds, TellOutcomeHolds, ClearHolds
<1>6. CASE \E k \in RecoveryKeys : AddKey(r, k) \/ RemoveKey(r, k) \/ MoveContact(r, k)
  BY <1>6, OneKeyHolds, MoveContactHolds
<1>7. CASE Retire(r) \/ CheckKeys(r) \/ MarkKey(r) \/ SettleKeys(r) \/ FollowContact(r)
  BY <1>7, RetireHolds, CheckKeysHolds, MarkKeyHolds, SettleKeysHolds, FollowContactHolds
<1>8. CASE \E k \in RecoveryKeys : WriteRow(r, k)
  BY <1>8, WriteRowHolds
<1>9. CASE RecoveryVote(r) \/ ConsumeGrant(r)
  BY <1>9, RecoveryVoteHolds, ConsumeGrantHolds
<1>10. CASE \E f \in Kinds : SubmitPropose(r, f) \/ SubmitApprove(r, f) \/ SubmitExecute(r, f)
  BY <1>10, SubmitProposeHolds, SubmitApproveHolds, SubmitExecuteHolds
<1>11. CASE Landing(r) \/ SubmitRejection(r) \/ Withdraw(r) \/ Die(r)
  BY <1>11, LandingHolds, SubmitRejectionHolds, WithdrawHolds, DieHolds
<1> QED
  BY <1>1, <1>2, <1>3, <1>4, <1>5, <1>6, <1>7, <1>8, <1>9, <1>10, <1>11 DEF Step, Begin, GoOn

LEMMA StutterInv == Inv /\ UNCHANGED vars => Inv'
  BY Kept, StillHolds DEF vars

LEMMA NextInv == Inv /\ [Next]_vars => Inv'
<1> SUFFICES ASSUME Inv, [Next]_vars PROVE Inv'
  OBVIOUS
<1>1. CASE \E r \in Requests : Step(r)
  BY <1>1, StepInv
<1>2. CASE \E f \in Roles : VerifyCode(f)
  BY <1>2, VerifyCodeHolds
<1>3. CASE PrepareRejection \/ Watch
  BY <1>3, PrepareRejectionHolds, WatchHolds
<1>4. CASE \E i \in Indices : Ripen(i) \/ Close(i)
  BY <1>4, ChainMoveHolds
<1>5. CASE UNCHANGED vars
  BY <1>5, StutterInv
<1> QED
  BY <1>1, <1>2, <1>3, <1>4, <1>5 DEF Next

LEMMA AlwaysInv == Spec => []Inv
<1> QED
  BY InitInv, NextInv, PTL DEF Spec

\* Every table, lock and proposal keeps its type, whatever the requests do.
THEOREM TypeCorrect == Spec => []TypeOK
<1>1. Inv => TypeOK
  BY TypeInvTypes DEF Inv
<1> QED
  BY <1>1, AlwaysInv, PTL

\* The device, the passkey and the limit never wait together: a start holds the
\* Account's lock from the check that the other columns are empty to the write
\* of its own, through settling what an earlier one left (withAdvisoryLock
\* around start in primary-rotation, device-rotation and spending-limit-change).
THEOREM ColumnsTakeTurns == Spec => []OneColumnAtATime
<1>1. Inv => OneColumnAtATime
  BY DEF Inv
<1> QED
  BY <1>1, AlwaysInv, PTL

-----------------------------------------------------------------------------
(* What the chain executed, and what was committed and told because of it.   *)

Executed(i) == proposal[i].standing = "executed"

\* The first key of a role has left the signers, if only for a time.
Gone(f) == FirstKey[f] \notin signers \/ Installed(FirstKey[f])
\* The Account has this limit only by a change.
Fresh(a) == limit = a => Installed(a)

ChainHistory ==
  /\ \A i \in Indices : i > tip => proposal[i].standing = "none"
  /\ \A i \in closed : i <= tip /\ proposal[i].standing \in Outcomes
  /\ \A f \in Roles : \A k \in PhoneKeys[f] \cap signers : k = FirstKey[f] \/ Installed(k)

\* A device or a passkey on file is the first, or one that a change installed.
Held(f, k) == k \in PhoneKeys[f] /\ (k = FirstKey[f] \/ (Installed(k) /\ Gone(f)))
KeyHistory(f) == Held(f, key[f])

Worthy(f, to) == IF f = "limit" THEN Fresh(to) ELSE to \in PhoneKeys[f]

StageHistory(f) ==
  staged[f].index # 0 => staged[f].index <= tip + 1 /\ Worthy(f, staged[f].to)

Backed(f, i, to) ==
  /\ f \notin Roles => Executed(i)
  /\ f \in Columns => Installed(to)

\* Where a request has read the row, and then the proposal, the tip and the signers.
Reads == {"look", "ask", "land"}

JobHistory(r) ==
  LET j == job[r] IN
  /\ j.at \in Reads \cup {"stage", "resolve", "tell", "clear"} /\ j.op \in Columns /\ j.to # None =>
       Worthy(j.op, j.to)
  /\ j.at = "stage" => j.index <= tip + 1
  /\ j.at \in Reads /\ j.op \in Columns => Worthy(j.op, j.was)
  /\ j.at \in Reads \cup {"announce"} /\ j.op \in Roles => Held(j.op, j.had[j.op])
  /\ j.at \in Reads /\ j.out = "executed" => Executed(j.index)
  /\ j.at = "land" /\ j.op = "limit" => j.out = "executed"
  /\ j.at = "resolve" /\ j.op \in Roles => j.was \in PhoneKeys[j.op]
  /\ j.at \in {"resolve", "tell", "follow", "rows"} /\ j.out = "executed" =>
       /\ j.op \in Kinds /\ Backed(j.op, j.index, j.was)
       /\ j.op \in Roles => Gone(j.op)

History ==
  /\ ChainHistory /\ (\A f \in Roles : KeyHistory(f)) /\ (\A f \in Columns : StageHistory(f))
  /\ (\A r \in Requests : JobHistory(r)) /\ ExecutedIsBacked

\* What a step of the chain may do.
ChainGrows ==
  /\ tip <= tip' /\ closed \subseteq closed'
  /\ \A i \in Indices : Executed(i) => proposal'[i].standing = "executed" /\ proposal'[i].change = proposal[i].change
  /\ \A k \in signers' : k \in signers \/ Installed(k)'
  /\ limit' = limit \/ Installed(limit)'

LEMMA InstalledStays == ASSUME ChainGrows, NEW to, Installed(to) PROVE Installed(to)'
  BY DEF ChainGrows, Installed, Executed

LEMMA GrownStays ==
  ASSUME Inv, ChainGrows
  PROVE  /\ \A f \in Roles : Gone(f) => Gone(f)'
         /\ \A a : Fresh(a) => Fresh(a)'
         /\ \A f \in Roles : \A k : Held(f, k) => Held(f, k)'
         /\ \A f, i, to : i \in Indices /\ Backed(f, i, to) => Backed(f, i, to)'
<1>1. \A f \in Roles : Gone(f) => Gone(f)'
  BY InstalledStays DEF Gone, ChainGrows
<1>2. \A a : Fresh(a) => Fresh(a)'
  BY InstalledStays DEF Fresh, ChainGrows
<1>3. \A f, i, to : i \in Indices /\ Backed(f, i, to) => Backed(f, i, to)'
  BY InstalledStays DEF Backed, ChainGrows, Executed
<1>4. \A f \in Roles : \A k : Held(f, k) => Held(f, k)'
  BY <1>1, InstalledStays DEF Held
<1> QED
  BY <1>1, <1>2, <1>3, <1>4

LEMMA WorthyStays == ASSUME Inv, ChainGrows, NEW f, NEW to, Worthy(f, to) PROVE Worthy(f, to)'
  BY GrownStays DEF Worthy

\* A proposal that is not settled moves; the signers and the limit stay.
LEMMA StandingMoves ==
  ASSUME Inv, ChainHistory, NEW i \in Indices, i <= tip, i \notin closed, ~Executed(i),
         proposal'[i].change = proposal[i].change, \A j \in Indices \ {i} : proposal'[j] = proposal[j],
         UNCHANGED <<tip, closed, signers, limit>>
  PROVE  ChainGrows /\ ChainHistory'
<1>1. tip \in Nat /\ closed \subseteq Indices /\ Indices \subseteq Nat
  BY Kept, Constants DEF ChainOK
<1>2. ChainGrows
  <2>1. tip <= tip' /\ closed \subseteq closed' /\ limit' = limit
    BY <1>1
  <2>2. ASSUME NEW j \in Indices, Executed(j)
        PROVE  proposal'[j].standing = "executed" /\ proposal'[j].change = proposal[j].change
    <3>1. proposal'[j] = proposal[j]
      BY <2>2
    <3> QED
      BY <2>2, <3>1 DEF Executed
  <2>3. signers' = signers
    OBVIOUS
  <2> QED
    BY <2>1, <2>2, <2>3 DEF ChainGrows
<1>3. \A f \in Roles : \A k \in PhoneKeys[f] \cap signers' : k = FirstKey[f] \/ Installed(k)'
  BY <1>2, InstalledStays DEF ChainHistory
<1> QED
  BY <1>1, <1>2, <1>3 DEF ChainHistory

LEMMA VoteMoves ==
  ASSUME Inv, ChainHistory, NEW i \in 0..MaxIndex, Standing(i) = "open", NEW ks, Vote(i, ks),
         UNCHANGED <<tip, closed, signers, limit>>
  PROVE  ChainGrows /\ ChainHistory'
<1>1. i \in Indices /\ i <= tip /\ i \notin closed /\ ~Executed(i)
  BY Kept, StandingHolds DEF Standing, Readable, Executed
<1>2. \A j \in Indices \ {i} : proposal'[j] = proposal[j]
  BY <1>1, Kept DEF Vote, ChainOK
<1>3. proposal'[i].change = proposal[i].change
  BY <1>1, Kept DEF Vote, ChainOK
<1> QED
  BY <1>1, <1>2, <1>3, StandingMoves

LEMMA ProposeGrows ==
  ASSUME Inv, ChainHistory, NEW r \in Requests, NEW f \in Kinds, SubmitPropose(r, f)
  PROVE  ChainGrows /\ ChainHistory'
<1> DEFINE i == tip + 1
           c == prepared[f].change
<1>1. /\ i = prepared[f].index /\ tip' = i /\ UNCHANGED <<closed, signers, limit>>
      /\ proposal' = [proposal EXCEPT ![i] = [change |-> c, votes |-> {}, standing |-> "open"]]
  BY DEF SubmitPropose, NextIndex
<1>2. tip \in 0..MaxIndex /\ prepared[f].index \in 0..MaxIndex /\ MaxIndex \in Nat /\ Indices = 1..MaxIndex
  BY Kept, Constants DEF ChainOK, PreparedOK
<1>3. i \in Indices /\ ~Executed(i)
  BY <1>1, <1>2 DEF ChainHistory, Executed
<1>4. \A j \in Indices \ {i} : proposal'[j] = proposal[j]
  BY <1>1, <1>3, Kept DEF ChainOK
<1>5. ChainGrows
  BY <1>1, <1>2, <1>3, <1>4 DEF ChainGrows, Executed
<1>6. \A g \in Roles : \A k \in PhoneKeys[g] \cap signers' : k = FirstKey[g] \/ Installed(k)'
  BY <1>1, <1>5, InstalledStays DEF ChainHistory
<1>7. \A j \in closed' : j <= tip' /\ j # i /\ proposal'[j].standing \in Outcomes
  BY <1>1, <1>2, <1>3, <1>4, Kept DEF ChainHistory, ChainOK
<1>8. \A j \in Indices : j > tip' => proposal'[j].standing = "none"
  BY <1>1, <1>2, <1>4 DEF ChainHistory
<1> QED
  BY <1>5, <1>6, <1>7, <1>8 DEF ChainHistory

LEMMA ExecuteGrows ==
  ASSUME Inv, ChainHistory, NEW r \in Requests, NEW f \in Kinds, SubmitExecute(r, f)
  PROVE  ChainGrows /\ ChainHistory'
<1> DEFINE i == prepared[f].index
           c == proposal[i].change
<1>1. /\ Standing(i) = "ripe" /\ proposal' = [proposal EXCEPT ![i].standing = "executed"]
      /\ signers' = (signers \ c.drop) \cup c.add /\ (limit' = limit \/ limit' = c.limit)
      /\ UNCHANGED <<tip, closed>>
  BY DEF SubmitExecute
<1>2. i \in 0..MaxIndex
  BY Kept, Constants DEF PreparedOK
<1>3. i \in Indices /\ i <= tip /\ i \notin closed /\ ~Executed(i)
  BY <1>1, <1>2, Kept, StandingHolds DEF Standing, Readable, Executed
<1>4. /\ \A j \in Indices \ {i} : proposal'[j] = proposal[j]
      /\ proposal'[i].standing = "executed" /\ proposal'[i].change = c
  BY <1>1, <1>3, Kept DEF ChainOK
<1>5. \A to \in c.add \cup {c.limit} : Installed(to)'
  BY <1>3, <1>4 DEF Installed
<1> HIDE DEF i, c
<1>6. ChainGrows
  BY <1>1, <1>3, <1>4, <1>5, Kept DEF ChainGrows, Executed, ChainOK
<1>7. \A g \in Roles : \A k \in PhoneKeys[g] \cap signers' : k = FirstKey[g] \/ Installed(k)'
  BY <1>6, InstalledStays DEF ChainHistory, ChainGrows
<1>8. \A j \in closed' : j <= tip' /\ proposal'[j].standing \in Outcomes
  BY <1>1, <1>3, <1>4, Kept DEF ChainHistory, ChainOK
<1>9. \A j \in Indices : j > tip' => proposal'[j].standing = "none"
  BY <1>1, <1>3, <1>4, Kept, Constants DEF ChainHistory, ChainOK
<1> QED
  BY <1>6, <1>7, <1>8, <1>9 DEF ChainHistory

LEMMA ChainStill ==
  ASSUME Inv, ChainHistory, UNCHANGED <<tip, proposal, closed, signers, limit>>
  PROVE  ChainGrows /\ ChainHistory'
<1>1. tip <= tip'
  BY Kept DEF ChainOK
<1>2. ChainGrows
  BY <1>1 DEF ChainGrows, Executed
<1>3. ChainHistory'
  BY DEF ChainHistory, Installed
<1> QED
  BY <1>2, <1>3

-----------------------------------------------------------------------------
(* What is on file, under way and told, through a step.                      *)

LEMMA Between ==
  ASSUME NEW a \in Nat, NEW b \in Nat, NEW c \in Nat, a <= b + 1, b <= c
  PROVE  a <= c + 1
  OBVIOUS

LEMMA TipStays ==
  ASSUME Inv, Inv', ChainGrows, NEW i \in 0..MaxIndex, i <= tip + 1
  PROVE  i <= tip' + 1
<1>1. MaxIndex \in Nat /\ tip \in 0..MaxIndex
  BY Kept, Constants DEF ChainOK
<1>2. tip' \in 0..MaxIndex
  BY DEF Inv, TypeInv, TablesOK, ChainOK
<1>3. i \in Nat /\ tip \in Nat /\ tip' \in Nat
  BY <1>1, <1>2
<1>4. tip <= tip'
  BY DEF ChainGrows
<1> QED
  BY <1>3, <1>4, Between

LEMMA KeyStays ==
  ASSUME Inv, ChainGrows, NEW f \in Roles, KeyHistory(f), key'[f] = key[f]
  PROVE  KeyHistory(f)'
  BY GrownStays DEF KeyHistory, Held, Gone, Installed

LEMMA StageStays ==
  ASSUME Inv, Inv', ChainGrows, NEW f \in Columns, StageHistory(f), staged'[f] = staged[f]
  PROVE  StageHistory(f)'
<1>1. staged[f].index \in 0..MaxIndex
  BY Kept DEF StagedOK
<1>2. staged[f].index # 0 => Worthy(f, staged[f].to)' /\ staged[f].index <= tip' + 1
  BY <1>1, TipStays, WorthyStays DEF StageHistory
<1> QED
  BY <1>2 DEF StageHistory, Worthy, Fresh, Installed

\* What a request knows stays true, while others move and where it goes on with it.
LEMMA JobStays ==
  ASSUME Inv, Inv', ChainGrows, NEW r \in Requests, JobHistory(r),
         job'[r].op = job[r].op, job'[r].index = job[r].index, job'[r].out = job[r].out,
         job'[r].was = job[r].was, job'[r].to = job[r].to,
         job'[r].at \in Reads \cup {"stage", "resolve", "tell", "clear"} /\ job[r].op \in Columns =>
           job[r].at \in Reads \cup {"stage", "resolve", "tell", "clear"},
         job'[r].at = "stage" => job[r].at = "stage",
         job'[r].at \in Reads => job[r].at \in Reads,
         job'[r].at \in Reads \cup {"announce"} /\ job[r].op \in Roles =>
           job[r].at \in Reads \cup {"announce"} /\ job'[r].had = job[r].had,
         job'[r].at = "land" /\ job[r].op = "limit" => job[r].at = "land",
         job'[r].at = "resolve" /\ job[r].op \in Roles => job[r].at = "resolve",
         job'[r].at \in {"resolve", "tell", "follow", "rows"} =>
           job[r].at \in {"resolve", "tell", "follow", "rows"}
  PROVE  JobHistory(r)'
<1> DEFINE f == job[r].op
           i == job[r].index
           to == job[r].to
           was == job[r].was
           k == job[r].had[f]
<1>1. HolderOK(r) /\ i \in 0..MaxIndex /\ JobHistory(r)
  BY Kept DEF Jobs
<1>2. job'[r].at \in Reads \cup {"stage", "resolve", "tell", "clear"} /\ f \in Columns /\ to # None =>
        IF f = "limit" THEN limit' = to => Installed(to)' ELSE to \in PhoneKeys[f]
  <2>1. job'[r].at \in Reads \cup {"stage", "resolve", "tell", "clear"} /\ f \in Columns /\ to # None => Worthy(f, to)
    BY <1>1 DEF JobHistory
  <2> QED
    BY <2>1, WorthyStays DEF Worthy, Fresh
<1>3. job'[r].at = "stage" => i <= tip' + 1
  BY <1>1, TipStays DEF JobHistory
<1>4. job'[r].at = "resolve" /\ f \in Roles => was \in PhoneKeys[f]
  BY DEF JobHistory
<1>5. job'[r].at \in {"resolve", "tell", "follow", "rows"} /\ job'[r].out = "executed" =>
        /\ f \in Kinds
        /\ f \notin Roles => proposal'[i].standing = "executed"
        /\ f \in Columns => Installed(was)'
        /\ f \in Roles => FirstKey[f] \notin signers' \/ Installed(FirstKey[f])'
  <2> SUFFICES ASSUME job[r].at \in {"resolve", "tell", "follow", "rows"}, job[r].out = "executed"
               PROVE  /\ f \in Kinds
                      /\ f \notin Roles => proposal'[i].standing = "executed"
                      /\ f \in Columns => Installed(was)'
                      /\ f \in Roles => FirstKey[f] \notin signers' \/ Installed(FirstKey[f])'
    OBVIOUS
  <2>1. i \in Indices
    BY <1>1 DEF HolderOK
  <2>2. f \in Kinds /\ Backed(f, i, was) /\ (f \in Roles => Gone(f))
    BY DEF JobHistory
  <2>3. f \notin Roles => proposal'[i].standing = "executed"
    BY <2>1, <2>2 DEF Backed, ChainGrows, Executed
  <2>4. f \in Columns => Installed(was)'
    BY <2>2, InstalledStays DEF Backed
  <2>5. f \in Roles => FirstKey[f] \notin signers' \/ Installed(FirstKey[f])'
    BY <2>2, InstalledStays DEF Gone, ChainGrows
  <2> QED
    BY <2>2, <2>3, <2>4, <2>5
<1>6. job'[r].at \in Reads /\ f \in Columns =>
        IF f = "limit" THEN limit' = was => Installed(was)' ELSE was \in PhoneKeys[f]
  <2>1. job'[r].at \in Reads /\ f \in Columns => Worthy(f, was)
    BY <1>1 DEF JobHistory
  <2> QED
    BY <2>1, WorthyStays DEF Worthy, Fresh
<1>7. job'[r].at \in Reads \cup {"announce"} /\ f \in Roles =>
        /\ k \in PhoneKeys[f]
        /\ k = FirstKey[f] \/ (Installed(k)' /\ (FirstKey[f] \notin signers' \/ Installed(FirstKey[f])'))
  <2>1. job'[r].at \in Reads \cup {"announce"} /\ f \in Roles => Held(f, k)
    BY <1>1 DEF JobHistory
  <2> QED
    BY <2>1, GrownStays DEF Held, Gone
<1>8. job'[r].at \in Reads /\ job'[r].out = "executed" => proposal'[i].standing = "executed"
  <2>1. job'[r].at \in Reads => i \in Indices
    BY <1>1 DEF HolderOK, Reads
  <2> QED
    BY <1>1, <2>1 DEF JobHistory, ChainGrows, Executed
<1>9. job'[r].at = "land" /\ f = "limit" => job[r].out = "executed"
  BY <1>1 DEF JobHistory
<1> QED
  BY <1>2, <1>3, <1>4, <1>5, <1>6, <1>7, <1>8, <1>9
     DEF JobHistory, Worthy, Fresh, Backed, Executed, Gone, Installed, Held

LEMMA ToldStays ==
  ASSUME Inv, ChainGrows, ExecutedIsBacked, NEW e \in told, e.what = "executed"
  PROVE  Backed(e.kind, e.index, e.to)'
<1>1. e.index \in Indices /\ Backed(e.kind, e.index, e.to)
  BY Kept DEF RowsOK, ExecutedIsBacked, Backed, Executed
<1> QED
  BY <1>1, GrownStays

\* What a step of request r must show.
LEMMA HistoryHolds ==
  ASSUME Inv, Inv', History, ChainGrows, ChainHistory', NEW r \in Requests,
         \A q \in Requests \ {r} : job'[q] = job[q], JobHistory(r)',
         \A f \in Roles : key'[f] = key[f] \/ KeyHistory(f)',
         \A f \in Columns : staged'[f] = staged[f] \/ StageHistory(f)',
         \A e \in told' : e \in told \/ e.what # "executed" \/ Backed(e.kind, e.index, e.to)'
  PROVE  History'
<1>1. \A f \in Roles : KeyHistory(f)'
  BY KeyStays DEF History
<1>2. \A f \in Columns : StageHistory(f)'
  BY StageStays DEF History
<1>3. \A q \in Requests : JobHistory(q)'
  BY JobStays DEF History
<1>4. \A e \in told' : e.what = "executed" => Backed(e.kind, e.index, e.to)'
  BY ToldStays DEF History
<1>5. ExecutedIsBacked'
  BY <1>4 DEF ExecutedIsBacked, Backed, Executed
<1> QED
  BY <1>1, <1>2, <1>3, <1>5 DEF History

\* What a step that is no request's must show.
LEMMA HistoryStill ==
  ASSUME Inv, Inv', History, ChainGrows, ChainHistory', UNCHANGED <<key, staged, job>>,
         \A e \in told' : e \in told \/ e.what # "executed"
  PROVE  History'
<1>1. \A f \in Roles : KeyHistory(f)'
  BY KeyStays DEF History
<1>2. \A f \in Columns : StageHistory(f)'
  BY StageStays DEF History
<1>3. \A q \in Requests : JobHistory(q)'
  BY JobStays DEF History
<1>4. \A e \in told' : e.what = "executed" => Backed(e.kind, e.index, e.to)'
  BY ToldStays DEF History
<1>5. ExecutedIsBacked'
  BY <1>4 DEF ExecutedIsBacked, Backed, Executed
<1> QED
  BY <1>1, <1>2, <1>3, <1>5 DEF History

LEMMA QuietJob ==
  ASSUME NEW r \in Requests,
         job'[r].at \notin Reads \cup {"stage", "announce", "resolve", "tell", "clear", "follow", "rows"}
  PROVE  JobHistory(r)'
  BY DEF JobHistory, Reads

\* A step of request r that neither commits, stages nor tells an outcome, and
\* after which it knows nothing of an outcome.
LEMMA QuietHistory ==
  ASSUME Inv, Inv', History, ChainGrows, ChainHistory', NEW r \in Requests,
         \A q \in Requests \ {r} : job'[q] = job[q], UNCHANGED <<key, staged>>,
         \/ job'[r].at \notin Reads \cup {"stage", "announce", "resolve", "tell", "clear", "follow", "rows"}
         \/ job'[r].at = "announce" /\ job'[r].op = "recovery",
         \A e \in told' : e \in told \/ e.what # "executed"
  PROVE  History'
<1>1. JobHistory(r)'
  BY QuietJob, Constants, ConstantsAssumption DEF JobHistory, Reads
<1> QED
  BY <1>1, HistoryHolds

LEMMA BecomeGives ==
  ASSUME Inv, NEW r \in Requests, NEW f, NEW at, NEW i, NEW to, Become(r, f, at, i, to)
  PROVE  /\ job'[r].op = f /\ job'[r].at = at /\ job'[r].index = i /\ job'[r].to = to
         /\ job'[r].out = "none" /\ \A q \in Requests \ {r} : job'[q] = job[q]
<1>1. DOMAIN job = Requests
  BY Kept DEF JobsOK
<1> QED
  BY <1>1 DEF Become, Idle

LEMMA FinishIdles ==
  ASSUME Inv, NEW r \in Requests, Finish(r)
  PROVE  job'[r].at = "idle" /\ \A q \in Requests \ {r} : job'[q] = job[q]
<1>1. DOMAIN job = Requests
  BY Kept DEF JobsOK
<1> QED
  BY <1>1 DEF Finish, Idle

-----------------------------------------------------------------------------
(* The steps that stage, settle and tell.                                    *)

LEMMA StartHistory ==
  ASSUME Inv, Inv', History, NEW r \in Requests, NEW f \in Columns, NEW to \in Values, Start(r, f, to)
  PROVE  History'
<1>1. ChainGrows /\ ChainHistory' /\ UNCHANGED <<key, staged, told, tip>>
  BY ChainStill DEF History, Start
<1>2. /\ job'[r].op = f /\ job'[r].at = "stage" /\ job'[r].index = tip + 1 /\ job'[r].to = to
      /\ \A q \in Requests \ {r} : job'[q] = job[q]
  BY BecomeGives DEF Start, NextIndex
<1>3. Worthy(f, to)'
  BY DEF Start, Worthy, Fresh
<1>4. tip' + 1 <= tip' + 1
  BY <1>1, Kept, Constants DEF ChainOK
<1>5. JobHistory(r)'
  BY <1>1, <1>2, <1>3, <1>4 DEF JobHistory, Reads
<1> QED
  BY <1>1, <1>2, <1>5, HistoryHolds

\* The row is read, with the key or the amount it stages and the keys on file.
LEMMA ReadHistory ==
  ASSUME Inv, Inv', History, NEW r \in Requests, NEW f \in Kinds, StagedIndex(f) # 0,
         NEW to \in Values \cup {None}, f \in Columns /\ to # None => Worthy(f, to),
         Read(r, f, to), UNCHANGED <<database, chain>>
  PROVE  History'
<1>1. ChainGrows /\ ChainHistory'
  BY ChainStill DEF History
<1>2. DOMAIN job = Requests
  BY Kept DEF JobsOK
<1>3. PICK was, had : was = (IF f = "recovery" THEN None ELSE staged[f].to) /\ had = key
  OBVIOUS
<1>4. /\ job'[r].op = f /\ job'[r].at = "look" /\ job'[r].was = was /\ job'[r].had = had
      /\ job'[r].to = to /\ job'[r].out = "none" /\ \A q \in Requests \ {r} : job'[q] = job[q]
  BY <1>2, <1>3 DEF Read, Idle
<1>5. f \in Columns => Worthy(f, was)'
  <2>1. ASSUME f \in Columns PROVE was = staged[f].to /\ staged[f].index # 0
    BY <1>3, <2>1, Constants DEF StagedIndex
  <2> QED
    BY <1>1, <2>1, WorthyStays DEF History, StageHistory
<1>6. f \in Roles => Held(f, had[f])'
  <2>1. f \in Roles => Held(f, had[f])
    BY <1>3 DEF History, KeyHistory
  <2> QED
    BY <2>1 DEF Held, Installed, Gone
<1>7. f \in Columns /\ to # None => Worthy(f, to)'
  BY <1>1, WorthyStays
<1>8. JobHistory(r)'
  BY <1>4, <1>5, <1>6, <1>7 DEF JobHistory, Worthy, Fresh, Held, Gone, Installed, Reads
<1> QED
  BY <1>1, <1>4, <1>8, HistoryHolds

LEMMA StartOverHistory ==
  ASSUME Inv, Inv', History, NEW r \in Requests, NEW f \in Columns, NEW to \in Values, StartOver(r, f, to)
  PROVE  History'
<1>1. Worthy(f, to) /\ f \in Kinds /\ StagedIndex(f) # 0
  BY Constants DEF StartOver, Worthy, Fresh, StagedIndex
<1>2. Read(r, f, to) /\ UNCHANGED <<database, chain>>
  BY DEF StartOver
<1> QED
  BY <1>1, <1>2, ReadHistory

LEMMA LookHistory ==
  ASSUME Inv, Inv', History, NEW r \in Requests, NEW f \in Kinds, Look(r, f)
  PROVE  History'
<1>1. StagedIndex(f) # 0 /\ Read(r, f, None) /\ UNCHANGED <<database, chain>>
  BY DEF Look
<1> QED
  BY <1>1, ReadHistory

\* A reading that says how the change came out.
LEMMA ConcludeHistory ==
  ASSUME Inv, Inv', History, NEW r \in Requests, job[r].at \in Reads, job[r].op \in Columns,
         NEW out \in Outcomes, Conclude(r, out), UNCHANGED <<database, chain>>,
         out = "executed" => Backed(job[r].op, job[r].index, job[r].was) /\ (job[r].op \in Roles => Gone(job[r].op))
  PROVE  History'
<1> DEFINE at == IF job[r].op = "limit" THEN "tell" ELSE "resolve"
<1>1. PICK f, i, was, to : f = job[r].op /\ i = job[r].index /\ was = job[r].was /\ to = job[r].to
  OBVIOUS
<1>2. ChainGrows /\ ChainHistory' /\ JobHistory(r)
  BY ChainStill DEF History
<1>3. /\ job'[r].at = at /\ at \in {"tell", "resolve"} /\ job'[r].op = f /\ job'[r].index = i
      /\ job'[r].was = was /\ job'[r].to = to /\ job'[r].out = out
      /\ \A q \in Requests \ {r} : job'[q] = job[q]
  BY <1>1, ConcludeHolds DEF Reads
<1> HIDE DEF at
<1>4. to # None => Worthy(f, to)'
  BY <1>1, <1>2, WorthyStays DEF JobHistory, Reads
<1>5. f \in Roles => was \in PhoneKeys[f]
  BY <1>1, <1>2, Constants, ConstantsAssumption DEF JobHistory, Worthy, Reads
<1>6. out = "executed" => f \in Kinds /\ Backed(f, i, was)' /\ (f \in Roles => Gone(f)')
  <2> SUFFICES ASSUME out = "executed" PROVE f \in Kinds /\ Backed(f, i, was)' /\ (f \in Roles => Gone(f)')
    OBVIOUS
  <2>1. Backed(f, i, was) /\ (f \in Roles => Gone(f))
    BY <1>1
  <2>2. Backed(f, i, was)'
    BY <2>1 DEF Backed, Executed, Installed
  <2>3. f \in Roles => Gone(f)'
    BY <2>1 DEF Gone, Installed
  <2> QED
    BY <1>1, <2>2, <2>3, Constants
<1>7. JobHistory(r)'
  BY <1>3, <1>4, <1>5, <1>6 DEF JobHistory, Reads, Backed, Executed, Installed
<1> QED
  BY <1>2, <1>3, <1>7, HistoryHolds

LEMMA FindSettledHistory ==
  ASSUME Inv, Inv', History, NEW r \in Requests, FindSettled(r)
  PROVE  History'
<1> DEFINE i == job[r].index
           s == Standing(i)
<1>1. /\ job[r].at = "look" /\ i \in Indices /\ job[r].op \in Kinds /\ s \in Outcomes
      /\ job[r] \in Jobs /\ UNCHANGED <<database, chain>>
  BY Kept DEF FindSettled, HolderOK, Settled, Outcomes
<1>2. ChainGrows /\ ChainHistory' /\ JobHistory(r)
  BY <1>1, ChainStill DEF History
<1>3. CASE s = "executed" \/ job[r].op = "recovery"
  <2> DEFINE j == [job[r] EXCEPT !.at = "land", !.out = s]
  <2>1. job' = [job EXCEPT ![r] = j]
    BY <1>3, Kept DEF FindSettled, JobsOK, Jobs
  <2>2. s = "executed" => Executed(i)
    BY DEF Standing, Executed
  <2>3. job[r].op = "limit" => s = "executed"
    BY <1>3
  <2> HIDE DEF s
  <2>4. /\ j.at = "land" /\ j.out = s /\ j.op = job[r].op /\ j.to = job[r].to
        /\ j.index = i /\ j.was = job[r].was /\ j.had = job[r].had
    BY <1>1 DEF Jobs
  <2> HIDE DEF j
  <2>5. job'[r] = j /\ \A q \in Requests \ {r} : job'[q] = job[q]
    BY <2>1, Kept DEF JobsOK
  <2>6. PICK f, n, was, to, had : f = job[r].op /\ n = i /\ was = job[r].was /\ to = job[r].to /\ had = job[r].had
    OBVIOUS
  <2>7. f \in Columns => (to # None => Worthy(f, to)') /\ Worthy(f, was)'
    BY <1>1, <1>2, <2>6, WorthyStays DEF JobHistory, Reads
  <2>8. f \in Roles => Held(f, had[f])'
    BY <1>1, <1>2, <2>6, GrownStays DEF JobHistory, Reads
  <2>9. JobHistory(r)'
    <3>1. s = "executed" => proposal'[n].standing = "executed"
      BY <1>1, <2>2, <2>6 DEF Executed
    <3> HIDE DEF i
    <3> QED
      BY <2>3, <2>4, <2>5, <2>6, <2>7, <2>8, <3>1 DEF JobHistory, Executed, Worthy, Fresh, Held, Gone, Installed, Reads
  <2> QED
    BY <1>2, <2>5, <2>9, <1>1, HistoryHolds
<1>4. CASE ~(s = "executed" \/ job[r].op = "recovery")
  <2>1. Conclude(r, "rejected") /\ "rejected" \in Outcomes /\ job[r].op \in Columns
    BY <1>1, <1>4, Constants DEF FindSettled, Outcomes
  <2> QED
    BY <1>1, <2>1, ConcludeHistory DEF Reads
<1> QED
  BY <1>3, <1>4

\* A reading that ends there, and one that goes on to the next thing it reads.
LEMMA ReadEndHistory ==
  ASSUME Inv, Inv', History, NEW r \in Requests, Finish(r),
         UNCHANGED <<key, staged, told, tip, proposal, closed, signers, limit>>
  PROVE  History'
<1>1. ChainGrows /\ ChainHistory'
  BY ChainStill DEF History
<1> QED
  BY <1>1, FinishIdles, QuietHistory DEF Reads

LEMMA ReadOnHistory ==
  ASSUME Inv, Inv', History, NEW r \in Requests, NEW at \in {"ask", "land"}, GoTo(r, at),
         job[r].at \in Reads, at = "land" => job[r].op \in Roles,
         UNCHANGED <<key, staged, told, tip, proposal, closed, signers, limit>>
  PROVE  History'
<1>1. ChainGrows /\ ChainHistory' /\ JobHistory(r)
  BY ChainStill DEF History
<1>2. at \in Points /\ at \in Reads /\ "limit" \notin Roles
  BY Constants, ConstantsAssumption DEF Points, Reads
<1>3. /\ job'[r].at = at /\ job'[r].op = job[r].op /\ job'[r].index = job[r].index
      /\ job'[r].out = job[r].out /\ job'[r].was = job[r].was /\ job'[r].to = job[r].to
      /\ job'[r].had = job[r].had /\ \A q \in Requests \ {r} : job'[q] = job[q]
  BY <1>2, Kept, GoToHolds
<1>4. JobHistory(r)'
  BY <1>1, <1>2, <1>3, JobStays DEF Reads
<1> QED
  BY <1>1, <1>3, <1>4, HistoryHolds

LEMMA FindNoneHistory ==
  ASSUME Inv, Inv', History, NEW r \in Requests, FindOpen(r) \/ FindNothing(r) \/ AskTip(r)
  PROVE  History'
<1>1. UNCHANGED <<key, staged, told, tip, proposal, closed, signers, limit>>
  BY DEF FindOpen, FindNothing, AskTip
<1>2. CASE Finish(r)
  BY <1>1, <1>2, ReadEndHistory
<1>3. CASE FindNothing(r) /\ ~Finish(r)
  BY <1>1, <1>3, ReadOnHistory DEF FindNothing, Reads
<1>4. CASE AskTip(r) /\ ~Finish(r)
  <2>1. job[r].at = "ask" /\ job[r].op \in Columns /\ UNCHANGED <<database, chain>> /\ "rejected" \in Outcomes
    BY <1>4, Kept DEF AskTip, HolderOK, Outcomes
  <2>2. CASE job[r].op = "limit"
    BY <1>4, <2>1, <2>2, ConcludeHistory DEF AskTip, Reads
  <2>3. CASE job[r].op # "limit"
    BY <1>1, <1>4, <2>1, <2>3, Constants, ReadOnHistory DEF AskTip, Reads
  <2> QED
    BY <2>2, <2>3
<1> QED
  BY <1>2, <1>3, <1>4 DEF FindOpen

LEMMA LandedBacked ==
  ASSUME Inv, History, NEW r \in Requests, job[r].at = "land", job[r].op \in Columns, Landed(job[r])
  PROVE  /\ Backed(job[r].op, job[r].index, job[r].was)
         /\ job[r].op \in Roles => Gone(job[r].op)
<1>1. PICK f, i, was, had : f = job[r].op /\ i = job[r].index /\ was = job[r].was /\ had = job[r].had
  OBVIOUS
<1>2. Worthy(f, was) /\ (f = "limit" => Executed(i)) /\ (f \in Roles => Held(f, had[f]))
  BY <1>1 DEF History, JobHistory, Reads
<1>3. CASE f = "limit"
  BY <1>1, <1>2, <1>3, Constants, ConstantsAssumption DEF Landed, Worthy, Fresh, Backed
<1>4. CASE f # "limit"
  <2>1. f \in Roles /\ was \in signers /\ had[f] \notin signers /\ was \in PhoneKeys[f]
    BY <1>1, <1>2, <1>4, Constants DEF Landed, Worthy
  <2>2. was = FirstKey[f] \/ Installed(was)
    BY <2>1 DEF History, ChainHistory
  <2>3. Gone(f)
    BY <1>2, <2>1 DEF Held, Gone
  <2>4. Installed(was)
    BY <2>1, <2>2, <2>3 DEF Gone
  <2> QED
    BY <1>1, <2>1, <2>3, <2>4 DEF Backed
<1> QED
  BY <1>3, <1>4

LEMMA FindLandedHistory ==
  ASSUME Inv, Inv', History, NEW r \in Requests, FindLanded(r)
  PROVE  History'
<1>1. /\ job[r].at = "land" /\ job[r].op \in Columns /\ UNCHANGED <<database, chain>>
      /\ Outcomes = {"executed", "rejected"}
  BY DEF FindLanded, Outcomes
<1>2. CASE Finish(r)
  BY <1>1, <1>2, ReadEndHistory
<1>3. CASE Landed(job[r]) /\ Conclude(r, "executed")
  BY <1>1, <1>3, LandedBacked, ConcludeHistory DEF Reads
<1>4. CASE Conclude(r, "rejected")
  BY <1>1, <1>4, ConcludeHistory DEF Reads
<1> QED
  BY <1>2, <1>3, <1>4 DEF FindLanded

LEMMA StageStepHistory ==
  ASSUME Inv, Inv', History, NEW r \in Requests, Stage(r)
  PROVE  History'
<1> DEFINE j == job[r]
<1>1. /\ j.at = "stage" /\ j.op \in Columns /\ j.to # None
      /\ staged' = [staged EXCEPT ![j.op] = [to |-> j.to, index |-> j.index]]
      /\ UNCHANGED <<key, told, tip>>
  BY Kept, Constants DEF Stage, HolderOK, Fits
<1>2. ChainGrows /\ ChainHistory'
  BY ChainStill DEF History, Stage
<1>3. j.index <= tip + 1 /\ Worthy(j.op, j.to)
  BY <1>1 DEF History, JobHistory, Reads
<1>4. DOMAIN staged = Columns
  BY Kept DEF StagedOK
<1>5. PICK f, to, i : f \in Columns /\ f = j.op /\ to = j.to /\ i = j.index
  BY <1>1
<1>6. staged'[f].to = to /\ staged'[f].index = i /\ \A g \in Columns \ {f} : staged'[g] = staged[g]
  BY <1>1, <1>4, <1>5
<1>7. Worthy(f, to)' /\ i <= tip' + 1
  BY <1>1, <1>2, <1>3, <1>5, WorthyStays
<1>8. StageHistory(f)'
  BY <1>6, <1>7 DEF StageHistory
<1>9. /\ job'[r].at = "announce" /\ job'[r].op = f /\ job'[r].had = key
      /\ \A q \in Requests \ {r} : job'[q] = job[q]
  BY <1>5, Kept, StagedJob DEF Stage
<1>10. JobHistory(r)'
  <2>1. PICK had : had = key
    OBVIOUS
  <2>2. f \in Roles => Held(f, had[f])'
    BY <1>2, <2>1, GrownStays DEF History, KeyHistory
  <2> QED
    BY <1>9, <2>1, <2>2 DEF JobHistory, Reads, Held, Gone, Installed
<1> QED
  BY <1>1, <1>2, <1>6, <1>8, <1>9, <1>10, HistoryHolds

LEMMA AnnounceHistory ==
  ASSUME Inv, Inv', History, NEW r \in Requests, Announce(r)
  PROVE  History'
<1>1. ChainGrows /\ ChainHistory' /\ UNCHANGED <<key, staged>>
  BY ChainStill DEF History, Announce
<1>2. job'[r].at = "idle" /\ \A q \in Requests \ {r} : job'[q] = job[q]
  BY FinishIdles DEF Announce
<1>3. \A e \in told' : e \in told \/ e.what = "staged"
  BY DEF Announce, Tell
<1> QED
  BY <1>1, <1>2, <1>3, QuietHistory DEF Reads

\* The key that is committed is the one the request found on chain.
LEMMA ResolveColumnsHistory ==
  ASSUME Inv, Inv', History, NEW r \in Requests, ResolveColumns(r)
  PROVE  History'
<1> DEFINE j == job[r]
           f == job[r].op
           at == IF f = "limit" THEN "clear" ELSE "tell"
<1>1. /\ j.at = "resolve" /\ f \in Columns /\ GoTo(r, at) /\ UNCHANGED told
      /\ key' = IF f \in Roles /\ j.out = "executed" THEN [key EXCEPT ![f] = j.was] ELSE key
      /\ staged' = [staged EXCEPT ![f] = NoStage]
  BY Kept DEF ResolveColumns, HolderOK
<1>2. ChainGrows /\ ChainHistory'
  BY ChainStill DEF History, ResolveColumns
<1>3. JobHistory(r)
  BY DEF History
<1>4. at \in Points /\ at \in {"clear", "tell"}
  BY DEF Points
<1> HIDE DEF at
<1>5. /\ job'[r].at = at /\ job'[r].op = j.op /\ job'[r].index = j.index /\ job'[r].out = j.out
      /\ job'[r].was = j.was /\ job'[r].to = j.to /\ \A q \in Requests \ {r} : job'[q] = job[q]
  BY <1>1, <1>4, Kept, GoToHolds
<1>6. JobHistory(r)'
  BY <1>1, <1>2, <1>3, <1>4, <1>5, JobStays DEF Reads
<1>7. DOMAIN key = Roles /\ DOMAIN staged = Columns
  BY Kept DEF RowsOK, StagedOK
<1>8. ASSUME NEW g \in Roles PROVE key'[g] = key[g] \/ KeyHistory(g)'
  <2>1. CASE g = f /\ j.out = "executed"
    <3>1. key'[g] = j.was /\ j.was \in PhoneKeys[g]
      BY <1>1, <1>3, <1>7, <2>1 DEF JobHistory, Reads
    <3>2. Installed(j.was) /\ Gone(g)
      BY <1>1, <1>3, <2>1, Constants DEF JobHistory, Backed, Reads
    <3>3. PICK k : k = j.was
      OBVIOUS
    <3>4. Installed(k)' /\ Gone(g)'
      BY <1>2, <3>2, <3>3, InstalledStays, GrownStays
    <3>5. key'[g] = k
      BY <3>1, <3>3
    <3> QED
      BY <3>1, <3>3, <3>4, <3>5 DEF KeyHistory, Held, Gone, Installed
  <2>2. CASE ~(g = f /\ j.out = "executed")
    BY <1>1, <1>7, <2>2
  <2> QED
    BY <2>1, <2>2
<1>9. ASSUME NEW g \in Columns PROVE staged'[g] = staged[g] \/ StageHistory(g)'
  <2>1. CASE g = f
    <3>1. staged'[g].index = 0
      BY <1>1, <1>7, <2>1 DEF NoStage
    <3> QED
      BY <3>1 DEF StageHistory
  <2>2. CASE g # f
    BY <1>1, <1>7, <2>2
  <2> QED
    BY <2>1, <2>2
<1> QED
  BY <1>1, <1>2, <1>5, <1>6, <1>8, <1>9, HistoryHolds

LEMMA TellOutcomeHistory ==
  ASSUME Inv, Inv', History, NEW r \in Requests, TellOutcome(r)
  PROVE  History'
<1> DEFINE j == job[r]
           next == IF j.op = "limit" THEN "resolve" ELSE "clear"
<1>1. /\ j.at = "tell" /\ j.index \in Indices /\ UNCHANGED <<key, staged>>
      /\ Tell(j.out, j.index, IF j.op = "reject" THEN None ELSE j.op, j.was)
  BY Kept DEF TellOutcome, HolderOK
<1>2. ChainGrows /\ ChainHistory'
  BY ChainStill DEF History, TellOutcome
<1>3. JobHistory(r)
  BY DEF History
<1>4. ASSUME NEW e \in told', e \notin told, e.what = "executed"
      PROVE  Backed(e.kind, e.index, e.to)'
  <2>1. e.what = j.out /\ e.index = j.index /\ e.to = j.was
        /\ e.kind = IF j.op = "reject" THEN None ELSE j.op
    BY <1>1, <1>4 DEF Tell
  <2>2. j.op \in Kinds /\ Backed(j.op, j.index, j.was)
    BY <1>1, <1>3, <1>4, <2>1 DEF JobHistory, Reads
  <2>3. e.kind = j.op /\ e.index \in Indices
    BY <1>1, <2>1, <2>2, Constants
  <2>4. Backed(e.kind, e.index, e.to)
    BY <2>1, <2>2, <2>3
  <2> QED
    BY <1>2, <2>3, <2>4, GrownStays
<1>5. CASE j.op = "reject"
  <2>1. job'[r].at = "idle" /\ \A q \in Requests \ {r} : job'[q] = job[q]
    BY <1>5, FinishIdles DEF TellOutcome
  <2>2. JobHistory(r)'
    BY <2>1, QuietJob DEF Reads
  <2> QED
    BY <1>1, <1>2, <1>4, <2>1, <2>2, HistoryHolds
<1>6. CASE j.op # "reject"
  <2>1. GoTo(r, next) /\ next \in Points /\ next \in {"resolve", "clear"} /\ (j.op \in Roles => next = "clear")
    BY <1>6, Constants DEF TellOutcome, Points
  <2> HIDE DEF next
  <2>2. /\ job'[r].at = next /\ job'[r].op = j.op /\ job'[r].index = j.index /\ job'[r].out = j.out
        /\ job'[r].was = j.was /\ job'[r].to = j.to /\ \A q \in Requests \ {r} : job'[q] = job[q]
    BY <2>1, Kept, GoToHolds
  <2>3. JobHistory(r)'
    BY <1>1, <1>2, <1>3, <2>1, <2>2, JobStays DEF Reads
  <2> QED
    BY <1>1, <1>2, <1>4, <2>2, <2>3, HistoryHolds
<1> QED
  BY <1>5, <1>6

LEMMA ClearHistory ==
  ASSUME Inv, Inv', History, NEW r \in Requests, Clear(r)
  PROVE  History'
<1> DEFINE j == job[r]
<1>1. j.at = "clear" /\ (j.op \notin Columns => j.to = None) /\ UNCHANGED <<key, staged, told, tip>>
  BY Kept DEF Clear, HolderOK
<1>2. ChainGrows /\ ChainHistory'
  BY ChainStill DEF History, Clear
<1>3. CASE j.to = None \/ tip = MaxIndex
  <2>1. job'[r].at = "idle" /\ \A q \in Requests \ {r} : job'[q] = job[q]
    BY <1>3, FinishIdles DEF Clear
  <2> QED
    BY <1>1, <1>2, <2>1, QuietHistory DEF Reads
<1>4. CASE ~(j.to = None \/ tip = MaxIndex)
  <2>1. /\ job'[r].op = j.op /\ job'[r].at = "stage" /\ job'[r].index = tip + 1 /\ job'[r].to = j.to
        /\ \A q \in Requests \ {r} : job'[q] = job[q]
    BY <1>4, BecomeGives DEF Clear, NextIndex
  <2>2. Worthy(j.op, j.to)
    BY <1>1, <1>4 DEF History, JobHistory, Reads
  <2>3. Worthy(j.op, j.to)'
    BY <1>2, <2>1, <2>2, WorthyStays
  <2>4. tip' + 1 <= tip' + 1
    BY <1>1, Kept, Constants DEF ChainOK
  <2>5. JobHistory(r)'
    BY <1>1, <2>1, <2>3, <2>4 DEF JobHistory, Worthy, Fresh, Installed, Reads
  <2> QED
    BY <1>1, <1>2, <2>1, <2>5, HistoryHolds
<1> QED
  BY <1>3, <1>4

-----------------------------------------------------------------------------
(* The steps of the recovery keys.                                           *)

LEMMA OneKeyHistory ==
  ASSUME Inv, Inv', History, NEW r \in Requests, NEW k \in RecoveryKeys, AddKey(r, k) \/ RemoveKey(r, k)
  PROVE  History'
<1>1. UNCHANGED <<key, staged, told, tip, proposal, closed, signers, limit>>
  BY DEF AddKey, RemoveKey
<1>2. ChainGrows /\ ChainHistory'
  BY <1>1, ChainStill DEF History
<1>3. job'[r].at = "check" /\ \A q \in Requests \ {r} : job'[q] = job[q]
  BY BecomeGives DEF AddKey, RemoveKey
<1> QED
  BY <1>1, <1>2, <1>3, QuietHistory DEF Reads

LEMMA MoveContactHistory ==
  ASSUME Inv, Inv', History, NEW r \in Requests, NEW k \in RecoveryKeys, MoveContact(r, k)
  PROVE  History'
<1>1. UNCHANGED <<key, staged, told, tip, proposal, closed, signers, limit>>
  BY DEF MoveContact
<1>2. ChainGrows /\ ChainHistory'
  BY <1>1, ChainStill DEF History
<1>3. DOMAIN job = Requests
  BY Kept DEF JobsOK
<1>4. job'[r].at = "retire" /\ \A q \in Requests \ {r} : job'[q] = job[q]
  BY <1>3 DEF MoveContact, Idle
<1> QED
  BY <1>1, <1>2, <1>4, QuietHistory DEF Reads

LEMMA MarkingHistory ==
  ASSUME Inv, Inv', History, NEW r \in Requests, Retire(r) \/ CheckKeys(r) \/ MarkKey(r)
  PROVE  History'
<1>1. UNCHANGED <<key, staged, told, tip, proposal, closed, signers, limit>>
  BY DEF Retire, CheckKeys, MarkKey
<1>2. ChainGrows /\ ChainHistory'
  BY <1>1, ChainStill DEF History
<1>3. /\ job'[r].at \in {"idle", "check", "mark"} \/ (job'[r].at = "announce" /\ job'[r].op = "recovery")
      /\ \A q \in Requests \ {r} : job'[q] = job[q]
  <2>1. CASE Retire(r)
    BY <2>1, Kept, GoToHolds DEF Retire, Points
  <2>2. CASE CheckKeys(r)
    <3>1. CASE Finish(r)
      BY <3>1, FinishIdles
    <3>2. CASE ~Finish(r)
      <4>1. job' = [job EXCEPT ![r] = [@ EXCEPT !.at = "mark", !.index = NextIndex]]
        BY <2>2, <3>2 DEF CheckKeys
      <4> QED
        BY <4>1, Kept DEF JobsOK, Jobs
    <3> QED
      BY <3>1, <3>2
  <2>3. CASE MarkKey(r)
    <3>1. (GoTo(r, "announce") \/ GoTo(r, "mark")) /\ job[r].at = "mark"
      BY <2>3 DEF MarkKey, Mark
    <3>2. job[r].op = "recovery"
      BY <3>1, Kept DEF HolderOK
    <3> QED
      BY <3>1, <3>2, Kept, GoToHolds DEF Points
  <2> QED
    BY <2>1, <2>2, <2>3
<1> QED
  BY <1>1, <1>2, <1>3, QuietHistory DEF Reads

\* A request that has read the rows of a change, and how it was settled.
LEMMA TakeRowsHistory ==
  ASSUME Inv, Inv', History, NEW r \in Requests, NEW f \in {"recovery", "reject"},
         NEW at \in {"follow", "rows"}, NEW i \in Indices, NEW out, NEW ks, TakeRows(r, f, at, i, out, ks),
         out = "executed" => f = "recovery" /\ Executed(i),
         UNCHANGED <<database, chain>>
  PROVE  History'
<1> DEFINE to == IF ks = {} THEN "tell" ELSE at
<1>1. ChainGrows /\ ChainHistory'
  BY ChainStill DEF History
<1>2. DOMAIN job = Requests
  BY Kept DEF JobsOK
<1>3. /\ job'[r].op = f /\ job'[r].at = to /\ job'[r].index = i /\ job'[r].out = out
      /\ \A q \in Requests \ {r} : job'[q] = job[q]
  BY <1>2 DEF TakeRows, Idle
<1>4. f \notin Columns /\ f \notin Roles /\ (f = "recovery" => f \in Kinds) /\ to \in {"follow", "rows", "tell"}
  BY Constants
<1> HIDE DEF to
<1>5. JobHistory(r)'
  BY <1>3, <1>4 DEF JobHistory, Reads, Backed, Executed
<1> QED
  BY <1>1, <1>3, <1>5, HistoryHolds

LEMMA SettleKeysHistory ==
  ASSUME Inv, Inv', History, NEW r \in Requests, SettleKeys(r)
  PROVE  History'
<1>1. PICK i, out, at, ks : /\ i = job[r].index /\ out = job[r].out /\ ks = RowsIn(job[r].index)
                            /\ at = IF job[r].out = "executed" THEN "follow" ELSE "rows"
  OBVIOUS
<1>2. i \in Indices /\ at \in {"follow", "rows"} /\ UNCHANGED <<database, chain>>
  BY <1>1, Kept DEF SettleKeys, HolderOK
<1>3. out = "executed" => Executed(i)
  BY <1>1 DEF SettleKeys, History, JobHistory, Reads
<1>4. CASE Finish(r)
  BY <1>2, <1>4, ReadEndHistory
<1>5. CASE TakeRows(r, "recovery", at, i, out, ks)
  BY <1>2, <1>3, <1>5, TakeRowsHistory
<1> QED
  BY <1>1, <1>4, <1>5 DEF SettleKeys

LEMMA WithdrawHistory ==
  ASSUME Inv, Inv', History, NEW r \in Requests, Withdraw(r)
  PROVE  History'
<1>1. PICK i, ks : i = job[r].index /\ ks = RowsIn(StagedIndex("recovery"))
  OBVIOUS
<1>2. i \in Indices /\ TakeRows(r, "reject", "rows", i, "rejected", ks) /\ UNCHANGED <<database, chain>>
  BY <1>1, Kept DEF Withdraw, HolderOK
<1> QED
  BY <1>2, TakeRowsHistory

LEMMA RowsHistory ==
  ASSUME Inv, Inv', History, NEW r \in Requests, FollowContact(r) \/ \E k \in RecoveryKeys : WriteRow(r, k)
  PROVE  History'
<1>1. UNCHANGED <<key, staged, told, tip, proposal, closed, signers, limit>> /\ job[r].at \in {"follow", "rows"}
  BY DEF FollowContact, WriteRow
<1>2. ChainGrows /\ ChainHistory'
  BY <1>1, ChainStill DEF History
<1>3. /\ job'[r].at \in {"rows", "tell"} /\ job'[r].op = job[r].op /\ job'[r].index = job[r].index
      /\ job'[r].out = job[r].out /\ job'[r].was = job[r].was /\ job'[r].to = job[r].to
      /\ \A q \in Requests \ {r} : job'[q] = job[q]
  <2>1. CASE FollowContact(r)
    BY <2>1, Kept, GoToHolds DEF FollowContact, Points
  <2>2. ASSUME NEW k \in RecoveryKeys, WriteRow(r, k)
        PROVE  /\ job'[r].at \in {"rows", "tell"} /\ job'[r].op = job[r].op /\ job'[r].index = job[r].index
               /\ job'[r].out = job[r].out /\ job'[r].was = job[r].was /\ job'[r].to = job[r].to
               /\ \A q \in Requests \ {r} : job'[q] = job[q]
    <3> DEFINE at == IF job[r].add \cup job[r].drop = {k} THEN "tell" ELSE "rows"
               j == [job[r] EXCEPT !.add = @ \ {k}, !.drop = @ \ {k}, !.at = at]
    <3>1. job' = [job EXCEPT ![r] = j]
      BY <2>2, Kept DEF WriteRow, JobsOK, Jobs
    <3>2. at \in {"rows", "tell"} /\ job[r] \in Jobs
      BY Kept
    <3> HIDE DEF at
    <3>3. /\ j.at = at /\ j.op = job[r].op /\ j.index = job[r].index /\ j.out = job[r].out
          /\ j.was = job[r].was /\ j.to = job[r].to
      BY <3>2 DEF Jobs
    <3> HIDE DEF j
    <3>4. job'[r] = j /\ \A q \in Requests \ {r} : job'[q] = job[q]
      BY <3>1, Kept DEF JobsOK
    <3> QED
      BY <3>2, <3>3, <3>4
  <2> QED
    BY <2>1, <2>2
<1>4. HolderOK(r) /\ JobHistory(r)
  BY Kept DEF History
<1>5. job[r].op \notin Columns
  BY <1>1, <1>4, Constants DEF HolderOK
<1>6. JobHistory(r)'
  BY <1>1, <1>2, <1>3, <1>4, <1>5, JobStays DEF Reads
<1> QED
  BY <1>1, <1>2, <1>3, <1>6, HistoryHolds

-----------------------------------------------------------------------------
(* Submissions, and what no request is in the middle of.                     *)

LEMMA RecoveryVoteHistory ==
  ASSUME Inv, Inv', History, NEW r \in Requests, RecoveryVote(r)
  PROVE  History'
<1>1. PICK f, i, ks : f = job[r].op /\ i = job[r].index /\ ks = {grant[job[r].op]}
  OBVIOUS
<1>2. i \in 0..MaxIndex /\ Standing(i) = "open" /\ Vote(i, ks) /\ UNCHANGED <<tip, closed, signers, limit>>
  BY <1>1, Kept DEF RecoveryVote, Jobs
<1>3. UNCHANGED <<key, staged, told>> /\ Become(r, f, "consume", i, None)
  BY <1>1 DEF RecoveryVote
<1>4. ChainGrows /\ ChainHistory'
  BY <1>2, VoteMoves DEF History
<1>5. job'[r].at = "consume" /\ \A q \in Requests \ {r} : job'[q] = job[q]
  BY <1>3, BecomeGives
<1> QED
  BY <1>3, <1>4, <1>5, QuietHistory DEF Reads

LEMMA ConsumeGrantHistory ==
  ASSUME Inv, Inv', History, NEW r \in Requests, ConsumeGrant(r) \/ Die(r)
  PROVE  History'
<1>1. UNCHANGED <<key, staged, told, tip, proposal, closed, signers, limit>> /\ Finish(r)
  BY DEF ConsumeGrant, Die
<1>2. ChainGrows /\ ChainHistory'
  BY <1>1, ChainStill DEF History
<1> QED
  BY <1>1, <1>2, FinishIdles, QuietHistory DEF Reads

\* A request that submitted: its flow's step is still to be deleted.
LEMMA SubmittedHistory ==
  ASSUME Inv, Inv', History, NEW r \in Requests, NEW f, NEW i, Become(r, f, "landed", i, None),
         ChainGrows, ChainHistory', UNCHANGED <<key, staged, told>>
  PROVE  History'
<1>1. job'[r].at = "landed" /\ \A q \in Requests \ {r} : job'[q] = job[q]
  BY BecomeGives
<1> QED
  BY <1>1, QuietHistory DEF Reads

LEMMA SubmitHistory ==
  ASSUME Inv, Inv', History, NEW r \in Requests, NEW f \in Kinds,
         SubmitPropose(r, f) \/ SubmitApprove(r, f) \/ SubmitExecute(r, f)
  PROVE  History'
<1>1. PICK i : i = prepared[f].index
  OBVIOUS
<1>2. Become(r, f, "landed", i, None) /\ UNCHANGED <<key, staged, told>>
  BY <1>1 DEF SubmitPropose, SubmitApprove, SubmitExecute
<1>3. ChainGrows /\ ChainHistory'
  <2>1. CASE SubmitPropose(r, f)
    BY <2>1, ProposeGrows DEF History
  <2>2. CASE SubmitApprove(r, f)
    <3>1. PICK ks : ks = prepared[f].by
      OBVIOUS
    <3>2. i \in 0..MaxIndex
      BY <1>1, Kept, Constants DEF PreparedOK
    <3>3. Standing(i) = "open" /\ Vote(i, ks) /\ UNCHANGED <<tip, closed, signers, limit>>
      BY <1>1, <2>2, <3>1 DEF SubmitApprove
    <3> QED
      BY <3>2, <3>3, VoteMoves DEF History
  <2>3. CASE SubmitExecute(r, f)
    BY <2>3, ExecuteGrows DEF History
  <2> QED
    BY <2>1, <2>2, <2>3
<1> QED
  BY <1>2, <1>3, SubmittedHistory

LEMMA SubmitRejectionHistory ==
  ASSUME Inv, Inv', History, NEW r \in Requests, SubmitRejection(r)
  PROVE  History'
<1>1. PICK i : i = prepared["reject"].index
  OBVIOUS
<1>2. /\ Become(r, "reject", "landed", i, None) /\ UNCHANGED <<key, staged, told>>
      /\ Unsettled(i) /\ proposal' = [proposal EXCEPT ![i].standing = "rejected"]
      /\ UNCHANGED <<tip, closed, signers, limit>>
  BY <1>1 DEF SubmitRejection
<1>3. i \in Indices /\ i <= tip /\ i \notin closed /\ ~Executed(i)
  BY <1>2, Kept, Constants DEF Unsettled, Settled, Standing, Readable, Executed, ChainOK
<1>4. proposal'[i].change = proposal[i].change /\ \A j \in Indices \ {i} : proposal'[j] = proposal[j]
  BY <1>2, <1>3, Kept DEF ChainOK
<1>5. ChainGrows /\ ChainHistory'
  BY <1>2, <1>3, <1>4, StandingMoves DEF History
<1> QED
  BY <1>2, <1>5, SubmittedHistory

LEMMA LandingHistory ==
  ASSUME Inv, Inv', History, NEW r \in Requests, Landing(r)
  PROVE  History'
<1>1. UNCHANGED <<key, staged, told, tip, proposal, closed, signers, limit>>
  BY DEF Landing
<1>2. ChainGrows /\ ChainHistory'
  BY <1>1, ChainStill DEF History
<1>3. job'[r].at \in {"idle", "withdraw"} /\ \A q \in Requests \ {r} : job'[q] = job[q]
  BY Kept, GoToHolds, FinishIdles DEF Landing, Points
<1> QED
  BY <1>1, <1>2, <1>3, QuietHistory DEF Reads

LEMMA PrepareHistory ==
  ASSUME Inv, Inv', History,
         (\E f \in Roles : VerifyCode(f)) \/ PrepareRejection \/ Watch \/ UNCHANGED vars
  PROVE  History'
<1>1. UNCHANGED <<key, staged, job, tip, proposal, closed, signers, limit>>
  BY DEF VerifyCode, PrepareRejection, Watch, vars
<1>2. \A e \in told' : e \in told \/ e.what = "staged"
  BY DEF VerifyCode, PrepareRejection, Watch, Tell, vars
<1>3. ChainGrows /\ ChainHistory'
  BY <1>1, ChainStill DEF History
<1> QED
  BY <1>1, <1>2, <1>3, HistoryStill

LEMMA ChainMoveHistory ==
  ASSUME Inv, Inv', History, NEW i \in Indices, Ripen(i) \/ Close(i)
  PROVE  History'
<1>1. UNCHANGED <<key, staged, told, job>>
  BY DEF Ripen, Close
<1>2. i <= tip /\ i \notin closed /\ tip \in 0..MaxIndex /\ MaxIndex \in Nat
  BY Kept, Constants DEF Ripen, Close, Settled, Standing, Readable, ChainOK
<1>3. CASE Ripen(i)
  <2>1. /\ proposal' = [proposal EXCEPT ![i].standing = "ripe"] /\ ~Executed(i)
        /\ UNCHANGED <<tip, closed, signers, limit>>
    BY <1>2, <1>3 DEF Ripen, Standing, Executed, Readable
  <2>2. proposal'[i].change = proposal[i].change /\ \A j \in Indices \ {i} : proposal'[j] = proposal[j]
    BY <2>1, Kept DEF ChainOK
  <2> QED
    BY <1>1, <1>2, <2>1, <2>2, StandingMoves, HistoryStill DEF History
<1>4. CASE Close(i)
  <2>1. closed' = closed \cup {i} /\ UNCHANGED <<tip, proposal, signers, limit>>
        /\ proposal[i].standing \in Outcomes
    BY <1>2, <1>4 DEF Close, Settled, Standing, Outcomes
  <2>2. ChainGrows
    BY <1>2, <2>1 DEF ChainGrows, Executed
  <2>3. ChainHistory'
    BY <1>2, <2>1 DEF History, ChainHistory, Installed
  <2> QED
    BY <1>1, <2>2, <2>3, HistoryStill
<1> QED
  BY <1>3, <1>4

-----------------------------------------------------------------------------

LEMMA InitHistory == Init => History
<1> SUFFICES ASSUME Init PROVE History
  OBVIOUS
<1>1. ASSUME NEW f \in Roles, NEW k \in PhoneKeys[f] \cap signers PROVE k = FirstKey[f]
  <2>1. PICK more \in Earlier :
          signers = {FirstKey["device"], FirstKey["passkey"]} \cup ({FirstKey["recovery"]} \cup more)
    BY DEF Init
  <2>2. {FirstKey["recovery"]} \cup more \subseteq RecoveryKeys
    BY ConstantsAssumption
  <2>3. k \notin RecoveryKeys
    BY Constants, ConstantsAssumption
  <2>4. k = FirstKey["device"] \/ k = FirstKey["passkey"]
    BY <1>1, <2>1, <2>2, <2>3
  <2> QED
    BY <2>4, Constants, ConstantsAssumption
<1>2. ChainHistory
  BY <1>1 DEF Init, ChainHistory, NoProposal
<1>3. \A f \in Roles : KeyHistory(f)
  BY ConstantsAssumption DEF Init, KeyHistory, Held
<1>4. \A f \in Columns : StageHistory(f)
  BY DEF Init, StageHistory, NoStage
<1>5. \A r \in Requests : JobHistory(r)
  BY DEF Init, JobHistory, Idle, Reads
<1> QED
  BY <1>2, <1>3, <1>4, <1>5 DEF History, Init, ExecutedIsBacked

LEMMA StepHistory == ASSUME Inv, Inv', History, NEW r \in Requests, Step(r) PROVE History'
<1>1. CASE \E f \in Columns, to \in Values : Start(r, f, to) \/ StartOver(r, f, to)
  BY <1>1, StartHistory, StartOverHistory
<1>2. CASE Stage(r) \/ Announce(r)
  BY <1>2, StageStepHistory, AnnounceHistory
<1>3. CASE (\E f \in Kinds : Look(r, f)) \/ FindSettled(r) \/ FindLanded(r)
  BY <1>3, LookHistory, FindSettledHistory, FindLandedHistory
<1>4. CASE FindOpen(r) \/ FindNothing(r) \/ AskTip(r)
  BY <1>4, FindNoneHistory
<1>5. CASE ResolveColumns(r) \/ TellOutcome(r) \/ Clear(r)
  BY <1>5, ResolveColumnsHistory, TellOutcomeHistory, ClearHistory
<1>6. CASE \E k \in RecoveryKeys : AddKey(r, k) \/ RemoveKey(r, k) \/ MoveContact(r, k)
  BY <1>6, OneKeyHistory, MoveContactHistory
<1>7. CASE Retire(r) \/ CheckKeys(r) \/ MarkKey(r)
  BY <1>7, MarkingHistory
<1>8. CASE SettleKeys(r) \/ Withdraw(r)
  BY <1>8, SettleKeysHistory, WithdrawHistory
<1>9. CASE FollowContact(r) \/ \E k \in RecoveryKeys : WriteRow(r, k)
  BY <1>9, RowsHistory
<1>10. CASE RecoveryVote(r)
  BY <1>10, RecoveryVoteHistory
<1>11. CASE ConsumeGrant(r) \/ Die(r)
  BY <1>11, ConsumeGrantHistory
<1>12. CASE \E f \in Kinds : SubmitPropose(r, f) \/ SubmitApprove(r, f) \/ SubmitExecute(r, f)
  BY <1>12, SubmitHistory
<1>13. CASE Landing(r) \/ SubmitRejection(r)
  BY <1>13, LandingHistory, SubmitRejectionHistory
<1> QED
  BY <1>1, <1>2, <1>3, <1>4, <1>5, <1>6, <1>7, <1>8, <1>9, <1>10, <1>11, <1>12, <1>13 DEF Step, Begin, GoOn

LEMMA NextHistory == Inv /\ Inv' /\ History /\ [Next]_vars => History'
<1> SUFFICES ASSUME Inv, Inv', History, [Next]_vars PROVE History'
  OBVIOUS
<1>1. CASE \E r \in Requests : Step(r)
  BY <1>1, StepHistory
<1>2. CASE \E i \in Indices : Ripen(i) \/ Close(i)
  BY <1>2, ChainMoveHistory
<1>3. CASE (\E f \in Roles : VerifyCode(f)) \/ PrepareRejection \/ Watch \/ UNCHANGED vars
  BY <1>3, PrepareHistory
<1> QED
  BY <1>1, <1>2, <1>3 DEF Next

LEMMA AlwaysHistory == Spec => []History
<1>1. Init => History
  BY InitHistory
<1>2. Inv /\ Inv' /\ History /\ [Next]_vars => History'
  BY NextHistory
<1> QED
  BY <1>1, <1>2, AlwaysInv, PTL DEF Spec

\* Whatever Activity says was executed, the chain executed: a limit or a recovery
\* change by the proposal of that index, and every key and amount told as executed is
\* one that an executed change installed, whatever the index it was told at (settle
\* and resolveWithoutProposal in the limit's and the rotations' services).
THEOREM ExecutedOutcomesAreBacked == Spec => []ExecutedIsBacked
<1>1. History => ExecutedIsBacked
  BY DEF History
<1> QED
  BY <1>1, AlwaysHistory, PTL

\* The device and the passkey on file are the Account's first, or keys of their own
\* kind that the chain executed a change for: no start, no reuse of an index and no
\* request that died half way leaves another key in primary_signer or approval_signer.
KeysWereInstalled ==
  \A f \in Roles : key[f] \in PhoneKeys[f] /\ (key[f] = FirstKey[f] \/ Installed(key[f]))

THEOREM KeysOnFileWereInstalled == Spec => []KeysWereInstalled
<1>1. History => KeysWereInstalled
  BY DEF History, KeyHistory, Held, KeysWereInstalled
<1> QED
  BY <1>1, AlwaysHistory, PTL

-----------------------------------------------------------------------------
(* What the chain held when it was read.                                     *)

\* A key that is a signer, or was one.
Admitted(k) == k \in signers \/ TakenOut(k)

\* A rotation puts one key in the place of another of its kind; a recovery change is
\* about recovery keys alone, and a change of the limit about no key.
RoleChange(c) ==
  \/ \E f \in Roles : \E k, to \in PhoneKeys[f] : c.add = {to} /\ c.drop = {k}
  \/ c.add \cup c.drop \subseteq RecoveryKeys /\ c.limit = None
  \/ c.add = {} /\ c.drop = {} /\ c.limit \in Limits

\* The one signer of a kind.
HasOne(f, set) == \E k \in PhoneKeys[f] : PhoneKeys[f] \cap set = {k}

Young(i) == proposal[i].standing \notin {"ripe", "executed"}

\* The change of this index did not land, or did not last; nor can it land before the
\* requests under way have come to rest.
Forgone(i, to) ==
  /\ proposal[i].standing # "ripe"
  /\ Executed(i) /\ proposal[i].change.add = {to} => TakenOut(to)

\* A role's key as it was read from the row with a rotation: one to that very key, staged
\* by a start that raced the commit, executes only after that key was taken out.
Seen(k, to, i) ==
  /\ Admitted(k)
  /\ i # 0 /\ to = k /\ Executed(i) /\ proposal[i].change.add = {to} => TakenOut(to)

ChainLanding ==
  /\ \A i \in Indices : i <= tip => RoleChange(proposal[i].change)
  /\ \A f \in Roles : HasOne(f, signers)
  /\ \A i \in Indices : Executed(i) => \A k \in proposal[i].change.add : Admitted(k)

PreparedLanding ==
  \A f \in Flows : prepared[f].step = "propose" => RoleChange(prepared[f].change)

RowsLanding ==
  \A k \in RecoveryKeys : rows[k].status \in {"active", "pending_remove"} => Admitted(k)

KeyLanding(f) == Seen(key[f], staged[f].to, staged[f].index)

JobLanding(r) ==
  LET j == job[r] IN
  /\ j.at = "stage" => Young(j.index)
  /\ j.at = "announce" /\ j.op \in Roles => j.to \in PhoneKeys[j.op]
  /\ j.at \in Reads /\ j.op \in Roles => Seen(j.had[j.op], j.was, j.index)
  /\ j.at \in {"ask", "land"} => proposal[j.index].standing # "ripe"
  /\ j.at \in {"resolve", "tell"} /\ j.out = "rejected" /\ j.op \in Roles => Forgone(j.index, j.was)
  /\ j.at = "retire" => Admitted(j.was)
  /\ j.at \in {"follow", "rows"} => \A k \in j.drop : Admitted(k)
  /\ j.at \in {"follow", "rows"} /\ j.out = "executed" => \A k \in j.add : Admitted(k)

SignerHistory ==
  /\ ChainLanding /\ PreparedLanding /\ RowsLanding
  /\ (\A f \in Roles : KeyLanding(f)) /\ (\A r \in Requests : JobLanding(r))

\* What a step of the chain may do, to what was read of it.
ChainMoves ==
  /\ ChainGrows
  /\ \A i \in Indices : proposal[i].standing \in Outcomes =>
       proposal'[i].standing = proposal[i].standing /\ proposal'[i].change = proposal[i].change
  /\ \A i \in Indices : proposal'[i].standing = "executed" =>
       \/ Executed(i) /\ proposal'[i].change = proposal[i].change
       \/ proposal'[i].change.add \cap signers = {}
  /\ \A k \in signers : k \in signers' \/ TakenOut(k)'
  /\ (\E r \in Requests : ~Resting(r)) =>
       \A i \in Indices : Young(i) => proposal'[i].standing \notin {"ripe", "executed"}

LEMMA TakenOutStays == ASSUME ChainGrows, NEW k, TakenOut(k) PROVE TakenOut(k)'
  BY DEF ChainGrows, TakenOut, Executed

LEMMA AdmittedStays == ASSUME ChainMoves, NEW k, Admitted(k) PROVE Admitted(k)'
  BY TakenOutStays DEF ChainMoves, Admitted

LEMMA CalmStays ==
  ASSUME ChainMoves, \E r \in Requests : ~Resting(r), NEW i \in Indices, proposal[i].standing # "ripe"
  PROVE  proposal'[i].standing # "ripe"
<1>1. CASE Young(i)
  BY <1>1 DEF ChainMoves
<1>2. CASE ~Young(i)
  BY <1>2 DEF ChainMoves, Young, Outcomes
<1> QED
  BY <1>1, <1>2

LEMMA ForgoneStays ==
  ASSUME ChainMoves, \E r \in Requests : ~Resting(r), NEW i \in Indices, NEW to, Forgone(i, to)
  PROVE  Forgone(i, to)'
<1>1. proposal'[i].standing # "ripe"
  BY CalmStays DEF Forgone
<1>2. TakenOut(to) => TakenOut(to)'
  BY TakenOutStays DEF ChainMoves
<1>3. Executed(i)' => Executed(i) /\ proposal'[i].change = proposal[i].change
  <2>1. Young(i) => ~Executed(i)'
    BY DEF ChainMoves, Executed
  <2>2. ~Young(i) => Executed(i)
    BY DEF Young, Forgone, Executed
  <2> QED
    BY <2>1, <2>2 DEF ChainMoves, Executed, Outcomes
<1> QED
  BY <1>1, <1>2, <1>3 DEF Forgone, Executed

LEMMA SeenStays ==
  ASSUME ChainMoves, NEW k, NEW to, NEW i \in 0..MaxIndex, Seen(k, to, i)
  PROVE  Seen(k, to, i)'
<1>1. Admitted(k)'
  BY AdmittedStays DEF Seen
<1>2. ASSUME i # 0, to = k, proposal'[i].standing = "executed", proposal'[i].change.add = {to}
      PROVE  TakenOut(k)'
  <2>1. i \in Indices
    BY <1>2, Constants
  <2>2. CASE Executed(i) /\ proposal'[i].change = proposal[i].change
    <3>1. TakenOut(k)
      BY <1>2, <2>2 DEF Seen
    <3> QED
      BY <3>1, TakenOutStays DEF ChainMoves
  <2>3. CASE proposal'[i].change.add \cap signers = {}
    <3>1. TakenOut(k)
      BY <1>2, <2>3 DEF Seen, Admitted
    <3> QED
      BY <3>1, TakenOutStays DEF ChainMoves
  <2> QED
    BY <1>2, <2>1, <2>2, <2>3 DEF ChainMoves
<1> QED
  BY <1>1, <1>2 DEF Seen, Executed

LEMMA ChainRests ==
  ASSUME Inv, ChainHistory, ChainLanding, UNCHANGED <<tip, proposal, signers, limit>>, closed \subseteq closed'
  PROVE  ChainMoves /\ ChainLanding'
<1>1. tip <= tip'
  BY Kept DEF ChainOK
<1>2. ChainGrows
  BY <1>1 DEF ChainGrows, Executed
<1>3. ChainMoves
  BY <1>2 DEF ChainMoves, Executed, Young
<1>4. ChainLanding'
  BY DEF ChainLanding, Executed, Admitted, TakenOut, RoleChange, HasOne
<1> QED
  BY <1>3, <1>4

\* A proposal is voted, ripens or is rejected.
LEMMA StandingTurns ==
  ASSUME Inv, ChainHistory, ChainLanding, NEW i \in Indices, i <= tip, i \notin closed,
         proposal[i].standing \notin Outcomes, proposal'[i].standing # "executed",
         proposal'[i].standing = "ripe" => \A r \in Requests : Resting(r),
         proposal'[i].change = proposal[i].change, \A j \in Indices \ {i} : proposal'[j] = proposal[j],
         UNCHANGED <<tip, closed, signers, limit>>
  PROVE  ChainMoves /\ ChainLanding'
<1>1. ~Executed(i)
  BY DEF Executed, Outcomes
<1>2. ChainGrows
  BY <1>1, StandingMoves
<1>3. ASSUME NEW j \in Indices, proposal[j].standing \in Outcomes
      PROVE  proposal'[j].standing = proposal[j].standing /\ proposal'[j].change = proposal[j].change
  BY <1>3
<1>4. ASSUME NEW j \in Indices, proposal'[j].standing = "executed"
      PROVE  Executed(j) /\ proposal'[j].change = proposal[j].change
  BY <1>4 DEF Executed
<1>5. ASSUME \E r \in Requests : ~Resting(r), NEW j \in Indices, Young(j)
      PROVE  proposal'[j].standing \notin {"ripe", "executed"}
  BY <1>5 DEF Young
<1>6. ChainMoves
  BY <1>2, <1>3, <1>4, <1>5 DEF ChainMoves
<1>7. \A j \in Indices : Executed(j)' => \A k \in proposal'[j].change.add : Admitted(k)'
  BY <1>4, <1>6, AdmittedStays DEF Executed, ChainLanding
<1>8. \A j \in Indices : j <= tip' => RoleChange(proposal'[j].change)
  BY DEF ChainLanding
<1> QED
  BY <1>6, <1>7, <1>8 DEF ChainLanding, RoleChange, HasOne

LEMMA VoteTurns ==
  ASSUME Inv, ChainHistory, ChainLanding, NEW i \in 0..MaxIndex, Standing(i) = "open", NEW ks, Vote(i, ks),
         UNCHANGED <<tip, closed, signers, limit>>
  PROVE  ChainMoves /\ ChainLanding'
<1>1. i \in Indices /\ i <= tip /\ i \notin closed /\ proposal[i].standing = "open"
  BY Kept, StandingHolds DEF Standing, Readable
<1>2. \A j \in Indices \ {i} : proposal'[j] = proposal[j]
  BY <1>1, Kept DEF Vote, ChainOK
<1>3. proposal'[i].change = proposal[i].change /\ proposal'[i].standing \in {"approved", "open"}
  BY <1>1, Kept DEF Vote, ChainOK
<1> QED
  BY <1>1, <1>2, <1>3, StandingTurns DEF Outcomes

LEMMA ProposeTurns ==
  ASSUME Inv, ChainHistory, ChainLanding, PreparedLanding,
         NEW r \in Requests, NEW f \in Kinds, SubmitPropose(r, f)
  PROVE  ChainMoves /\ ChainLanding'
<1> DEFINE i == tip + 1
           c == prepared[f].change
<1>1. /\ i = prepared[f].index /\ tip' = i /\ UNCHANGED <<closed, signers, limit>>
      /\ proposal' = [proposal EXCEPT ![i] = [change |-> c, votes |-> {}, standing |-> "open"]]
      /\ prepared[f].step = "propose"
  BY DEF SubmitPropose, NextIndex
<1>2. tip \in 0..MaxIndex /\ prepared[f].index \in 0..MaxIndex /\ MaxIndex \in Nat /\ Indices = 1..MaxIndex
  BY Kept, Constants DEF ChainOK, PreparedOK
<1>3. i \in Indices /\ proposal[i].standing = "none"
  BY <1>1, <1>2 DEF ChainHistory
<1>4. \A j \in Indices \ {i} : proposal'[j] = proposal[j]
  BY <1>1, <1>3, Kept DEF ChainOK
<1>5. proposal'[i].change = c /\ proposal'[i].standing = "open"
  BY <1>1, <1>3, Kept DEF ChainOK
<1>6. RoleChange(c)
  BY <1>1, Constants DEF PreparedLanding
<1> HIDE DEF i, c
<1>8. ChainGrows
  BY ProposeGrows
<1>9. ChainMoves
  BY <1>1, <1>3, <1>4, <1>5, <1>8 DEF ChainMoves, Executed, Young, Outcomes
<1>10. \A j \in Indices : Executed(j)' => \A k \in proposal'[j].change.add : Admitted(k)'
  BY <1>4, <1>5, <1>9, AdmittedStays DEF Executed, ChainLanding
<1>11. \A j \in Indices : j <= tip' => RoleChange(proposal'[j].change)
  <2> SUFFICES ASSUME NEW j \in Indices, j <= tip' PROVE RoleChange(proposal'[j].change)
    OBVIOUS
  <2>1. CASE j = i
    BY <1>5, <1>6, <2>1
  <2>2. CASE j # i
    <3>1. j <= tip
      BY <1>1, <1>2, <2>2 DEF i
    <3> QED
      BY <1>4, <2>2, <3>1 DEF ChainLanding
  <2> QED
    BY <2>1, <2>2
<1> QED
  BY <1>1, <1>9, <1>10, <1>11 DEF ChainLanding, RoleChange, HasOne

LEMMA RotationOf ==
  ASSUME NEW g \in Roles, NEW c, RoleChange(c), (c.add \cup c.drop) \cap PhoneKeys[g] # {}
  PROVE  \E k, to \in PhoneKeys[g] : c.add = {to} /\ c.drop = {k}
  BY Constants, ConstantsAssumption DEF RoleChange

LEMMA ExecuteTurns ==
  ASSUME Inv, ChainHistory, ChainLanding, NEW r \in Requests, NEW f \in Kinds, SubmitExecute(r, f)
  PROVE  ChainMoves /\ ChainLanding'
<1> DEFINE i == prepared[f].index
           c == proposal[i].change
<1>1. /\ Standing(i) = "ripe" /\ proposal' = [proposal EXCEPT ![i].standing = "executed"]
      /\ c.drop \subseteq signers /\ c.add \cap signers = {}
      /\ signers' = (signers \ c.drop) \cup c.add
      /\ UNCHANGED <<tip, closed>>
  BY DEF SubmitExecute
<1>2. i \in 0..MaxIndex
  BY Kept, Constants DEF PreparedOK
<1>3. i \in Indices /\ i <= tip /\ i \notin closed /\ proposal[i].standing = "ripe"
  BY <1>1, <1>2, Kept, StandingHolds DEF Standing, Readable
<1>4. /\ \A j \in Indices \ {i} : proposal'[j] = proposal[j]
      /\ proposal'[i].standing = "executed" /\ proposal'[i].change = c
  BY <1>1, <1>3, Kept DEF ChainOK
<1>5. \A k \in c.drop : TakenOut(k)'
  BY <1>3, <1>4 DEF TakenOut
<1>6. RoleChange(c)
  BY <1>3 DEF ChainLanding
<1> HIDE DEF i, c
<1>7. ChainGrows
  BY ExecuteGrows
<1>8. \A k \in signers : k \in signers' \/ TakenOut(k)'
  BY <1>1, <1>5
<1>9. \A j \in Indices : Young(j) => j # i
  BY <1>3 DEF Young
<1>10. \A j \in Indices : proposal[j].standing \in Outcomes => j # i
  BY <1>3 DEF Outcomes
<1>11. ChainMoves
  BY <1>1, <1>4, <1>7, <1>8, <1>9, <1>10 DEF ChainMoves, Executed, Young
<1>12. \A j \in Indices : Executed(j)' => \A k \in proposal'[j].change.add : Admitted(k)'
  <2> SUFFICES ASSUME NEW j \in Indices, Executed(j)', NEW k \in proposal'[j].change.add
               PROVE  Admitted(k)'
    OBVIOUS
  <2>1. CASE j = i
    BY <1>1, <1>4, <2>1 DEF Admitted
  <2>2. CASE j # i
    BY <1>4, <1>11, <2>2, AdmittedStays DEF Executed, ChainLanding
  <2> QED
    BY <2>1, <2>2
<1>13. \A g \in Roles : HasOne(g, signers')
  <2> SUFFICES ASSUME NEW g \in Roles PROVE HasOne(g, signers')
    OBVIOUS
  <2>1. PICK holder \in PhoneKeys[g] : PhoneKeys[g] \cap signers = {holder}
    BY DEF ChainLanding, HasOne
  <2>2. CASE (c.add \cup c.drop) \cap PhoneKeys[g] = {}
    BY <1>1, <2>1, <2>2 DEF HasOne
  <2>3. CASE (c.add \cup c.drop) \cap PhoneKeys[g] # {}
    <3>1. PICK k, to \in PhoneKeys[g] : c.add = {to} /\ c.drop = {k}
      BY <1>6, <2>3, RotationOf
    <3>2. k = holder
      BY <1>1, <2>1, <3>1
    <3> QED
      BY <1>1, <2>1, <3>1, <3>2 DEF HasOne
  <2> QED
    BY <2>2, <2>3
<1>14. \A j \in Indices : j <= tip' => RoleChange(proposal'[j].change)
  BY <1>1, <1>4, <1>6 DEF ChainLanding
<1> QED
  BY <1>11, <1>12, <1>13, <1>14 DEF ChainLanding, RoleChange, HasOne

-----------------------------------------------------------------------------
(* What a step keeps of it.                                                  *)

LEMMA KeyLandingStays ==
  ASSUME Inv, ChainMoves, NEW f \in Roles, KeyLanding(f), key'[f] = key[f], staged'[f] = staged[f]
  PROVE  KeyLanding(f)'
<1>1. PICK k, to, i : k = key[f] /\ to = staged[f].to /\ i = staged[f].index
  OBVIOUS
<1>2. i \in 0..MaxIndex
  BY <1>1, Kept, Constants DEF StagedOK
<1>3. Seen(k, to, i)'
  BY <1>1, <1>2, SeenStays DEF KeyLanding
<1> QED
  BY <1>1, <1>3 DEF KeyLanding, Seen, Executed, Admitted, TakenOut

\* What a request read stays true, while others move and where it goes on with it.
LEMMA JobLandingStays ==
  ASSUME Inv, ChainMoves, NEW r \in Requests, JobLanding(r),
         job'[r].op = job[r].op, job'[r].index = job[r].index, job'[r].out = job[r].out,
         job'[r].was = job[r].was, job'[r].to = job[r].to,
         job'[r].add \subseteq job[r].add, job'[r].drop \subseteq job[r].drop,
         job'[r].at = "stage" => job[r].at = "stage",
         job'[r].at = "announce" /\ job[r].op \in Roles => job[r].to \in PhoneKeys[job[r].op],
         job'[r].at \in Reads => job[r].at \in Reads /\ job'[r].had = job[r].had,
         job'[r].at \in {"ask", "land"} => job[r].at \in {"ask", "land"},
         job'[r].at \in {"resolve", "tell"} /\ job[r].op \in Roles => job[r].at \in {"resolve", "tell"},
         job'[r].at = "retire" => job[r].at = "retire",
         job'[r].at \in {"follow", "rows"} => job[r].at \in {"follow", "rows"}
  PROVE  JobLanding(r)'
<1>1. PICK op, i, was, had : op = job[r].op /\ i = job[r].index /\ was = job[r].was /\ had = job[r].had
  OBVIOUS
<1>2. job[r].at \in Reads \cup {"stage", "resolve", "tell"} => i \in Indices /\ i \in 0..MaxIndex
  BY <1>1, Kept DEF HolderOK, Reads, Jobs
<1>3. job'[r].at = "stage" => Young(i)'
  BY <1>1, <1>2 DEF JobLanding, ChainMoves, Young, Resting
<1>4. job'[r].at \in {"resolve", "tell"} /\ job'[r].out = "rejected" /\ op \in Roles => Forgone(i, was)'
  BY <1>1, <1>2, ForgoneStays DEF JobLanding, Resting
<1>5. job'[r].at = "retire" => Admitted(was)'
  BY <1>1, AdmittedStays DEF JobLanding
<1>6. job'[r].at \in {"follow", "rows"} => \A k \in job'[r].drop : Admitted(k)'
  BY AdmittedStays DEF JobLanding
<1>7. job'[r].at \in {"follow", "rows"} /\ job'[r].out = "executed" => \A k \in job'[r].add : Admitted(k)'
  BY AdmittedStays DEF JobLanding
<1>8. job'[r].index = i /\ job'[r].was = was /\ job'[r].op = op /\ (job'[r].at \in Reads => job'[r].had = had)
  BY <1>1
<1>9. job'[r].at \in Reads /\ op \in Roles => Seen(had[op], was, i)'
  BY <1>1, <1>2, SeenStays DEF JobLanding
<1>10. job'[r].at \in {"ask", "land"} => proposal'[i].standing # "ripe"
  BY <1>1, <1>2, CalmStays DEF JobLanding, Resting, Reads
<1> QED
  BY <1>3, <1>4, <1>5, <1>6, <1>7, <1>8, <1>9, <1>10
     DEF JobLanding, Young, Forgone, Executed, Admitted, TakenOut, Seen

LEMMA RowsLandingStays ==
  ASSUME ChainMoves, RowsLanding,
         \A k \in RecoveryKeys : rows'[k].status \in {"active", "pending_remove"} =>
           rows[k].status \in {"active", "pending_remove"} \/ Admitted(k)
  PROVE  RowsLanding'
  BY AdmittedStays DEF RowsLanding

\* What a step of request r must show.
LEMMA StepLands ==
  ASSUME Inv, Inv', SignerHistory, ChainMoves, ChainLanding', PreparedLanding', NEW r \in Requests,
         \A q \in Requests \ {r} : job'[q] = job[q], JobLanding(r)',
         \A k \in RecoveryKeys : rows'[k].status \in {"active", "pending_remove"} =>
           rows[k].status \in {"active", "pending_remove"} \/ Admitted(k),
         \A f \in Roles : (key'[f] = key[f] /\ staged'[f] = staged[f]) \/ KeyLanding(f)'
  PROVE  SignerHistory'
<1>1. \A f \in Roles : KeyLanding(f)'
  BY KeyLandingStays DEF SignerHistory
<1>2. \A q \in Requests : JobLanding(q)'
  <2> SUFFICES ASSUME NEW q \in Requests \ {r} PROVE JobLanding(q)'
    OBVIOUS
  <2>1. job'[q] = job[q] /\ JobLanding(q)
    BY DEF SignerHistory
  <2>2. job[q].at = "announce" /\ job[q].op \in Roles => job[q].to \in PhoneKeys[job[q].op]
    BY <2>1 DEF JobLanding
  <2> QED
    BY <2>1, <2>2, JobLandingStays
<1>3. RowsLanding'
  BY RowsLandingStays DEF SignerHistory
<1> QED
  BY <1>1, <1>2, <1>3 DEF SignerHistory

\* What a step that is no request's must show.
LEMMA StillLands ==
  ASSUME Inv, Inv', SignerHistory, ChainMoves, ChainLanding', PreparedLanding',
         UNCHANGED <<key, staged, rows, job>>
  PROVE  SignerHistory'
<1>1. \A f \in Roles : KeyLanding(f)'
  BY KeyLandingStays DEF SignerHistory
<1>2. \A q \in Requests : JobLanding(q)'
  <2> SUFFICES ASSUME NEW q \in Requests PROVE JobLanding(q)'
    OBVIOUS
  <2>1. JobLanding(q)
    BY DEF SignerHistory
  <2>2. job[q].at = "announce" /\ job[q].op \in Roles => job[q].to \in PhoneKeys[job[q].op]
    BY <2>1 DEF JobLanding
  <2> QED
    BY <2>1, <2>2, JobLandingStays
<1>3. RowsLanding'
  BY RowsLandingStays DEF SignerHistory
<1> QED
  BY <1>1, <1>2, <1>3 DEF SignerHistory

\* A step of request r that commits, stages and tells nothing, and after which
\* it knows nothing of the chain.
LEMMA QuietLands ==
  ASSUME Inv, Inv', SignerHistory, ChainMoves, ChainLanding', PreparedLanding', NEW r \in Requests,
         \A q \in Requests \ {r} : job'[q] = job[q], UNCHANGED <<key, staged>>,
         job'[r].at \notin Reads \cup {"stage", "announce", "resolve", "tell", "retire", "follow", "rows"},
         \A k \in RecoveryKeys : rows'[k].status \in {"active", "pending_remove"} =>
           rows[k].status \in {"active", "pending_remove"} \/ Admitted(k)
  PROVE  SignerHistory'
<1>1. JobLanding(r)'
  BY DEF JobLanding, Reads
<1> QED
  BY <1>1, StepLands

LEMMA UnprepareLands == ASSUME Inv, PreparedLanding, NEW f, Unprepare(f) PROVE PreparedLanding'
  BY Kept DEF PreparedOK, PreparedLanding, Unprepare, NoStep

LEMMA ProposeLands ==
  ASSUME Inv, PreparedLanding, NEW f, NEW step, NEW i, NEW c, NEW by, Prepare(f, step, i, c, by),
         step = "propose" => RoleChange(c)
  PROVE  PreparedLanding'
<1> SUFFICES ASSUME NEW g \in Flows, prepared'[g].step = "propose" PROVE RoleChange(prepared'[g].change)
  BY DEF PreparedLanding, RoleChange
<1>1. CASE g = f
  BY <1>1, Kept DEF PreparedOK, Prepare
<1>2. CASE g # f
  BY <1>2, Kept DEF PreparedOK, Prepare, PreparedLanding
<1> QED
  BY <1>1, <1>2

LEMMA RoleChanges ==
  /\ \A f \in Columns : \A to \in Fits(f) : \A had :
       (f \in Roles => to \in PhoneKeys[f] /\ had[f] \in PhoneKeys[f]) => RoleChange(ChangeOf(f, to, had))
  /\ \A i : RoleChange(KeyChange(i))
<1>1. ASSUME NEW f \in Columns, NEW to \in Fits(f), NEW had,
             f \in Roles => to \in PhoneKeys[f] /\ had[f] \in PhoneKeys[f]
      PROVE  RoleChange(ChangeOf(f, to, had))
  <2> PICK c : c = ChangeOf(f, to, had)
    OBVIOUS
  <2>1. /\ c.add = {to} \ Limits /\ c.drop = IF f \in Roles THEN {had[f]} ELSE {}
        /\ f = "limit" => c.limit = to
    BY DEF ChangeOf
  <2>2. CASE f = "limit"
    BY <1>1, <2>1, <2>2, Constants DEF Fits, RoleChange
  <2>3. CASE f # "limit"
    <3>1. f \in Roles /\ had[f] \in PhoneKeys[f] /\ to \in PhoneKeys[f]
      BY <1>1, <2>3, Constants
    <3>2. to \notin Limits
      BY <3>1, Constants
    <3> QED
      BY <2>1, <3>1, <3>2 DEF RoleChange
  <2> QED
    BY <2>2, <2>3
<1>2. ASSUME NEW i PROVE RoleChange(KeyChange(i))
  BY DEF KeyChange, RowsIn, RoleChange
<1> QED
  BY <1>1, <1>2

-----------------------------------------------------------------------------
(* The steps that stage, settle and tell.                                    *)

\* The chain and the prepared steps rest.
LEMMA Rests ==
  ASSUME Inv, History, SignerHistory, UNCHANGED <<tip, proposal, closed, signers, limit>>
  PROVE  ChainMoves /\ ChainLanding' /\ (UNCHANGED prepared => PreparedLanding')
<1>1. ChainMoves /\ ChainLanding'
  BY ChainRests DEF History, SignerHistory
<1>2. UNCHANGED prepared => PreparedLanding'
  BY DEF SignerHistory, PreparedLanding
<1> QED
  BY <1>1, <1>2

\* An index that is read as the next one carries nothing yet.
LEMMA NextIsYoung ==
  ASSUME Inv, History, tip < MaxIndex
  PROVE  Young(tip + 1)
<1>1. tip \in 0..MaxIndex /\ MaxIndex \in Nat /\ Indices = 1..MaxIndex
  BY Kept, Constants DEF ChainOK
<1>2. tip + 1 \in Indices /\ tip + 1 > tip
  BY <1>1
<1> QED
  BY <1>2 DEF History, ChainHistory, Young

LEMMA StartLands ==
  ASSUME Inv, Inv', History, SignerHistory, NEW r \in Requests, NEW f \in Columns, NEW to \in Values,
         Start(r, f, to)
  PROVE  SignerHistory'
<1>1. UNCHANGED <<tip, proposal, closed, signers, limit, prepared, key, staged, rows, told>> /\ tip < MaxIndex
  BY DEF Start
<1>2. PICK i : i = tip + 1
  OBVIOUS
<1>3. job'[r].at = "stage" /\ job'[r].index = i /\ \A q \in Requests \ {r} : job'[q] = job[q]
  BY <1>2, BecomeGives DEF Start, NextIndex
<1>4. Young(i)'
  BY <1>1, <1>2, NextIsYoung DEF Young
<1>5. JobLanding(r)'
  BY <1>3, <1>4 DEF JobLanding, Young, Reads
<1> QED
  BY <1>1, <1>3, <1>5, Rests, StepLands

\* A reading of the row, and of what its change comes to.
LEMMA ReadLands ==
  ASSUME Inv, Inv', History, SignerHistory, NEW r \in Requests, NEW f, NEW to, Read(r, f, to),
         UNCHANGED <<database, chain>>
  PROVE  SignerHistory'
<1>1. DOMAIN job = Requests
  BY Kept DEF JobsOK
<1>2. PICK was, had, i : was = (IF f = "recovery" THEN None ELSE staged[f].to) /\ had = key /\ i = StagedIndex(f)
  OBVIOUS
<1>3. /\ job'[r].op = f /\ job'[r].at = "look" /\ job'[r].index = i /\ job'[r].was = was /\ job'[r].had = had
      /\ \A q \in Requests \ {r} : job'[q] = job[q]
  BY <1>1, <1>2 DEF Read, Idle
<1>4. f \in Roles => Seen(had[f], was, i)
  BY <1>2, Constants DEF SignerHistory, KeyLanding, StagedIndex
<1>5. JobLanding(r)'
  BY <1>3, <1>4 DEF JobLanding, Seen, Admitted, Executed, TakenOut, Reads
<1> QED
  BY <1>3, <1>5, Rests, StepLands

LEMMA LookLands ==
  ASSUME Inv, Inv', History, SignerHistory, NEW r \in Requests,
         (\E f \in Columns, to \in Values : StartOver(r, f, to)) \/ \E f \in Kinds : Look(r, f)
  PROVE  SignerHistory'
<1>1. PICK f, to : Read(r, f, to) /\ UNCHANGED <<database, chain>>
  BY DEF StartOver, Look
<1> QED
  BY <1>1, ReadLands

LEMMA ConcludeLands ==
  ASSUME Inv, Inv', History, SignerHistory, NEW r \in Requests, job[r].at \in Reads, job[r].op \in Columns,
         NEW out \in Outcomes, Conclude(r, out), UNCHANGED <<database, chain>>,
         out = "rejected" /\ job[r].op \in Roles => Forgone(job[r].index, job[r].was)
  PROVE  SignerHistory'
<1>1. PICK f, i, was : f = job[r].op /\ i = job[r].index /\ was = job[r].was
  OBVIOUS
<1>2. /\ job'[r].at \in {"tell", "resolve"} /\ job'[r].op = f /\ job'[r].index = i
      /\ job'[r].was = was /\ job'[r].out = out /\ \A q \in Requests \ {r} : job'[q] = job[q]
  BY <1>1, ConcludeHolds DEF Reads
<1>3. JobLanding(r)'
  BY <1>1, <1>2 DEF JobLanding, Reads, Forgone, Executed, TakenOut
<1> QED
  BY <1>2, <1>3, Rests, StepLands

\* A reading that ends there, and one that goes on to the next thing it reads.
LEMMA ReadEndLands ==
  ASSUME Inv, Inv', History, SignerHistory, NEW r \in Requests, Finish(r), PreparedLanding',
         UNCHANGED <<key, staged, rows, tip, proposal, closed, signers, limit>>
  PROVE  SignerHistory'
  BY FinishIdles, Rests, QuietLands DEF Reads

LEMMA ReadOnLands ==
  ASSUME Inv, Inv', History, SignerHistory, NEW r \in Requests, job[r].at \in Reads,
         job'[r].op = job[r].op, job'[r].index = job[r].index, job'[r].was = job[r].was,
         job'[r].had = job[r].had, job'[r].at \in {"ask", "land"},
         \A q \in Requests \ {r} : job'[q] = job[q],
         proposal[job[r].index].standing # "ripe",
         UNCHANGED <<key, staged, rows, prepared, tip, proposal, closed, signers, limit>>
  PROVE  SignerHistory'
<1>1. PICK f, i, was, had : f = job[r].op /\ i = job[r].index /\ was = job[r].was /\ had = job[r].had
  OBVIOUS
<1>2. f \in Roles => Seen(had[f], was, i)
  BY <1>1 DEF SignerHistory, JobLanding
<1>3. JobLanding(r)'
  BY <1>1, <1>2 DEF JobLanding, Seen, Admitted, Executed, TakenOut, Reads
<1> QED
  BY <1>3, Rests, StepLands

LEMMA FindSettledLands ==
  ASSUME Inv, Inv', History, SignerHistory, NEW r \in Requests, FindSettled(r)
  PROVE  SignerHistory'
<1> DEFINE i == job[r].index
           s == Standing(i)
<1>1. /\ job[r].at = "look" /\ i \in Indices /\ job[r].op \in Kinds /\ s \in Outcomes
      /\ job[r] \in Jobs /\ UNCHANGED <<database, chain>> /\ proposal[i].standing = s
  BY Kept DEF FindSettled, HolderOK, Settled, Standing, Outcomes
<1>2. CASE s = "executed" \/ job[r].op = "recovery"
  <2> DEFINE j == [job[r] EXCEPT !.at = "land", !.out = s]
  <2>1. job' = [job EXCEPT ![r] = j]
    BY <1>2, Kept DEF FindSettled, JobsOK, Jobs
  <2> HIDE DEF s
  <2>2. /\ j.at = "land" /\ j.op = job[r].op /\ j.index = i /\ j.was = job[r].was /\ j.had = job[r].had
    BY <1>1 DEF Jobs
  <2> HIDE DEF j
  <2>3. job'[r] = j /\ \A q \in Requests \ {r} : job'[q] = job[q]
    BY <2>1, Kept DEF JobsOK
  <2> QED
    BY <1>1, <2>2, <2>3, ReadOnLands DEF Outcomes, Reads
<1>3. CASE ~(s = "executed" \/ job[r].op = "recovery")
  <2>1. Conclude(r, "rejected") /\ "rejected" \in Outcomes /\ job[r].op \in Columns
    BY <1>1, <1>3, Constants DEF FindSettled, Outcomes
  <2>2. Forgone(i, job[r].was)
    BY <1>1, <1>3 DEF Forgone, Executed, Outcomes
  <2> QED
    BY <1>1, <2>1, <2>2, ConcludeLands DEF Reads
<1> QED
  BY <1>2, <1>3

LEMMA FindOpenLands ==
  ASSUME Inv, Inv', History, SignerHistory, NEW r \in Requests, FindOpen(r)
  PROVE  SignerHistory'
<1>1. Finish(r) /\ UNCHANGED <<key, staged, rows, tip, proposal, closed, signers, limit>>
  BY DEF FindOpen
<1>2. PICK f, i : f = job[r].op /\ i = job[r].index
  OBVIOUS
<1>3. \/ \E by : Prepare(f, "approve", i, None, by)
      \/ Prepare(f, "execute", i, None, {})
      \/ UNCHANGED prepared
  BY <1>2 DEF FindOpen
<1>4. PreparedLanding'
  <2>1. CASE UNCHANGED prepared
    BY <2>1 DEF SignerHistory, PreparedLanding
  <2>2. ASSUME NEW step \in {"approve", "execute"}, NEW by, Prepare(f, step, i, None, by) PROVE PreparedLanding'
    <3>1. PICK c : c = None
      OBVIOUS
    <3> QED
      BY <2>2, <3>1, ProposeLands DEF SignerHistory
  <2> QED
    BY <1>3, <2>1, <2>2
<1> QED
  BY <1>1, <1>4, ReadEndLands

LEMMA FindNothingLands ==
  ASSUME Inv, Inv', History, SignerHistory, NEW r \in Requests, FindNothing(r)
  PROVE  SignerHistory'
<1>1. /\ job[r].at = "look" /\ job[r].index \in Indices /\ ~Readable(job[r].index)
      /\ UNCHANGED <<key, staged, rows, tip, proposal, closed, signers, limit>>
  BY Kept DEF FindNothing, HolderOK
<1>2. CASE job[r].op = "recovery"
  <2>1. PICK i, c : Prepare("recovery", "propose", i, c, {}) /\ c = KeyChange(i)
    BY <1>2 DEF FindNothing, Propose
  <2>2. PreparedLanding'
    BY <2>1, RoleChanges, ProposeLands DEF SignerHistory
  <2> QED
    BY <1>1, <1>2, <2>2, ReadEndLands DEF FindNothing
<1>3. CASE job[r].op # "recovery"
  <2>1. GoTo(r, "ask") /\ UNCHANGED prepared /\ "ask" \in Points
    BY <1>3 DEF FindNothing, Points
  <2>2. /\ job'[r].op = job[r].op /\ job'[r].index = job[r].index /\ job'[r].was = job[r].was
        /\ job'[r].had = job[r].had /\ job'[r].at = "ask" /\ \A q \in Requests \ {r} : job'[q] = job[q]
    BY <2>1, Kept, GoToHolds
  <2>3. proposal[job[r].index].standing # "ripe"
    <3>1. PICK i : i = job[r].index
      OBVIOUS
    <3>2. i \in closed \/ i > tip
      BY <1>1, <3>1, Kept, Constants DEF Readable, ChainOK
    <3> QED
      BY <1>1, <3>1, <3>2 DEF History, ChainHistory, Outcomes
  <2> QED
    BY <1>1, <2>1, <2>2, <2>3, ReadOnLands DEF Reads
<1> QED
  BY <1>2, <1>3

LEMMA AskTipLands ==
  ASSUME Inv, Inv', History, SignerHistory, NEW r \in Requests, AskTip(r)
  PROVE  SignerHistory'
<1>1. /\ job[r].at = "ask" /\ job[r].op \in Columns /\ job[r].was \in Fits(job[r].op)
      /\ UNCHANGED <<key, staged, rows, tip, proposal, closed, signers, limit>>
  BY Kept DEF AskTip, HolderOK
<1>2. CASE job[r].index = NextIndex
  <2>1. PICK f, i, was, had : f = job[r].op /\ i = job[r].index /\ was = job[r].was /\ had = job[r].had
    OBVIOUS
  <2>2. f \in Roles => was \in PhoneKeys[f] /\ had[f] \in PhoneKeys[f]
    BY <1>1, <2>1, Constants, ConstantsAssumption DEF History, JobHistory, Reads, Worthy, Held
  <2>3. PICK c : c = ChangeOf(f, was, had) /\ RoleChange(c)
    BY <1>1, <2>1, <2>2, RoleChanges
  <2>4. Prepare(f, "propose", i, c, {}) \/ UNCHANGED prepared
    BY <1>2, <2>1, <2>3 DEF AskTip, Propose
  <2>5. PreparedLanding'
    <3>1. CASE UNCHANGED prepared
      BY <3>1 DEF SignerHistory, PreparedLanding
    <3>2. CASE Prepare(f, "propose", i, c, {})
      BY <2>3, <3>2, ProposeLands DEF SignerHistory
    <3> QED
      BY <2>4, <3>1, <3>2
  <2> QED
    BY <1>1, <1>2, <2>5, ReadEndLands DEF AskTip
<1>3. CASE job[r].index # NextIndex /\ job[r].op = "limit"
  <2>1. Conclude(r, "rejected") /\ "rejected" \in Outcomes /\ UNCHANGED <<database, chain>> /\ job[r].op \notin Roles
    BY <1>3, Constants, ConstantsAssumption DEF AskTip, Outcomes
  <2> QED
    BY <1>1, <2>1, ConcludeLands DEF Reads
<1>4. CASE job[r].index # NextIndex /\ job[r].op # "limit"
  <2>1. GoTo(r, "land") /\ UNCHANGED prepared /\ "land" \in Points
    BY <1>4 DEF AskTip, Points
  <2>2. /\ job'[r].op = job[r].op /\ job'[r].index = job[r].index /\ job'[r].was = job[r].was
        /\ job'[r].had = job[r].had /\ job'[r].at = "land" /\ \A q \in Requests \ {r} : job'[q] = job[q]
    BY <2>1, Kept, GoToHolds
  <2>3. proposal[job[r].index].standing # "ripe"
    BY <1>1 DEF SignerHistory, JobLanding
  <2> QED
    BY <1>1, <2>1, <2>2, <2>3, ReadOnLands DEF Reads
<1> QED
  BY <1>2, <1>3, <1>4

\* What is not found among the signers did not land, or did not last.
LEMMA NotLandedForgone ==
  ASSUME Inv, History, SignerHistory, NEW r \in Requests, job[r].at = "land", job[r].op \in Roles, ~Landed(job[r])
  PROVE  Forgone(job[r].index, job[r].was)
<1>1. PICK f, i, was, k : f = job[r].op /\ i = job[r].index /\ was = job[r].was /\ k = job[r].had[f]
  OBVIOUS
<1>2. i \in Indices /\ i # 0 /\ f \in Roles /\ f \in Columns /\ f # "limit"
  BY <1>1, Kept, Constants, ConstantsAssumption DEF HolderOK
<1>3. proposal[i].standing # "ripe" /\ Seen(k, was, i)
  BY <1>1 DEF SignerHistory, JobLanding, Reads
<1>4. was \in PhoneKeys[f] /\ k \in PhoneKeys[f]
  BY <1>1, <1>2 DEF History, JobHistory, Reads, Worthy, Held
<1>5. ~(was \in signers /\ k \notin signers)
  BY <1>1, <1>2 DEF Landed
<1>6. ASSUME Executed(i), proposal[i].change.add = {was} PROVE TakenOut(was)
  <2>1. Admitted(was)
    BY <1>2, <1>6 DEF SignerHistory, ChainLanding
  <2>2. CASE was \notin signers
    BY <2>1, <2>2 DEF Admitted
  <2>3. CASE was \in signers
    <3>1. was = k
      BY <1>2, <1>4, <1>5, <2>3 DEF SignerHistory, ChainLanding, HasOne
    <3> QED
      BY <1>2, <1>3, <1>6, <3>1 DEF Seen
  <2> QED
    BY <2>2, <2>3
<1> QED
  BY <1>1, <1>3, <1>6 DEF Forgone

LEMMA FindLandedLands ==
  ASSUME Inv, Inv', History, SignerHistory, NEW r \in Requests, FindLanded(r)
  PROVE  SignerHistory'
<1>1. /\ job[r].at = "land" /\ job[r].op \in Columns /\ UNCHANGED <<database, chain>>
      /\ Outcomes = {"executed", "rejected"}
  BY DEF FindLanded, Outcomes
<1>2. CASE Finish(r)
  BY <1>1, <1>2, Rests, ReadEndLands
<1>3. CASE Conclude(r, "executed")
  BY <1>1, <1>3, ConcludeLands DEF Reads
<1>4. CASE Conclude(r, "rejected") /\ ~Landed(job[r])
  BY <1>1, <1>4, NotLandedForgone, ConcludeLands DEF Reads
<1> QED
  BY <1>2, <1>3, <1>4 DEF FindLanded

LEMMA StageLands ==
  ASSUME Inv, Inv', History, SignerHistory, NEW r \in Requests, Stage(r)
  PROVE  SignerHistory'
<1>1. PICK f, to, i : f = job[r].op /\ to = job[r].to /\ i = job[r].index
  OBVIOUS
<1>2. /\ UNCHANGED <<tip, proposal, closed, signers, limit, prepared, key, rows, told>>
      /\ staged' = [staged EXCEPT ![f] = [to |-> to, index |-> i]]
      /\ f \in Columns /\ to # None /\ i \in Indices /\ job[r].at = "stage"
  BY <1>1, Kept, Constants DEF Stage, HolderOK, Fits
<1>3. /\ job'[r].at = "announce" /\ job'[r].op = job[r].op /\ job'[r].index = job[r].index
      /\ job'[r].out = job[r].out /\ job'[r].was = job[r].was /\ job'[r].to = job[r].to
      /\ job'[r].add = job[r].add /\ job'[r].drop = job[r].drop /\ \A q \in Requests \ {r} : job'[q] = job[q]
  BY <1>1, <1>2, Kept, StagedJob DEF Stage
<1>4. JobLanding(r) /\ (f \in Roles => to \in PhoneKeys[f])
  BY <1>1, <1>2, Constants DEF History, JobHistory, Worthy, SignerHistory
<1>5. JobLanding(r)'
  BY <1>1, <1>2, <1>3, <1>4, Rests, JobLandingStays DEF Reads
<1>6. ASSUME NEW g \in Roles PROVE (key'[g] = key[g] /\ staged'[g] = staged[g]) \/ KeyLanding(g)'
  <2>1. g \in Columns /\ DOMAIN staged = Columns
    BY Kept, Constants DEF StagedOK
  <2>2. CASE g # f
    BY <1>2, <2>1, <2>2
  <2>3. CASE g = f
    <3>1. staged'[g].index = i /\ staged'[g].to = to /\ key'[g] = key[g]
      BY <1>2, <2>1, <2>3
    <3>2. ~Executed(i)
      BY <1>1, <1>2, <1>4 DEF JobLanding, Young, Executed, Reads
    <3>3. PICK k : k = key[g] /\ Admitted(k)
      BY DEF SignerHistory, KeyLanding, Seen
    <3>4. Admitted(k)' /\ ~Executed(i)'
      BY <1>2, <3>2, <3>3 DEF Admitted, TakenOut, Executed
    <3> QED
      BY <3>1, <3>3, <3>4 DEF KeyLanding, Seen, Executed, Admitted, TakenOut
  <2> QED
    BY <2>2, <2>3
<1> QED
  BY <1>2, <1>3, <1>5, <1>6, Rests, StepLands

LEMMA AnnounceLands ==
  ASSUME Inv, Inv', History, SignerHistory, NEW r \in Requests, Announce(r)
  PROVE  SignerHistory'
<1> DEFINE j == job[r]
           d == IF j.op = "recovery" THEN KeyChange(j.index) ELSE ChangeOf(j.op, j.to, j.had)
<1>1. /\ UNCHANGED <<tip, proposal, closed, signers, limit, key, staged, rows>> /\ j.at = "announce" /\ j.op \in Kinds
      /\ Propose(j.op, j.index, d) /\ (j.op \in Columns => j.to \in Fits(j.op))
  BY Kept DEF Announce, HolderOK
<1>2. RoleChange(d)
  <2>1. JobLanding(r) /\ JobHistory(r)
    BY DEF SignerHistory, History
  <2>2. j.op \in Roles => j.to \in PhoneKeys[j.op] /\ j.had[j.op] \in PhoneKeys[j.op]
    BY <1>1, <2>1 DEF JobLanding, JobHistory, Held, Reads
  <2>3. CASE j.op = "recovery"
    BY <2>3, RoleChanges
  <2>4. CASE j.op # "recovery"
    <3>1. j.op \in Columns
      BY <1>1, <2>4, Constants
    <3> QED
      BY <1>1, <2>2, <2>4, <3>1, RoleChanges
  <2> QED
    BY <2>3, <2>4
<1>3. PICK f, i, c : f = j.op /\ i = j.index /\ c = d
  OBVIOUS
<1>4. PreparedLanding'
  BY <1>1, <1>2, <1>3, ProposeLands DEF SignerHistory, Propose
<1>5. job'[r].at = "idle" /\ \A q \in Requests \ {r} : job'[q] = job[q]
  BY FinishIdles DEF Announce
<1> QED
  BY <1>1, <1>4, <1>5, Rests, QuietLands DEF Reads

\* What was installed is a key that was admitted.
LEMMA InstalledAdmitted ==
  ASSUME Inv, History, SignerHistory, NEW k \in Keys, Installed(k)
  PROVE  Admitted(k)
<1>1. PICK i \in Indices : Executed(i) /\ k \in proposal[i].change.add \cup {proposal[i].change.limit}
  BY DEF Installed, Executed
<1>2. ~(i > tip) /\ i \in Nat /\ tip \in Nat
  BY <1>1, Kept, Constants DEF History, ChainHistory, ChainOK, Executed
<1>3. proposal[i].change \in Changes
  BY <1>2, Kept DEF ChainOK
<1>4. k # proposal[i].change.limit
  BY <1>3, Constants DEF Changes
<1> QED
  BY <1>1, <1>4 DEF SignerHistory, ChainLanding

LEMMA ResolveColumnsLands ==
  ASSUME Inv, Inv', History, SignerHistory, NEW r \in Requests, ResolveColumns(r)
  PROVE  SignerHistory'
<1> DEFINE at == IF job[r].op = "limit" THEN "clear" ELSE "tell"
<1>1. PICK f, was, out : f = job[r].op /\ was = job[r].was /\ out = job[r].out
  OBVIOUS
<1>2. /\ UNCHANGED <<tip, proposal, closed, signers, limit, prepared, rows, told>>
      /\ key' = IF f \in Roles /\ out = "executed" THEN [key EXCEPT ![f] = was] ELSE key
      /\ staged' = [staged EXCEPT ![f] = NoStage] /\ GoTo(r, at) /\ job[r].at = "resolve" /\ f \in Columns
  BY <1>1, Kept DEF ResolveColumns, HolderOK
<1>3. at \in Points /\ at \in {"clear", "tell"}
  BY DEF Points
<1> HIDE DEF at
<1>4. /\ job'[r].at = at /\ job'[r].op = job[r].op /\ job'[r].index = job[r].index
      /\ job'[r].out = job[r].out /\ job'[r].was = job[r].was /\ job'[r].to = job[r].to
      /\ job'[r].add = job[r].add /\ job'[r].drop = job[r].drop /\ \A q \in Requests \ {r} : job'[q] = job[q]
  BY <1>2, <1>3, Kept, GoToHolds
<1>5. JobLanding(r) /\ JobHistory(r)
  BY DEF SignerHistory, History
<1>6. JobLanding(r)'
  BY <1>2, <1>3, <1>4, <1>5, Rests, JobLandingStays DEF Reads
<1>7. ASSUME f \in Roles, out = "executed" PROVE Admitted(was)
  <2>1. Installed(was) /\ was \in PhoneKeys[f]
    BY <1>1, <1>2, <1>5, <1>7 DEF JobHistory, Backed
  <2> QED
    BY <1>7, <2>1, Constants, InstalledAdmitted
<1>8. ASSUME NEW g \in Roles PROVE (key'[g] = key[g] /\ staged'[g] = staged[g]) \/ KeyLanding(g)'
  <2>1. g \in Columns /\ DOMAIN staged = Columns /\ DOMAIN key = Roles
    BY Kept, Constants DEF StagedOK, RowsOK
  <2>2. CASE g # f
    BY <1>2, <2>1, <2>2
  <2>3. CASE g = f
    <3>1. staged'[g].index = 0
      BY <1>2, <2>1, <2>3 DEF NoStage
    <3>2. PICK k : k = key'[g]
      OBVIOUS
    <3>3. Admitted(key[g])
      BY DEF SignerHistory, KeyLanding, Seen
    <3>4. Admitted(k)
      BY <1>2, <1>7, <2>1, <2>3, <3>2, <3>3
    <3>5. Admitted(k)'
      BY <1>2, <3>4 DEF Admitted, TakenOut
    <3> QED
      BY <3>1, <3>2, <3>5 DEF KeyLanding, Seen, Admitted, TakenOut
  <2> QED
    BY <2>2, <2>3
<1> QED
  BY <1>2, <1>4, <1>6, <1>8, Rests, StepLands

LEMMA TellOutcomeLands ==
  ASSUME Inv, Inv', History, SignerHistory, NEW r \in Requests, TellOutcome(r)
  PROVE  SignerHistory'
<1> DEFINE next == IF job[r].op = "limit" THEN "resolve" ELSE "clear"
<1>1. UNCHANGED <<tip, proposal, closed, signers, limit, prepared, key, staged, rows>> /\ job[r].at = "tell"
  BY DEF TellOutcome
<1>2. JobLanding(r)
  BY DEF SignerHistory
<1>3. CASE job[r].op = "reject"
  BY <1>1, <1>3, FinishIdles, Rests, QuietLands DEF TellOutcome, Reads
<1>4. CASE job[r].op # "reject"
  <2>1. GoTo(r, next) /\ next \in Points /\ next \in {"resolve", "clear"}
    BY <1>4 DEF TellOutcome, Points
  <2> HIDE DEF next
  <2>2. /\ job'[r].at = next /\ job'[r].op = job[r].op /\ job'[r].index = job[r].index
        /\ job'[r].out = job[r].out /\ job'[r].was = job[r].was /\ job'[r].to = job[r].to
        /\ job'[r].add = job[r].add /\ job'[r].drop = job[r].drop /\ \A q \in Requests \ {r} : job'[q] = job[q]
    BY <2>1, Kept, GoToHolds
  <2>3. JobLanding(r)'
    BY <1>1, <1>2, <2>1, <2>2, Rests, JobLandingStays DEF Reads
  <2> QED
    BY <1>1, <2>2, <2>3, Rests, StepLands
<1> QED
  BY <1>3, <1>4

LEMMA ClearLands ==
  ASSUME Inv, Inv', History, SignerHistory, NEW r \in Requests, Clear(r)
  PROVE  SignerHistory'
<1> DEFINE j == job[r]
<1>1. UNCHANGED <<tip, proposal, closed, signers, limit, key, staged, rows, told>> /\ Unprepare(j.op)
  BY DEF Clear
<1>2. PICK f : f = j.op
  OBVIOUS
<1>3. PreparedLanding'
  BY <1>1, <1>2, UnprepareLands DEF SignerHistory
<1>4. CASE j.to = None \/ tip = MaxIndex
  <2>1. job'[r].at = "idle" /\ \A q \in Requests \ {r} : job'[q] = job[q]
    BY <1>4, FinishIdles DEF Clear
  <2> QED
    BY <1>1, <1>3, <2>1, Rests, QuietLands DEF Reads
<1>5. CASE ~(j.to = None \/ tip = MaxIndex)
  <2>1. PICK i : i = tip + 1
    OBVIOUS
  <2>2. job'[r].at = "stage" /\ job'[r].index = i /\ \A q \in Requests \ {r} : job'[q] = job[q]
    BY <1>5, <2>1, BecomeGives DEF Clear, NextIndex
  <2>3. tip < MaxIndex
    BY <1>5, Kept, Constants DEF ChainOK
  <2>4. Young(i)'
    BY <1>1, <2>1, <2>3, NextIsYoung DEF Young
  <2>5. JobLanding(r)'
    BY <2>2, <2>4 DEF JobLanding, Young, Reads
  <2> QED
    BY <1>1, <1>3, <2>2, <2>5, Rests, StepLands
<1> QED
  BY <1>4, <1>5

-----------------------------------------------------------------------------
(* The steps of the recovery keys.                                           *)

LEMMA OneKeyLands ==
  ASSUME Inv, Inv', History, SignerHistory, NEW r \in Requests, NEW k \in RecoveryKeys,
         AddKey(r, k) \/ RemoveKey(r, k)
  PROVE  SignerHistory'
<1>1. UNCHANGED <<tip, proposal, closed, signers, limit, prepared, key, staged, told>>
  BY DEF AddKey, RemoveKey
<1>2. job'[r].at = "check" /\ \A q \in Requests \ {r} : job'[q] = job[q]
  BY BecomeGives DEF AddKey, RemoveKey
<1>3. \A l \in RecoveryKeys : rows'[l].status \in {"active", "pending_remove"} =>
        rows[l].status \in {"active", "pending_remove"}
  BY Kept DEF AddKey, RemoveKey, SetRow, RowsOK
<1> QED
  BY <1>1, <1>2, <1>3, Rests, QuietLands DEF Reads

LEMMA MoveContactLands ==
  ASSUME Inv, Inv', History, SignerHistory, NEW r \in Requests, NEW k \in RecoveryKeys, MoveContact(r, k)
  PROVE  SignerHistory'
<1>1. UNCHANGED <<tip, proposal, closed, signers, limit, prepared, key, staged, told>>
  BY DEF MoveContact
<1>2. PICK was : was = contact
  OBVIOUS
<1>3. DOMAIN job = Requests
  BY Kept DEF JobsOK
<1>4. job'[r].at = "retire" /\ job'[r].was = was /\ \A q \in Requests \ {r} : job'[q] = job[q]
  BY <1>2, <1>3 DEF MoveContact, Idle
<1>5. Admitted(was)
  BY <1>2, Kept, Constants DEF MoveContact, RowsOK, SignerHistory, RowsLanding
<1>6. JobLanding(r)'
  BY <1>1, <1>4, <1>5 DEF JobLanding, Admitted, TakenOut, Reads
<1>7. \A l \in RecoveryKeys : rows'[l].status \in {"active", "pending_remove"} =>
        rows[l].status \in {"active", "pending_remove"}
  BY Kept DEF MoveContact, SetRow, RowsOK
<1> QED
  BY <1>1, <1>4, <1>6, <1>7, Rests, StepLands

LEMMA RetireLands ==
  ASSUME Inv, Inv', History, SignerHistory, NEW r \in Requests, Retire(r)
  PROVE  SignerHistory'
<1>1. UNCHANGED <<tip, proposal, closed, signers, limit, prepared, key, staged, told>>
      /\ SetRow(job[r].was, "pending_remove", 0) /\ job[r].at = "retire"
  BY DEF Retire
<1>2. job'[r].at = "check" /\ \A q \in Requests \ {r} : job'[q] = job[q]
  BY Kept, GoToHolds DEF Retire, Points
<1>3. Admitted(job[r].was)
  BY <1>1 DEF SignerHistory, JobLanding
<1>4. \A l \in RecoveryKeys : rows'[l].status \in {"active", "pending_remove"} =>
        rows[l].status \in {"active", "pending_remove"} \/ Admitted(l)
  BY <1>1, <1>3, Kept DEF SetRow, RowsOK
<1> QED
  BY <1>1, <1>2, <1>4, Rests, QuietLands DEF Reads

LEMMA CheckKeysLands ==
  ASSUME Inv, Inv', History, SignerHistory, NEW r \in Requests, CheckKeys(r)
  PROVE  SignerHistory'
<1>1. UNCHANGED <<tip, proposal, closed, signers, limit, prepared, key, staged, rows, told>>
  BY DEF CheckKeys
<1>2. job'[r].at \in {"idle", "mark"} /\ \A q \in Requests \ {r} : job'[q] = job[q]
  <2>1. CASE Finish(r)
    BY <2>1, FinishIdles
  <2>2. CASE ~Finish(r)
    <3>1. job' = [job EXCEPT ![r] = [@ EXCEPT !.at = "mark", !.index = NextIndex]]
      BY <2>2 DEF CheckKeys
    <3> QED
      BY <3>1, Kept DEF JobsOK, Jobs
  <2> QED
    BY <2>1, <2>2
<1> QED
  BY <1>1, <1>2, Rests, QuietLands DEF Reads

LEMMA MarkKeyLands ==
  ASSUME Inv, Inv', History, SignerHistory, NEW r \in Requests, MarkKey(r)
  PROVE  SignerHistory'
<1>1. UNCHANGED <<tip, proposal, closed, signers, limit, prepared, key, staged, told>>
      /\ job[r].at = "mark" /\ (GoTo(r, "mark") \/ GoTo(r, "announce"))
  BY DEF MarkKey, Mark
<1>2. job[r].op = "recovery"
  BY <1>1, Kept DEF HolderOK
<1>3. /\ job'[r].at \in {"mark", "announce"} /\ job'[r].op = job[r].op /\ \A q \in Requests \ {r} : job'[q] = job[q]
  BY <1>1, Kept, GoToHolds DEF Points
<1>4. JobLanding(r)'
  BY <1>2, <1>3, Constants DEF JobLanding, Reads
<1>5. \A l \in RecoveryKeys : rows'[l].status = rows[l].status
  BY Kept DEF MarkKey, Mark, RowsOK
<1> QED
  BY <1>1, <1>3, <1>4, <1>5, Rests, StepLands

LEMMA TakeRowsLands ==
  ASSUME Inv, Inv', History, SignerHistory, NEW r \in Requests, SettleKeys(r) \/ Withdraw(r)
  PROVE  SignerHistory'
<1>1. UNCHANGED <<tip, proposal, closed, signers, limit, prepared, key, staged, rows, told>>
  BY DEF SettleKeys, Withdraw
<1>2. CASE Finish(r)
  BY <1>1, <1>2, Rests, ReadEndLands
<1>3. CASE ~Finish(r)
  <2>1. PICK f, at, i, out, n, ks : /\ TakeRows(r, f, at, i, out, ks) /\ f \in {"recovery", "reject"}
                                    /\ at \in {"follow", "rows"} /\ ks = RowsIn(n)
                                    /\ out = "executed" => KeysLanded(n)
    BY <1>3 DEF SettleKeys, Withdraw
  <2>2. PICK add, drop, to : /\ add = {k \in ks : rows[k].status = "pending_add"}
                             /\ drop = {k \in ks : rows[k].status = "pending_remove"}
                             /\ to = IF ks = {} THEN "tell" ELSE at
    OBVIOUS
  <2>3. DOMAIN job = Requests
    BY Kept DEF JobsOK
  <2>4. /\ job'[r].op = f /\ job'[r].at = to /\ job'[r].out = out /\ job'[r].add = add /\ job'[r].drop = drop
        /\ \A q \in Requests \ {r} : job'[q] = job[q]
    BY <2>1, <2>2, <2>3 DEF TakeRows, Idle
  <2>5. ks \subseteq RecoveryKeys /\ to \in {"follow", "rows", "tell"}
    BY <2>1, <2>2 DEF RowsIn
  <2>6. \A k \in drop : Admitted(k)
    BY <2>2, <2>5 DEF SignerHistory, RowsLanding
  <2>7. out = "executed" => \A k \in add : Admitted(k)
    BY <2>1, <2>2 DEF KeysLanded, Admitted
  <2>8. JobLanding(r)'
    BY <1>1, <2>1, <2>4, <2>5, <2>6, <2>7, Constants DEF JobLanding, Reads, Admitted, TakenOut
  <2> QED
    BY <1>1, <2>4, <2>8, Rests, StepLands
<1> QED
  BY <1>2, <1>3

LEMMA FollowContactLands ==
  ASSUME Inv, Inv', History, SignerHistory, NEW r \in Requests, FollowContact(r)
  PROVE  SignerHistory'
<1>1. UNCHANGED <<tip, proposal, closed, signers, limit, prepared, key, staged, rows, told>>
      /\ job[r].at = "follow" /\ GoTo(r, "rows")
  BY DEF FollowContact
<1>2. /\ job'[r].at = "rows" /\ job'[r].op = job[r].op /\ job'[r].index = job[r].index
      /\ job'[r].out = job[r].out /\ job'[r].was = job[r].was /\ job'[r].to = job[r].to
      /\ job'[r].add = job[r].add /\ job'[r].drop = job[r].drop /\ \A q \in Requests \ {r} : job'[q] = job[q]
  BY <1>1, Kept, GoToHolds DEF Points
<1>3. JobLanding(r)'
  BY <1>1, <1>2, Rests, JobLandingStays DEF SignerHistory, Reads
<1> QED
  BY <1>1, <1>2, <1>3, Rests, StepLands

\* A row is put in force only for a key that was admitted.
LEMMA WriteRowLands ==
  ASSUME Inv, Inv', History, SignerHistory, NEW r \in Requests, NEW k \in RecoveryKeys, WriteRow(r, k)
  PROVE  /\ SignerHistory'
         /\ rows'[k].status \in {"active", "pending_remove"} =>
              rows[k].status \in {"active", "pending_remove"} \/ Admitted(k)
         /\ \A l \in RecoveryKeys \ {k} : rows'[l] = rows[l]
<1>1. UNCHANGED <<tip, proposal, closed, signers, limit, prepared, key, staged, told>> /\ job[r].at = "rows"
  BY DEF WriteRow
<1>2. HolderOK(r) /\ JobLanding(r) /\ job[r].op \notin Columns
  BY <1>1, Kept, Constants DEF SignerHistory, HolderOK
<1> DEFINE at == IF job[r].add \cup job[r].drop = {k} THEN "tell" ELSE "rows"
           j == [job[r] EXCEPT !.add = @ \ {k}, !.drop = @ \ {k}, !.at = at]
<1>3. job' = [job EXCEPT ![r] = j]
  BY Kept DEF WriteRow, JobsOK, Jobs
<1>4. at \in {"rows", "tell"} /\ job[r] \in Jobs
  BY Kept
<1> HIDE DEF at
<1>5. /\ j.at = at /\ j.op = job[r].op /\ j.index = job[r].index /\ j.out = job[r].out
      /\ j.was = job[r].was /\ j.to = job[r].to
      /\ j.add \subseteq job[r].add /\ j.drop \subseteq job[r].drop
  BY <1>4 DEF Jobs
<1> HIDE DEF j
<1>6. job'[r] = j /\ \A q \in Requests \ {r} : job'[q] = job[q]
  BY <1>3, Kept DEF JobsOK
<1>7. JobLanding(r)'
  BY <1>1, <1>2, <1>4, <1>5, <1>6, Constants, Rests, JobLandingStays DEF Reads
<1>8. /\ rows'[k].status \in {"active", "pending_remove"} =>
           rows[k].status \in {"active", "pending_remove"} \/ Admitted(k)
      /\ \A l \in RecoveryKeys \ {k} : rows'[l] = rows[l]
  <2> DEFINE kept == IF job[r].out = "executed" THEN job[r].add ELSE job[r].drop
  <2>1. k \in kept => Admitted(k)
    BY <1>1, <1>2 DEF JobLanding, Reads
  <2>2. PICK row : rows' = [rows EXCEPT ![k] = row] /\ (row = rows[k] \/ row = NoRow \/ k \in kept)
    BY DEF WriteRow
  <2> QED
    BY <2>1, <2>2, Kept DEF RowsOK, NoRow
<1>9. SignerHistory'
  BY <1>1, <1>6, <1>7, <1>8, Rests, StepLands
<1> QED
  BY <1>8, <1>9

-----------------------------------------------------------------------------
(* Submissions, and what no request is in the middle of.                     *)

LEMMA RecoveryVoteLands ==
  ASSUME Inv, Inv', History, SignerHistory, NEW r \in Requests, RecoveryVote(r)
  PROVE  SignerHistory'
<1>1. PICK f, i, ks : f = job[r].op /\ i = job[r].index /\ ks = {grant[job[r].op]}
  OBVIOUS
<1>2. /\ Vote(i, ks) /\ Become(r, f, "consume", i, None) /\ UNCHANGED <<tip, closed, signers, limit>>
      /\ UNCHANGED <<prepared, key, staged, rows, told>> /\ Standing(i) = "open"
  BY <1>1 DEF RecoveryVote
<1>3. i \in 0..MaxIndex
  BY <1>1, Kept DEF Jobs
<1>4. ChainMoves /\ ChainLanding'
  BY <1>2, <1>3, VoteTurns DEF History, SignerHistory
<1>5. job'[r].at = "consume" /\ \A q \in Requests \ {r} : job'[q] = job[q]
  BY <1>2, BecomeGives
<1>6. PreparedLanding'
  BY <1>2 DEF SignerHistory, PreparedLanding
<1> QED
  BY <1>2, <1>4, <1>5, <1>6, QuietLands DEF Reads

LEMMA FinishLands ==
  ASSUME Inv, Inv', History, SignerHistory, NEW r \in Requests, ConsumeGrant(r) \/ Die(r)
  PROVE  SignerHistory'
<1>1. UNCHANGED <<tip, proposal, closed, signers, limit, prepared, key, staged, rows, told>> /\ Finish(r)
  BY DEF ConsumeGrant, Die
<1> QED
  BY <1>1, FinishIdles, Rests, QuietLands DEF Reads

LEMMA SubmitLands ==
  ASSUME Inv, Inv', History, SignerHistory, NEW r \in Requests, NEW f \in Kinds,
         SubmitPropose(r, f) \/ SubmitApprove(r, f) \/ SubmitExecute(r, f)
  PROVE  SignerHistory'
<1>1. PICK i, ks : i = prepared[f].index /\ ks = prepared[f].by
  OBVIOUS
<1>2. Become(r, f, "landed", i, None) /\ UNCHANGED <<prepared, key, staged, rows, told>>
  BY <1>1 DEF SubmitPropose, SubmitApprove, SubmitExecute
<1>3. ChainMoves /\ ChainLanding'
  <2>1. CASE SubmitPropose(r, f)
    BY <2>1, ProposeTurns DEF History, SignerHistory
  <2>2. CASE SubmitApprove(r, f)
    <3>1. i \in 0..MaxIndex
      BY <1>1, Kept, Constants DEF PreparedOK
    <3>2. Standing(i) = "open" /\ Vote(i, ks) /\ UNCHANGED <<tip, closed, signers, limit>>
      BY <1>1, <2>2 DEF SubmitApprove
    <3> QED
      BY <3>1, <3>2, VoteTurns DEF History, SignerHistory
  <2>3. CASE SubmitExecute(r, f)
    BY <2>3, ExecuteTurns DEF History, SignerHistory
  <2> QED
    BY <2>1, <2>2, <2>3
<1>4. job'[r].at = "landed" /\ \A q \in Requests \ {r} : job'[q] = job[q]
  BY <1>2, BecomeGives
<1>5. PreparedLanding'
  BY <1>2 DEF SignerHistory, PreparedLanding
<1> QED
  BY <1>2, <1>3, <1>4, <1>5, QuietLands DEF Reads

LEMMA RejectLands ==
  ASSUME Inv, Inv', History, SignerHistory, NEW r \in Requests, SubmitRejection(r)
  PROVE  SignerHistory'
<1>1. PICK i : i = prepared["reject"].index
  OBVIOUS
<1>2. /\ Become(r, "reject", "landed", i, None) /\ UNCHANGED <<prepared, key, staged, rows, told>>
      /\ Unsettled(i) /\ proposal' = [proposal EXCEPT ![i].standing = "rejected"]
      /\ UNCHANGED <<tip, closed, signers, limit>>
  BY <1>1 DEF SubmitRejection
<1>3. i \in Indices /\ i <= tip /\ i \notin closed /\ proposal[i].standing \notin Outcomes
  BY <1>2, Kept, Constants DEF Unsettled, Settled, Standing, Readable, ChainOK, Outcomes
<1>4. /\ proposal'[i].change = proposal[i].change /\ proposal'[i].standing = "rejected"
      /\ \A j \in Indices \ {i} : proposal'[j] = proposal[j]
  BY <1>2, <1>3, Kept DEF ChainOK
<1>5. ChainMoves /\ ChainLanding'
  BY <1>2, <1>3, <1>4, StandingTurns DEF History, SignerHistory
<1>6. job'[r].at = "landed" /\ \A q \in Requests \ {r} : job'[q] = job[q]
  BY <1>2, BecomeGives
<1>7. PreparedLanding'
  BY <1>2 DEF SignerHistory, PreparedLanding
<1> QED
  BY <1>2, <1>5, <1>6, <1>7, QuietLands DEF Reads

LEMMA LandingLands ==
  ASSUME Inv, Inv', History, SignerHistory, NEW r \in Requests, Landing(r)
  PROVE  SignerHistory'
<1>1. PICK f : f = job[r].op
  OBVIOUS
<1>2. UNCHANGED <<tip, proposal, closed, signers, limit, key, staged, rows, told>> /\ Unprepare(f)
  BY <1>1 DEF Landing
<1>3. job'[r].at \in {"idle", "withdraw"} /\ \A q \in Requests \ {r} : job'[q] = job[q]
  BY Kept, GoToHolds, FinishIdles DEF Landing, Points
<1>4. PreparedLanding'
  BY <1>2, UnprepareLands DEF SignerHistory
<1> QED
  BY <1>2, <1>3, <1>4, Rests, QuietLands DEF Reads

LEMMA PrepareLands ==
  ASSUME Inv, Inv', History, SignerHistory,
         (\E f \in Roles : VerifyCode(f)) \/ PrepareRejection \/ Watch \/ UNCHANGED vars
  PROVE  SignerHistory'
<1>1. UNCHANGED <<key, staged, rows, job, tip, proposal, closed, signers, limit>>
  BY DEF VerifyCode, PrepareRejection, Watch, vars
<1>2. PreparedLanding'
  <2>1. CASE PrepareRejection
    <3>1. PICK i, by : Prepare("reject", "reject", i, None, by)
      BY <2>1 DEF PrepareRejection, Prepare
    <3> QED
      BY <3>1, ProposeLands DEF SignerHistory
  <2>2. CASE (\E f \in Roles : VerifyCode(f)) \/ Watch \/ UNCHANGED vars
    <3>1. UNCHANGED prepared
      BY <2>2 DEF VerifyCode, Watch, vars
    <3> QED
      BY <3>1 DEF SignerHistory, PreparedLanding
  <2> QED
    BY <2>1, <2>2
<1> QED
  BY <1>1, <1>2, Rests, StillLands

LEMMA ChainMoveLands ==
  ASSUME Inv, Inv', History, SignerHistory, NEW i \in Indices, Ripen(i) \/ Close(i)
  PROVE  SignerHistory'
<1>1. UNCHANGED <<prepared, key, staged, rows, told, job>>
  BY DEF Ripen, Close
<1>2. ChainMoves /\ ChainLanding'
  <2>1. CASE Ripen(i)
    <3>1. /\ proposal' = [proposal EXCEPT ![i].standing = "ripe"] /\ proposal[i].standing \notin Outcomes
          /\ i <= tip /\ i \notin closed /\ UNCHANGED <<tip, closed, signers, limit>>
          /\ \A r \in Requests : Resting(r)
      BY <2>1, Kept, Constants DEF Ripen, Standing, Readable, Outcomes, ChainOK
    <3>2. /\ proposal'[i].change = proposal[i].change /\ proposal'[i].standing = "ripe"
          /\ \A j \in Indices \ {i} : proposal'[j] = proposal[j]
      BY <3>1, Kept DEF ChainOK
    <3> QED
      BY <3>1, <3>2, StandingTurns DEF History, SignerHistory
  <2>2. CASE Close(i)
    <3>1. closed \subseteq closed' /\ UNCHANGED <<tip, proposal, signers, limit>>
      BY <2>2 DEF Close
    <3> QED
      BY <3>1, ChainRests DEF History, SignerHistory
  <2> QED
    BY <2>1, <2>2
<1>3. PreparedLanding'
  BY <1>1 DEF SignerHistory, PreparedLanding
<1> QED
  BY <1>1, <1>2, <1>3, StillLands

-----------------------------------------------------------------------------

LEMMA InitLands == Init => SignerHistory
<1> SUFFICES ASSUME Init PROVE SignerHistory
  OBVIOUS
<1>1. PICK more \in Earlier :
        /\ signers = {FirstKey["device"], FirstKey["passkey"]} \cup ({FirstKey["recovery"]} \cup more)
        /\ rows = [k \in RecoveryKeys |-> IF k \in {FirstKey["recovery"]} \cup more
                                          THEN [status |-> "active", index |-> 0] ELSE NoRow]
  BY DEF Init
<1>2. {FirstKey["recovery"]} \cup more \subseteq RecoveryKeys
  BY ConstantsAssumption
<1>3. \A f \in Roles : PhoneKeys[f] \cap signers = {FirstKey[f]}
  <2> SUFFICES ASSUME NEW f \in Roles, NEW k \in PhoneKeys[f] \cap signers PROVE k = FirstKey[f]
    BY <1>1, Constants, ConstantsAssumption
  <2>1. k \notin RecoveryKeys
    BY Constants, ConstantsAssumption
  <2>2. k = FirstKey["device"] \/ k = FirstKey["passkey"]
    BY <1>1, <1>2, <2>1
  <2> QED
    BY <2>2, Constants, ConstantsAssumption
<1>4. ChainLanding
  <2>1. tip = 0 /\ \A i \in Indices : proposal[i].standing = "none"
    BY DEF Init, NoProposal
  <2>2. \A i \in Indices : ~(i <= 0)
    BY Constants
  <2> QED
    BY <1>3, <2>1, <2>2, ConstantsAssumption DEF ChainLanding, Executed, HasOne
<1>5. PreparedLanding
  BY DEF Init, PreparedLanding, NoStep
<1>6. RowsLanding
  BY <1>1 DEF RowsLanding, NoRow, Admitted
<1>7. \A f \in Roles : KeyLanding(f)
  <2>1. \A f \in Roles : key[f] \in signers /\ staged[f].index = 0
    BY <1>1, Constants DEF Init, NoStage
  <2> QED
    BY <2>1 DEF KeyLanding, Seen, Admitted
<1>8. \A r \in Requests : JobLanding(r)
  BY DEF Init, JobLanding, Idle, Reads
<1> QED
  BY <1>4, <1>5, <1>6, <1>7, <1>8 DEF SignerHistory

LEMMA StepLandsOn == ASSUME Inv, Inv', History, SignerHistory, NEW r \in Requests, Step(r) PROVE SignerHistory'
<1>1. CASE \E f \in Columns, to \in Values : Start(r, f, to)
  BY <1>1, StartLands
<1>2. CASE (\E f \in Columns, to \in Values : StartOver(r, f, to)) \/ \E f \in Kinds : Look(r, f)
  BY <1>2, LookLands
<1>3. CASE Stage(r) \/ Announce(r)
  BY <1>3, StageLands, AnnounceLands
<1>4. CASE ResolveColumns(r) \/ TellOutcome(r) \/ Clear(r)
  BY <1>4, ResolveColumnsLands, TellOutcomeLands, ClearLands
<1>5. CASE \E k \in RecoveryKeys : AddKey(r, k) \/ RemoveKey(r, k) \/ MoveContact(r, k)
  BY <1>5, OneKeyLands, MoveContactLands
<1>6. CASE Retire(r) \/ CheckKeys(r) \/ MarkKey(r)
  BY <1>6, RetireLands, CheckKeysLands, MarkKeyLands
<1>7. CASE SettleKeys(r) \/ Withdraw(r)
  BY <1>7, TakeRowsLands
<1>8. CASE FollowContact(r) \/ \E k \in RecoveryKeys : WriteRow(r, k)
  BY <1>8, FollowContactLands, WriteRowLands
<1>9. CASE RecoveryVote(r)
  BY <1>9, RecoveryVoteLands
<1>10. CASE ConsumeGrant(r) \/ Die(r)
  BY <1>10, FinishLands
<1>11. CASE \E f \in Kinds : SubmitPropose(r, f) \/ SubmitApprove(r, f) \/ SubmitExecute(r, f)
  BY <1>11, SubmitLands
<1>12. CASE Landing(r) \/ SubmitRejection(r)
  BY <1>12, LandingLands, RejectLands
<1>13. CASE FindSettled(r) \/ FindOpen(r) \/ FindNothing(r) \/ AskTip(r) \/ FindLanded(r)
  BY <1>13, FindSettledLands, FindOpenLands, FindNothingLands, AskTipLands, FindLandedLands
<1> QED
  BY <1>1, <1>2, <1>3, <1>4, <1>5, <1>6, <1>7, <1>8, <1>9, <1>10, <1>11, <1>12, <1>13 DEF Step, Begin, GoOn

LEMMA NextLands == Inv /\ Inv' /\ History /\ SignerHistory /\ [Next]_vars => SignerHistory'
<1> SUFFICES ASSUME Inv, Inv', History, SignerHistory, [Next]_vars PROVE SignerHistory'
  OBVIOUS
<1>1. CASE \E r \in Requests : Step(r)
  BY <1>1, StepLandsOn
<1>2. CASE \E i \in Indices : Ripen(i) \/ Close(i)
  BY <1>2, ChainMoveLands
<1>3. CASE (\E f \in Roles : VerifyCode(f)) \/ PrepareRejection \/ Watch \/ UNCHANGED vars
  BY <1>3, PrepareLands
<1> QED
  BY <1>1, <1>2, <1>3 DEF Next

LEMMA AlwaysLands == Spec => []SignerHistory
<1>1. Init => SignerHistory
  BY InitLands
<1>2. Inv /\ Inv' /\ History /\ SignerHistory /\ [Next]_vars => SignerHistory'
  BY NextLands
<1> QED
  BY <1>1, <1>2, AlwaysInv, AlwaysHistory, PTL DEF Spec

\* What a step tells.
Tells ==
  \A e \in told' \ told : e.what = "rejected" /\ e.kind \in Roles =>
    \/ ~ (proposal[e.index].standing = "executed" /\ proposal[e.index].change.add = {e.to})
    \/ TakenOut(e.to)

LEMMA TellOutcomeTells ==
  ASSUME Inv, SignerHistory, NEW r \in Requests, TellOutcome(r)
  PROVE  Tells
<1> DEFINE j == job[r]
<1> SUFFICES ASSUME NEW e \in told', e \notin told, e.what = "rejected", e.kind \in Roles
             PROVE  Forgone(e.index, e.to)
  BY DEF Tells, Forgone, Executed
<1>1. e.what = j.out /\ e.index = j.index /\ e.to = j.was /\ e.kind = IF j.op = "reject" THEN None ELSE j.op
  BY DEF TellOutcome, Tell
<1>2. j.op \in Roles /\ j.at = "tell"
  BY <1>1, Constants, ConstantsAssumption DEF TellOutcome
<1> QED
  BY <1>1, <1>2 DEF SignerHistory, JobLanding

LEMMA NextTells == Inv /\ SignerHistory /\ [Next]_vars => Tells
<1> SUFFICES ASSUME Inv, SignerHistory, [Next]_vars PROVE Tells
  OBVIOUS
<1>1. CASE \A e \in told' : e \in told \/ e.what = "staged"
  BY <1>1 DEF Tells
<1>2. ASSUME NEW r \in Requests, Step(r) PROVE Tells
  <2>1. CASE TellOutcome(r)
    BY <2>1, TellOutcomeTells
  <2>2. CASE Announce(r)
    BY <1>1, <2>2 DEF Announce, Tell
  <2>3. CASE \/ (\E f \in Columns, to \in Values : Start(r, f, to) \/ StartOver(r, f, to))
             \/ Stage(r) \/ (\E f \in Kinds : Look(r, f)) \/ FindSettled(r) \/ FindOpen(r)
             \/ FindNothing(r) \/ AskTip(r) \/ FindLanded(r) \/ ResolveColumns(r) \/ Clear(r)
    BY <1>1, <2>3 DEF Start, StartOver, Stage, Look, FindSettled, FindOpen, FindNothing, AskTip, FindLanded,
                      ResolveColumns, Clear, database
  <2>4. CASE \/ \E k \in RecoveryKeys : AddKey(r, k) \/ RemoveKey(r, k) \/ MoveContact(r, k) \/ WriteRow(r, k)
             \/ Retire(r) \/ CheckKeys(r) \/ MarkKey(r) \/ SettleKeys(r) \/ FollowContact(r) \/ Withdraw(r)
    BY <1>1, <2>4 DEF AddKey, RemoveKey, MoveContact, WriteRow, Retire, CheckKeys, MarkKey, SettleKeys,
                      FollowContact, Withdraw, database
  <2>5. CASE \/ RecoveryVote(r) \/ ConsumeGrant(r) \/ Landing(r) \/ SubmitRejection(r) \/ Die(r)
             \/ \E f \in Kinds : SubmitPropose(r, f) \/ SubmitApprove(r, f) \/ SubmitExecute(r, f)
    BY <1>1, <2>5 DEF RecoveryVote, ConsumeGrant, Landing, SubmitRejection, Die, SubmitPropose, SubmitApprove,
                      SubmitExecute, database
  <2> QED
    BY <1>2, <2>1, <2>2, <2>3, <2>4, <2>5 DEF Step, Begin, GoOn
<1>3. CASE (\E f \in Roles : VerifyCode(f)) \/ PrepareRejection \/ Watch
  BY <1>1, <1>3 DEF VerifyCode, PrepareRejection, Watch, Tell
<1>4. CASE (\E i \in Indices : Ripen(i) \/ Close(i)) \/ UNCHANGED vars
  BY <1>1, <1>4 DEF Ripen, Close, database, vars
<1> QED
  BY <1>2, <1>3, <1>4 DEF Next

\* A rotation is told as rejected only when it has not landed by then, or when another
\* executed change took the new key out again, even if its proposal was closed before
\* anybody settled it, and although the row, the proposal, the tip and the signers are
\* read one after the other (settleOrRefuse, resolveWithoutProposal): a rotation takes
\* out one key of the role and adds one, so the key on file when the row was read and
\* the new one are never signers together.
THEOREM LandedRotationsAreToldTruly == Spec => RotationsAreRejectedTruly
<1>1. Inv /\ SignerHistory /\ [Next]_vars =>
        [\A e \in told' \ told : e.what = "rejected" /\ e.kind \in Roles =>
           \/ ~ (proposal[e.index].standing = "executed" /\ proposal[e.index].change.add = {e.to})
           \/ TakenOut(e.to)]_vars
  BY NextTells DEF Tells
<1> QED
  BY <1>1, AlwaysInv, AlwaysLands, PTL DEF Spec, RotationsAreRejectedTruly

-----------------------------------------------------------------------------
(* What a step commits.                                                      *)

Commits ==
  /\ \A f \in Roles : key'[f] # key[f] =>
       (key'[f] \in signers /\ key[f] \notin signers) \/ TakenOut(key'[f])
  /\ \A k \in RecoveryKeys : rows[k].status = "pending_add" /\ rows'[k].status = "active" =>
       k \in signers \/ TakenOut(k)

\* A key is committed for a rotation only in one place.
LEMMA ResolveColumnsCommits ==
  ASSUME Inv, History, SignerHistory, NEW r \in Requests, ResolveColumns(r)
  PROVE  Commits
<1> SUFFICES ASSUME NEW f \in Roles, key'[f] # key[f]
             PROVE  (key'[f] \in signers /\ key[f] \notin signers) \/ TakenOut(key'[f])
  BY DEF ResolveColumns, Commits
<1>1. PICK was, k : was = key[f] /\ k = key'[f]
  OBVIOUS
<1>2. job[r].op = f /\ job[r].out = "executed" /\ job[r].at = "resolve" /\ k = job[r].was
  BY <1>1, Kept DEF ResolveColumns, RowsOK
<1>3. Installed(k) /\ k \in PhoneKeys[f]
  BY <1>2, Constants DEF History, JobHistory, Backed
<1>4. Admitted(k)
  BY <1>3, Constants, InstalledAdmitted
<1>5. was \in PhoneKeys[f]
  BY <1>1 DEF History, KeyHistory, Held
<1>6. k \in signers => was \notin signers
  BY <1>1, <1>3, <1>5 DEF SignerHistory, ChainLanding, HasOne
<1> QED
  BY <1>1, <1>4, <1>6 DEF Admitted

LEMMA RowCommits ==
  ASSUME Inv, NEW r \in Requests, NEW k \in RecoveryKeys,
         AddKey(r, k) \/ RemoveKey(r, k) \/ MoveContact(r, k) \/ Retire(r) \/ MarkKey(r)
  PROVE  Commits
<1>1. key' = key
  BY DEF AddKey, RemoveKey, MoveContact, Retire, MarkKey
<1>2. \A l \in RecoveryKeys : rows'[l].status # "active" \/ rows'[l].status = rows[l].status
  <2>1. CASE MarkKey(r)
    BY <2>1, Kept DEF MarkKey, Mark, RowsOK
  <2>2. PICK l, status : ~MarkKey(r) => SetRow(l, status, 0) /\ status \in {"pending_add", "pending_remove"}
    BY DEF AddKey, RemoveKey, MoveContact, Retire
  <2> QED
    BY <2>1, <2>2, Kept DEF SetRow, RowsOK
<1> QED
  BY <1>1, <1>2 DEF Commits

LEMMA WriteRowCommits ==
  ASSUME Inv, Inv', History, SignerHistory, NEW r \in Requests, NEW k \in RecoveryKeys, WriteRow(r, k)
  PROVE  Commits
<1>1. key' = key
  BY DEF WriteRow
<1>2. \A l \in RecoveryKeys : rows[l].status = "pending_add" /\ rows'[l].status = "active" => Admitted(l)
  BY WriteRowLands
<1> QED
  BY <1>1, <1>2 DEF Commits, Admitted

LEMMA NextCommits == Inv /\ Inv' /\ History /\ SignerHistory /\ [Next]_vars => Commits
<1> SUFFICES ASSUME Inv, Inv', History, SignerHistory, [Next]_vars PROVE Commits
  OBVIOUS
<1>1. CASE UNCHANGED <<key, rows>>
  BY <1>1 DEF Commits
<1>2. ASSUME NEW r \in Requests, Step(r) PROVE Commits
  <2>1. CASE ResolveColumns(r)
    BY <2>1, ResolveColumnsCommits
  <2>2. CASE \E k \in RecoveryKeys : \/ AddKey(r, k) \/ RemoveKey(r, k) \/ MoveContact(r, k)
    BY <2>2, RowCommits
  <2>3. CASE Retire(r) \/ MarkKey(r)
    <3>1. RecoveryKeys # {}
      BY Kept, Constants DEF RowsOK
    <3> QED
      BY <2>3, <3>1, RowCommits
  <2>4. CASE \E k \in RecoveryKeys : WriteRow(r, k)
    BY <2>4, WriteRowCommits
  <2>5. CASE \/ (\E f \in Columns, to \in Values : Start(r, f, to) \/ StartOver(r, f, to))
             \/ Stage(r) \/ Announce(r) \/ TellOutcome(r) \/ (\E f \in Kinds : Look(r, f))
             \/ FindSettled(r) \/ FindOpen(r) \/ FindNothing(r) \/ AskTip(r) \/ FindLanded(r)
    BY <1>1, <2>5 DEF Start, StartOver, Stage, Announce, TellOutcome, Look, FindSettled, FindOpen, FindNothing,
                      AskTip, FindLanded, database
  <2>6. CASE Clear(r) \/ CheckKeys(r) \/ SettleKeys(r) \/ FollowContact(r) \/ ConsumeGrant(r)
             \/ Landing(r) \/ Withdraw(r) \/ Die(r)
    BY <1>1, <2>6 DEF Clear, CheckKeys, SettleKeys, FollowContact, ConsumeGrant, Landing, Withdraw, Die, database
  <2>7. CASE \/ RecoveryVote(r) \/ SubmitRejection(r)
             \/ \E f \in Kinds : SubmitPropose(r, f) \/ SubmitApprove(r, f) \/ SubmitExecute(r, f)
    BY <1>1, <2>7 DEF RecoveryVote, SubmitRejection, SubmitPropose, SubmitApprove, SubmitExecute, database
  <2> QED
    BY <1>2, <2>1, <2>2, <2>3, <2>4, <2>5, <2>6, <2>7 DEF Step, Begin, GoOn
<1>3. CASE (\E f \in Roles : VerifyCode(f)) \/ PrepareRejection \/ Watch
  BY <1>1, <1>3 DEF VerifyCode, PrepareRejection, Watch
<1>4. CASE (\E i \in Indices : Ripen(i) \/ Close(i)) \/ UNCHANGED vars
  BY <1>1, <1>4 DEF Ripen, Close, database, vars
<1> QED
  BY <1>2, <1>3, <1>4 DEF Next

\* A device or a passkey is put on file, and a recovery row in force, only for a key
\* that is among the signers or was taken out again by an executed change, and then in
\* the place of one that is not: a settled proposal is checked against the signers
\* before its change is committed (assertLanded, rotationLanded).
THEOREM CommitsFollowTheChain == Spec => CommitsWhatLanded
<1>1. Inv /\ Inv' /\ History /\ SignerHistory /\ [Next]_vars =>
        [/\ \A f \in Roles : key'[f] # key[f] =>
              (key'[f] \in signers /\ key[f] \notin signers) \/ TakenOut(key'[f])
         /\ \A k \in RecoveryKeys : rows[k].status = "pending_add" /\ rows'[k].status = "active" =>
              k \in signers \/ TakenOut(k)]_vars
  BY NextCommits DEF Commits
<1> QED
  BY <1>1, AlwaysInv, AlwaysHistory, AlwaysLands, PTL DEF Spec, CommitsWhatLanded

\* A recovery row in force, or awaiting its removal, names a key that the chain holds or
\* that an executed change took out: the rows are provisioned as the first signers and
\* settled by what was found on chain (next of recovery-change).
RowsFollowTheChain ==
  \A k \in RecoveryKeys : rows[k].status \in {"active", "pending_remove"} => k \in signers \/ TakenOut(k)

THEOREM RecoveryRowsFollowTheChain == Spec => []RowsFollowTheChain
<1>1. SignerHistory => RowsFollowTheChain
  BY DEF SignerHistory, RowsLanding, Admitted, RowsFollowTheChain
<1> QED
  BY <1>1, AlwaysLands, PTL

\* The Settings hold one device key and one passkey at any time: every rotation that
\* was proposed takes out one key for the one it adds (PrimaryRotationService.build), no
\* other change touches either, and a proposal made against an older set of signers is
\* refused where that key is gone.
OneSignerOfARole == \A f \in Roles : \E k \in PhoneKeys[f] : PhoneKeys[f] \cap signers = {k}

THEOREM RotationsReplace == Spec => []OneSignerOfARole
<1>1. SignerHistory => OneSignerOfARole
  BY DEF SignerHistory, ChainLanding, HasOne, OneSignerOfARole
<1> QED
  BY <1>1, AlwaysLands, PTL

-----------------------------------------------------------------------------
(* AccountChanges implements SettingsPromise.                                *)

Holders == [f \in Roles |-> CHOOSE k \in PhoneKeys[f] : k \in signers]
Added == UNION {c.add \cup ({c.limit} \ {None}) : c \in Executions}
Removed == UNION {c.drop : c \in Executions}
Reported == {e.to : e \in {x \in told : x.what = "executed" /\ x.kind \in Columns}}

LEMMA HolderIs ==
  ASSUME SignerHistory, NEW f \in Roles
  PROVE  Holders[f] \in PhoneKeys[f] /\ PhoneKeys[f] \cap signers = {Holders[f]}
<1>1. PICK k \in PhoneKeys[f] : PhoneKeys[f] \cap signers = {k}
  BY DEF SignerHistory, ChainLanding, HasOne
<1>2. (CHOOSE x \in PhoneKeys[f] : x \in signers) = k
  BY <1>1
<1> QED
  BY <1>1, <1>2 DEF Holders

\* What does not execute a change leaves the Settings alone.
Still(j) == proposal'[j] = proposal[j] \/ (~Executed(j) /\ proposal'[j].standing # "executed")

LEMMA OneProposal ==
  ASSUME Inv, NEW i \in Indices, NEW p, proposal' = [proposal EXCEPT ![i] = p],
         ~Executed(i), p.standing # "executed"
  PROVE  \A j \in Indices : Still(j)
  BY Kept DEF ChainOK, Still

LEMMA VoteStill ==
  ASSUME Inv, NEW i \in 0..MaxIndex, Standing(i) = "open", NEW ks, Vote(i, ks)
  PROVE  \A j \in Indices : Still(j)
<1>1. i \in Indices /\ ~Executed(i)
  BY Kept, StandingHolds DEF Standing, Readable, Executed
<1>2. PICK p : proposal' = [proposal EXCEPT ![i] = p] /\ p.standing \in {"approved", "open"}
  <2> DEFINE p == [proposal[i] EXCEPT !.votes = proposal[i].votes \cup ks,
                     !.standing = IF Cardinality(proposal[i].votes \cup ks) >= Threshold
                                  THEN "approved" ELSE "open"]
  <2>1. proposal' = [proposal EXCEPT ![i] = p]
    BY <1>1, Kept DEF Vote, ChainOK
  <2>2. p.standing \in {"approved", "open"}
    BY <1>1, Kept DEF ChainOK
  <2> QED
    BY <2>1, <2>2
<1> QED
  BY <1>1, <1>2, OneProposal

LEMMA ExecutionsAre ==
  /\ \A c : c \in Executions <=> \E i \in Indices : Executed(i) /\ c = proposal[i].change
  /\ \A v : v # None /\ Installed(v) => v \in Added
  /\ \A k : TakenOut(k) => k \in Removed
<1>1. \A c : c \in Executions <=> \E i \in Indices : Executed(i) /\ c = proposal[i].change
  BY DEF Executions, Executed
<1>2. ASSUME NEW v, v # None, Installed(v) PROVE v \in Added
  <2>1. PICK i \in Indices : Executed(i) /\ v \in proposal[i].change.add \cup {proposal[i].change.limit}
    BY <1>2 DEF Installed, Executed
  <2>2. proposal[i].change \in Executions
    BY <1>1, <2>1
  <2> QED
    BY <1>2, <2>1, <2>2 DEF Added
<1>3. ASSUME NEW k, TakenOut(k) PROVE k \in Removed
  <2>1. PICK i \in Indices : Executed(i) /\ k \in proposal[i].change.drop
    BY <1>3 DEF TakenOut, Executed
  <2> QED
    BY <1>1, <2>1 DEF Removed
<1> QED
  BY <1>1, <1>2, <1>3

\* The Settings as the promise sees them.
Settings == <<Holders, signers \cap RecoveryKeys, limit, Added, Removed>>

LEMMA SettingsStay ==
  ASSUME UNCHANGED <<signers, limit>>, \A j \in Indices : Still(j)
  PROVE  UNCHANGED Settings
<1>1. Executions' = Executions
  <2>1. \A j \in Indices : Executed(j)' <=> Executed(j)
    BY DEF Still, Executed
  <2>2. \A j \in Indices : Executed(j) => proposal'[j].change = proposal[j].change
    BY DEF Still, Executed
  <2>3. {j \in Indices : proposal'[j].standing = "executed"} = {j \in Indices : proposal[j].standing = "executed"}
    BY <2>1 DEF Executed
  <2> QED
    BY <2>2, <2>3 DEF Executions, Executed
<1>2. Holders' = Holders
  BY DEF Holders
<1> QED
  BY <1>1, <1>2 DEF Settings, Added, Removed

LEMMA MovesStill ==
  ASSUME Inv, History, [Next]_vars, ~\E r \in Requests, f \in Kinds : SubmitExecute(r, f)
  PROVE  UNCHANGED <<signers, limit>> /\ \A j \in Indices : Still(j)
<1>1. CASE UNCHANGED <<proposal, signers, limit>>
  BY <1>1 DEF Still
<1>2. ASSUME NEW r \in Requests, NEW f \in Kinds, SubmitPropose(r, f)
      PROVE  UNCHANGED <<signers, limit>> /\ \A j \in Indices : Still(j)
  <2>1. /\ NextIndex = prepared[f].index /\ UNCHANGED <<signers, limit>>
        /\ proposal' = [proposal EXCEPT ![NextIndex] =
                          [change |-> prepared[f].change, votes |-> {}, standing |-> "open"]]
    BY <1>2 DEF SubmitPropose
  <2>2. NextIndex \in Indices /\ NextIndex > tip
    BY <2>1, Kept, Constants DEF NextIndex, ChainOK, PreparedOK
  <2>3. ~Executed(NextIndex)
    BY <2>2 DEF History, ChainHistory, Executed
  <2>4. PICK i, p : i = NextIndex /\ p.standing = "open" /\ proposal' = [proposal EXCEPT ![i] = p]
    BY <2>1
  <2> QED
    BY <2>1, <2>2, <2>3, <2>4, OneProposal
<1>3. ASSUME NEW r \in Requests, NEW f \in Kinds, SubmitApprove(r, f)
      PROVE  UNCHANGED <<signers, limit>> /\ \A j \in Indices : Still(j)
  <2>1. prepared[f].index \in 0..MaxIndex
    BY Kept, Constants DEF PreparedOK
  <2> QED
    BY <1>3, <2>1, VoteStill DEF SubmitApprove
<1>4. ASSUME NEW r \in Requests, RecoveryVote(r)
      PROVE  UNCHANGED <<signers, limit>> /\ \A j \in Indices : Still(j)
  <2>1. job[r].index \in 0..MaxIndex
    BY Kept DEF Jobs
  <2> QED
    BY <1>4, <2>1, VoteStill DEF RecoveryVote
<1>5. ASSUME NEW r \in Requests, SubmitRejection(r)
      PROVE  UNCHANGED <<signers, limit>> /\ \A j \in Indices : Still(j)
  <2>1. PICK i : i = prepared["reject"].index
    OBVIOUS
  <2>2. /\ Unsettled(i) /\ proposal' = [proposal EXCEPT ![i].standing = "rejected"]
        /\ UNCHANGED <<signers, limit>>
    BY <1>5, <2>1 DEF SubmitRejection
  <2>3. i \in 0..MaxIndex
    BY <2>1, Kept, Constants DEF PreparedOK
  <2>4. i \in Indices /\ ~Executed(i)
    BY <2>2, <2>3, Kept, Constants DEF Unsettled, Settled, Standing, Readable, Executed, ChainOK
  <2>5. PICK p : proposal' = [proposal EXCEPT ![i] = p] /\ p.standing = "rejected"
    <3>1. [proposal[i] EXCEPT !.standing = "rejected"].standing = "rejected"
      BY <2>4, Kept DEF ChainOK
    <3> QED
      BY <2>2, <3>1
  <2> QED
    BY <2>2, <2>4, <2>5, OneProposal
<1>6. ASSUME NEW i \in Indices, Ripen(i)
      PROVE  UNCHANGED <<signers, limit>> /\ \A j \in Indices : Still(j)
  <2>1. Standing(i) = "approved" /\ proposal' = [proposal EXCEPT ![i].standing = "ripe"] /\ UNCHANGED <<signers, limit>>
    BY <1>6 DEF Ripen
  <2>2. ~Executed(i)
    BY <2>1 DEF Standing, Executed
  <2>3. PICK p : proposal' = [proposal EXCEPT ![i] = p] /\ p.standing = "ripe"
    <3>1. [proposal[i] EXCEPT !.standing = "ripe"].standing = "ripe"
      BY Kept DEF ChainOK
    <3> QED
      BY <2>1, <3>1
  <2> QED
    BY <2>1, <2>2, <2>3, OneProposal
<1>7. ASSUME NEW r \in Requests, Step(r)
      PROVE  UNCHANGED <<signers, limit>> /\ \A j \in Indices : Still(j)
  <2>1. CASE \E f \in Kinds : SubmitPropose(r, f) \/ SubmitApprove(r, f) \/ SubmitExecute(r, f)
    BY <2>1, <1>2, <1>3
  <2>2. CASE SubmitRejection(r) \/ RecoveryVote(r)
    BY <2>2, <1>4, <1>5
  <2>3. CASE \/ (\E f \in Columns, to \in Values : Start(r, f, to) \/ StartOver(r, f, to))
             \/ Stage(r) \/ Announce(r) \/ (\E f \in Kinds : Look(r, f)) \/ FindSettled(r) \/ FindOpen(r)
             \/ FindNothing(r) \/ AskTip(r) \/ FindLanded(r) \/ ResolveColumns(r) \/ TellOutcome(r)
    BY <1>1, <2>3 DEF Start, StartOver, Stage, Announce, Look, FindSettled, FindOpen, FindNothing, AskTip,
                      FindLanded, ResolveColumns, TellOutcome, chain
  <2>4. CASE \/ Clear(r) \/ (\E k \in RecoveryKeys : AddKey(r, k) \/ RemoveKey(r, k) \/ MoveContact(r, k))
             \/ Retire(r) \/ CheckKeys(r) \/ MarkKey(r) \/ SettleKeys(r)
    BY <1>1, <2>4 DEF Clear, AddKey, RemoveKey, MoveContact, Retire, CheckKeys, MarkKey, SettleKeys, chain
  <2>5. CASE \/ FollowContact(r) \/ (\E k \in RecoveryKeys : WriteRow(r, k)) \/ ConsumeGrant(r)
             \/ Landing(r) \/ Withdraw(r) \/ Die(r)
    BY <1>1, <2>5 DEF FollowContact, WriteRow, ConsumeGrant, Landing, Withdraw, Die, chain
  <2> QED
    BY <1>7, <2>1, <2>2, <2>3, <2>4, <2>5 DEF Step, Begin, GoOn
<1>8. CASE \/ (\E f \in Roles : VerifyCode(f)) \/ PrepareRejection \/ Watch
           \/ (\E i \in Indices : Close(i)) \/ UNCHANGED vars
  BY <1>1, <1>8 DEF VerifyCode, PrepareRejection, Watch, Close, vars, chain
<1> QED
  BY <1>6, <1>7, <1>8 DEF Next

\* An execution is a rotation, a recovery change or a change of the limit.
LEMMA ExecutionChanges ==
  ASSUME Inv, Inv', History, SignerHistory, SignerHistory',
         NEW r \in Requests, NEW f \in Kinds, SubmitExecute(r, f)
  PROVE  \E c : /\ c \in Changes /\ RoleChange(c)
                /\ c.drop \subseteq signers /\ c.add \cap signers = {}
                /\ signers' = (signers \ c.drop) \cup c.add
                /\ limit' = IF c.limit = None THEN limit ELSE c.limit
                /\ Added' = Added \cup (c.add \cup ({c.limit} \ {None}))
                /\ Removed' = Removed \cup c.drop
<1>1. PICK i, c : i = prepared[f].index /\ c = proposal[i].change
  OBVIOUS
<1>2. /\ Standing(i) = "ripe" /\ proposal' = [proposal EXCEPT ![i].standing = "executed"]
      /\ c.drop \subseteq signers /\ c.add \cap signers = {}
      /\ signers' = (signers \ c.drop) \cup c.add
      /\ limit' = IF c.limit = None THEN limit ELSE c.limit
  BY <1>1 DEF SubmitExecute
<1>3. i \in 0..MaxIndex
  BY <1>1, Kept, Constants DEF PreparedOK
<1>4. i \in Indices /\ i <= tip /\ ~Executed(i)
  BY <1>2, <1>3, Kept, StandingHolds DEF Standing, Readable, Executed
<1>5. c \in Changes /\ RoleChange(c)
  BY <1>1, <1>4, Kept DEF ChainOK, SignerHistory, ChainLanding
<1>6. /\ \A j \in Indices \ {i} : proposal'[j] = proposal[j]
      /\ proposal'[i].standing = "executed" /\ proposal'[i].change = c
  BY <1>1, <1>2, <1>4, Kept DEF ChainOK
<1>7. Executions' = Executions \cup {c}
  <2>1. {j \in Indices : proposal'[j].standing = "executed"} = {j \in Indices : proposal[j].standing = "executed"} \cup {i}
    BY <1>4, <1>6
  <2>2. \A j \in Indices : Executed(j) => proposal'[j].change = proposal[j].change
    BY <1>4, <1>6
  <2> QED
    BY <1>6, <2>1, <2>2 DEF Executions, Executed
<1>8. Added' = Added \cup (c.add \cup ({c.limit} \ {None}))
  BY <1>7 DEF Added
<1>9. Removed' = Removed \cup c.drop
  BY <1>7 DEF Removed
<1> QED
  BY <1>2, <1>5, <1>8, <1>9

\* What we know rests while the Account changes.
LEMMA KnownRests ==
  ASSUME UNCHANGED <<key, rows, told>>
  PROVE  UNCHANGED <<key, Backing, Reported>>
  BY DEF Backing, Reported

LEMMA ExecutionIsAStep ==
  ASSUME Inv, Inv', History, SignerHistory, SignerHistory',
         NEW r \in Requests, NEW f \in Kinds, SubmitExecute(r, f)
  PROVE  Promise!Next
<1>1. UNCHANGED <<key, Backing, Reported>>
  BY KnownRests DEF SubmitExecute
<1>2. PICK c : /\ c \in Changes /\ RoleChange(c)
               /\ c.drop \subseteq signers /\ c.add \cap signers = {}
               /\ signers' = (signers \ c.drop) \cup c.add
               /\ limit' = IF c.limit = None THEN limit ELSE c.limit
               /\ Added' = Added \cup (c.add \cup ({c.limit} \ {None}))
               /\ Removed' = Removed \cup c.drop
  BY ExecutionChanges
<1>3. /\ \A g \in Roles : Holders[g] \in PhoneKeys[g] /\ PhoneKeys[g] \cap signers = {Holders[g]}
      /\ \A g \in Roles : Holders'[g] \in PhoneKeys[g] /\ PhoneKeys[g] \cap signers' = {Holders'[g]}
      /\ Holders = [g \in Roles |-> Holders[g]] /\ Holders' = [g \in Roles |-> Holders'[g]]
  <2>1. \A g \in Roles : Holders'[g] \in PhoneKeys[g] /\ PhoneKeys[g] \cap signers' = {Holders'[g]}
    <3> SUFFICES ASSUME NEW g \in Roles
                 PROVE  Holders'[g] \in PhoneKeys[g] /\ PhoneKeys[g] \cap signers' = {Holders'[g]}
      OBVIOUS
    <3>1. PICK k \in PhoneKeys[g] : PhoneKeys[g] \cap signers' = {k}
      BY DEF SignerHistory, ChainLanding, HasOne
    <3>2. (CHOOSE x \in PhoneKeys[g] : x \in signers') = k
      BY <3>1
    <3> QED
      BY <3>1, <3>2 DEF Holders
  <2>2. Holders = [g \in Roles |-> Holders[g]] /\ Holders' = [g \in Roles |-> Holders'[g]]
    BY DEF Holders
  <2> QED
    BY <2>1, <2>2, HolderIs
<1>4. ASSUME NEW g \in Roles, (c.add \cup c.drop) \cap PhoneKeys[g] = {} PROVE Holders'[g] = Holders[g]
  <2>1. PhoneKeys[g] \cap signers' = PhoneKeys[g] \cap signers
    BY <1>2, <1>4
  <2> QED
    BY <1>3, <2>1
<1>5. CASE \E g \in Roles : \E k, to \in PhoneKeys[g] : c.add = {to} /\ c.drop = {k}
  <2>0. PICK g \in Roles : \E k, to \in PhoneKeys[g] : c.add = {to} /\ c.drop = {k}
    BY <1>5
  <2>1. PICK k, to \in PhoneKeys[g] : c.add = {to} /\ c.drop = {k}
    BY <2>0
  <2>2. k = Holders[g] /\ to = Holders'[g] /\ to # k
    BY <1>2, <1>3, <2>1
  <2>3. \A h \in Roles \ {g} : Holders'[h] = Holders[h]
    BY <1>4, <2>1, Constants, ConstantsAssumption
  <2>4. Holders' = [Holders EXCEPT ![g] = to]
    BY <1>3, <2>2, <2>3
  <2>5. signers' \cap RecoveryKeys = signers \cap RecoveryKeys
    BY <1>2, <2>1, Constants, ConstantsAssumption
  <2>6. CASE c.limit = None
    <3>1. limit' = limit /\ Added' = Added \cup {to} /\ Removed' = Removed \cup {k}
      BY <1>2, <2>1, <2>6
    <3>2. Promise!Rotate(g, to)
      BY <1>1, <2>2, <2>4, <2>5, <3>1
      DEF Promise!Rotate, Promise!Change, Holders, Added, Removed, Reported
    <3> QED
      BY <2>1, <3>2 DEF Promise!Next, Promise!Roles, Roles
  <2>7. CASE c.limit # None
    <3>1. c.limit \in Limits
      BY <1>2, <2>7 DEF Changes
    <3>2. limit' = c.limit /\ Added' = Added \cup {to, c.limit} /\ Removed' = Removed \cup {k}
      BY <1>2, <2>1, <2>7
    <3>3. Promise!Rotate(g, to)
      BY <1>1, <2>2, <2>4, <2>5, <3>1, <3>2
      DEF Promise!Rotate, Promise!Change, Holders, Added, Removed, Reported
    <3> QED
      BY <2>1, <3>3 DEF Promise!Next, Promise!Roles, Roles
  <2> QED
    BY <2>6, <2>7
<1>6. CASE c.add \cup c.drop \subseteq RecoveryKeys
  <2>1. Holders' = Holders
    <3>1. \A g \in Roles : Holders'[g] = Holders[g]
      BY <1>4, <1>6, Constants, ConstantsAssumption
    <3> QED
      BY <1>3, <3>1
  <2>2. CASE c.limit = None
    <3>1. PICK keys : keys = signers' \cap RecoveryKeys
      OBVIOUS
    <3>2. /\ keys \ (signers \cap RecoveryKeys) = c.add
          /\ (signers \cap RecoveryKeys) \ keys = c.drop
      BY <1>2, <1>6, <3>1
    <3>3. limit' = limit /\ Added' = Added \cup c.add /\ Removed' = Removed \cup c.drop
      BY <1>2, <2>2
    <3>4. Promise!Recover(keys)
      BY <1>1, <2>1, <3>1, <3>2, <3>3
      DEF Promise!Recover, Promise!Change, Holders, Added, Removed, Reported
    <3> QED
      BY <3>1, <3>4 DEF Promise!Next
  <2>3. CASE c.add = {} /\ c.drop = {} /\ c.limit \in Limits
    <3>1. /\ signers' \cap RecoveryKeys = signers \cap RecoveryKeys
          /\ limit' = c.limit /\ Added' = Added \cup {c.limit} /\ Removed' = Removed \cup {}
      BY <1>2, <2>3, Constants
    <3>2. Promise!Restrict(c.limit)
      BY <1>1, <2>1, <3>1
      DEF Promise!Restrict, Promise!Change, Holders, Added, Removed, Reported
    <3> QED
      BY <2>3, <3>2 DEF Promise!Next
  <2> QED
    BY <1>2, <1>5, <2>2, <2>3 DEF RoleChange
<1> QED
  BY <1>2, <1>5, <1>6 DEF RoleChange

\* What is put on file for a rotation was installed, and is there or was taken out.
LEMMA FileIsAStep ==
  ASSUME Inv, History, SignerHistory, UNCHANGED Settings, NEW r \in Requests, ResolveColumns(r)
  PROVE  Promise!Next \/ UNCHANGED Promise!promise
<1>1. PICK f, was : f = job[r].op /\ was = job[r].was
  OBVIOUS
<1>2. UNCHANGED <<Backing, Reported>>
  BY DEF ResolveColumns, Backing, Reported
<1>3. CASE key' = key
  BY <1>2, <1>3 DEF Promise!promise, Promise!settings, Settings, Holders, Added, Removed, Reported
<1>4. CASE key' # key
  <2>1. /\ f \in Roles /\ job[r].out = "executed" /\ job[r].at = "resolve"
        /\ key' = [key EXCEPT ![f] = was]
    BY <1>1, <1>4 DEF ResolveColumns
  <2>2. Installed(was) /\ was \in PhoneKeys[f]
    BY <1>1, <2>1, Constants DEF History, JobHistory, Backed
  <2>3. was \in signers \/ was \in Removed
    BY <2>1, <2>2, Constants, InstalledAdmitted, ExecutionsAre DEF Admitted
  <2>4. was = Holders[f] \/ was \in Removed
    BY <2>1, <2>2, <2>3, HolderIs
  <2>5. was \in Added
    BY <2>1, <2>2, Constants, ExecutionsAre
  <2>6. Promise!File(f, was)
    BY <1>2, <2>1, <2>4, <2>5 DEF Promise!File, Promise!settings, Settings, Holders, Added, Removed, Reported
  <2> QED
    BY <2>1, <2>2, <2>6 DEF Promise!Next, Promise!Roles, Roles
<1> QED
  BY <1>3, <1>4

\* What is reported as executed was installed.
LEMMA ReportIsAStep ==
  ASSUME Inv, History, UNCHANGED Settings, NEW r \in Requests, TellOutcome(r)
  PROVE  Promise!Next
<1>1. PICK f, was, kind : f = job[r].op /\ was = job[r].was /\ kind = IF f = "reject" THEN None ELSE f
  OBVIOUS
<1>2. UNCHANGED <<key, Backing>>
  BY DEF TellOutcome, Backing
<1>3. /\ told \subseteq told'
      /\ \A e \in told' : e \in told \/ (e.what = job[r].out /\ e.kind = kind /\ e.to = was)
  BY <1>1 DEF TellOutcome, Tell
<1>4. ASSUME NEW e \in told', e \notin told, e.what = "executed", e.kind \in Columns
      PROVE  e.to \in Added
  <2>1. /\ job[r].at = "tell" /\ job[r].out = "executed" /\ f \in Columns /\ e.to = was
    BY <1>1, <1>3, <1>4, Constants, ConstantsAssumption DEF TellOutcome
  <2>2. was \in Fits(f)
    BY <1>1, <2>1, Kept DEF HolderOK
  <2>3. was # None
    BY <2>2, Constants DEF Fits
  <2>4. Installed(was)
    BY <1>1, <2>1 DEF History, JobHistory, Backed
  <2> QED
    BY <2>1, <2>3, <2>4, ExecutionsAre
<1>5. Reported \subseteq Reported'
  BY <1>3 DEF Reported
<1>6. Reported' \subseteq Reported \cup Added
  BY <1>4 DEF Reported
<1>7. Promise!Report
  BY <1>2, <1>5, <1>6 DEF Promise!Report, Promise!settings, Settings, Holders, Added, Removed, Reported
<1> QED
  BY <1>7 DEF Promise!Next

\* The notice of a change that waits reports nothing.
LEMMA NoticeIsSilent ==
  ASSUME UNCHANGED Settings,
         (\E r \in Requests : Announce(r)) \/ Watch
  PROVE  UNCHANGED Promise!promise
<1>1. PICK i, kind, to : Tell("staged", i, kind, to)
  BY DEF Announce, Watch
<1>2. Reported' = Reported
  BY <1>1 DEF Tell, Reported
<1>3. UNCHANGED <<key, Backing>>
  BY DEF Announce, Watch, Backing
<1> QED
  BY <1>2, <1>3 DEF Promise!promise, Promise!settings, Settings, Holders, Added, Removed, Reported

\* The rows in force gain or lose one key at a time.
LEMMA RowIsAStep ==
  ASSUME SignerHistory', UNCHANGED Settings, UNCHANGED <<key, told>>, NEW k \in RecoveryKeys,
         \A l \in RecoveryKeys \ {k} : rows'[l].status = rows[l].status
  PROVE  Promise!Next \/ UNCHANGED Promise!promise
<1>1. UNCHANGED Reported
  BY DEF Reported
<1>2. \A l \in RecoveryKeys \ {k} : l \in Backing' <=> l \in Backing
  BY DEF Backing
<1>3. Backing \subseteq RecoveryKeys /\ Backing' \subseteq RecoveryKeys
  BY DEF Backing
<1>4. CASE k \in Backing' /\ k \notin Backing
  <2>1. Backing' = Backing \cup {k}
    BY <1>2, <1>3, <1>4
  <2>2. k \in signers' \/ TakenOut(k)'
    BY <1>4 DEF SignerHistory, RowsLanding, Admitted, Backing
  <2>3. k \in signers' \/ k \in Removed'
    BY <2>2 DEF TakenOut, Removed, Executions
  <2>4. k \in (signers \cap RecoveryKeys) \cup Removed
    BY <2>3 DEF Settings
  <2>5. Promise!Enforce(k)
    BY <1>1, <2>1, <2>4 DEF Promise!Enforce, Promise!settings, Settings, Holders, Added, Removed, Reported
  <2> QED
    BY <2>5 DEF Promise!Next
<1>5. CASE k \notin Backing'
  <2>1. Backing' = Backing \ {k}
    BY <1>2, <1>3, <1>5
  <2>2. Promise!Forget(k)
    BY <1>1, <2>1 DEF Promise!Forget, Promise!settings, Settings, Holders, Added, Removed, Reported
  <2> QED
    BY <2>2 DEF Promise!Next
<1>6. CASE k \in Backing' /\ k \in Backing
  <2>1. Backing' = Backing
    BY <1>2, <1>3, <1>6
  <2> QED
    BY <1>1, <2>1 DEF Promise!promise, Promise!settings, Settings, Holders, Added, Removed, Reported
<1> QED
  BY <1>4, <1>5, <1>6

LEMMA RowStepIsAStep ==
  ASSUME Inv, SignerHistory', UNCHANGED Settings, NEW r \in Requests,
         \/ \E k \in RecoveryKeys : AddKey(r, k) \/ RemoveKey(r, k) \/ MoveContact(r, k) \/ WriteRow(r, k)
         \/ Retire(r) \/ MarkKey(r)
  PROVE  Promise!Next \/ UNCHANGED Promise!promise
<1>1. UNCHANGED <<key, told>>
  BY DEF AddKey, RemoveKey, MoveContact, WriteRow, Retire, MarkKey
<1>2. \E k \in RecoveryKeys : \A l \in RecoveryKeys \ {k} : rows'[l].status = rows[l].status
  <2>1. CASE MarkKey(r)
    <3>1. \A l \in RecoveryKeys : rows'[l].status = rows[l].status
      BY <2>1, Kept DEF MarkKey, Mark, RowsOK
    <3>2. contact \in RecoveryKeys
      BY Kept, Constants DEF RowsOK
    <3> QED
      BY <3>1, <3>2
  <2>2. CASE Retire(r)
    <3>1. job[r].was \in RecoveryKeys
      BY <2>2, Kept DEF Retire, HolderOK
    <3> QED
      BY <2>2, <3>1, Kept DEF Retire, SetRow, RowsOK
  <2>3. ASSUME NEW k \in RecoveryKeys, AddKey(r, k) \/ RemoveKey(r, k) \/ MoveContact(r, k)
        PROVE  \A l \in RecoveryKeys \ {k} : rows'[l].status = rows[l].status
    BY <2>3, Kept DEF AddKey, RemoveKey, MoveContact, SetRow, RowsOK
  <2>4. ASSUME NEW k \in RecoveryKeys, WriteRow(r, k)
        PROVE  \A l \in RecoveryKeys \ {k} : rows'[l].status = rows[l].status
    BY <2>4, Kept DEF WriteRow, RowsOK
  <2> QED
    BY <2>1, <2>2, <2>3, <2>4
<1> QED
  BY <1>1, <1>2, RowIsAStep

LEMMA RestIsSilent ==
  ASSUME UNCHANGED Settings, UNCHANGED <<key, rows, told>>
  PROVE  UNCHANGED Promise!promise
  BY KnownRests DEF Promise!promise, Promise!settings, Settings, Holders, Added, Removed, Reported

\* The Account starts as it was provisioned.
LEMMA InitPromise == Init => Promise!Init
<1> SUFFICES ASSUME Init PROVE Promise!Init
  OBVIOUS
<1>1. SignerHistory
  BY InitLands
<1>2. PICK more \in Earlier :
        LET active == {FirstKey["recovery"]} \cup more IN
        /\ rows = [k \in RecoveryKeys |-> IF k \in active THEN [status |-> "active", index |-> 0] ELSE NoRow]
        /\ signers = {FirstKey["device"], FirstKey["passkey"]} \cup active
  BY DEF Init
<1>3. PICK active : active = {FirstKey["recovery"]} \cup more
  OBVIOUS
<1>4. active \subseteq RecoveryKeys
  BY <1>3, ConstantsAssumption
<1>5. signers \cap RecoveryKeys = active
  BY <1>2, <1>3, <1>4, Constants, ConstantsAssumption
<1>6. Backing = active
  BY <1>2, <1>3, <1>4 DEF Backing, NoRow
<1>7. Holders = [f \in Roles |-> FirstKey[f]]
  <2>1. ASSUME NEW f \in Roles PROVE Holders[f] = FirstKey[f]
    <3>1. FirstKey[f] \in PhoneKeys[f] \cap signers
      BY <1>2, Constants, ConstantsAssumption
    <3> QED
      BY <1>1, <3>1, HolderIs
  <2> QED
    BY <2>1 DEF Holders
<1>8. Executions = {}
  BY DEF Init, NoProposal, Executions
<1>9. Added = {} /\ Removed = {} /\ Reported = {}
  BY <1>8 DEF Init, Added, Removed, Reported
<1>10. key = [f \in Roles |-> FirstKey[f]] /\ limit = FirstKey["limit"]
  BY DEF Init
<1> QED
  BY <1>3, <1>5, <1>6, <1>7, <1>9, <1>10
  DEF Promise!Init, Promise!Roles, Roles, Holders, Added, Removed, Reported

LEMMA PromiseStep ==
  ASSUME Inv, Inv', History, SignerHistory, SignerHistory', [Next]_vars
  PROVE  [Promise!Next]_Promise!promise
<1>1. CASE \E r \in Requests, f \in Kinds : SubmitExecute(r, f)
  BY <1>1, ExecutionIsAStep
<1>2. CASE ~\E r \in Requests, f \in Kinds : SubmitExecute(r, f)
  <2>1. UNCHANGED Settings
    BY <1>2, MovesStill, SettingsStay
  <2>2. CASE UNCHANGED <<key, rows, told>>
    BY <2>1, <2>2, RestIsSilent
  <2>3. ASSUME NEW r \in Requests, Step(r) PROVE Promise!Next \/ UNCHANGED Promise!promise
    <3>1. CASE ResolveColumns(r) \/ TellOutcome(r) \/ Announce(r)
      BY <2>1, <3>1, FileIsAStep, ReportIsAStep, NoticeIsSilent
    <3>2. CASE \/ \E k \in RecoveryKeys : AddKey(r, k) \/ RemoveKey(r, k) \/ MoveContact(r, k) \/ WriteRow(r, k)
               \/ Retire(r) \/ MarkKey(r)
      BY <2>1, <3>2, RowStepIsAStep
    <3>3. CASE \/ (\E f \in Columns, to \in Values : Start(r, f, to) \/ StartOver(r, f, to))
               \/ Stage(r) \/ (\E f \in Kinds : Look(r, f)) \/ FindSettled(r) \/ FindOpen(r)
               \/ FindNothing(r) \/ AskTip(r) \/ FindLanded(r)
      BY <2>2, <3>3 DEF Start, StartOver, Stage, Look, FindSettled, FindOpen, FindNothing, AskTip, FindLanded, database
    <3>4. CASE Clear(r) \/ CheckKeys(r) \/ SettleKeys(r) \/ FollowContact(r) \/ ConsumeGrant(r)
               \/ Landing(r) \/ Withdraw(r) \/ Die(r)
      BY <2>2, <3>4 DEF Clear, CheckKeys, SettleKeys, FollowContact, ConsumeGrant, Landing, Withdraw, Die, database
    <3>5. CASE \/ RecoveryVote(r) \/ SubmitRejection(r)
               \/ \E f \in Kinds : SubmitPropose(r, f) \/ SubmitApprove(r, f)
      BY <2>2, <3>5 DEF RecoveryVote, SubmitRejection, SubmitPropose, SubmitApprove, database
    <3> QED
      BY <1>2, <2>3, <3>1, <3>2, <3>3, <3>4, <3>5 DEF Step, Begin, GoOn
  <2>4. CASE \/ (\E f \in Roles : VerifyCode(f)) \/ PrepareRejection
             \/ (\E i \in Indices : Ripen(i) \/ Close(i)) \/ UNCHANGED vars
    BY <2>2, <2>4 DEF VerifyCode, PrepareRejection, Ripen, Close, database, vars
  <2>5. CASE Watch
    BY <2>1, <2>5, NoticeIsSilent
  <2> QED
    BY <2>3, <2>4, <2>5 DEF Next
<1> QED
  BY <1>1, <1>2

\* The staged columns, the proposals and the requests that race over them implement
\* SettingsPromise: an execution is one rotation, recovery change or restated limit, and
\* whatever the services commit or report after it is a key or an amount that one
\* installed.  This takes the exact shapes of the changes (RoleChange) and the one signer
\* of a kind (HasOne).
THEOREM PromiseKept == Spec => KeepsPromise
<1>1. Inv /\ Inv' /\ History /\ SignerHistory /\ SignerHistory' /\ [Next]_vars => [Promise!Next]_Promise!promise
  BY PromiseStep
<1> QED
  BY <1>1, InitPromise, AlwaysInv, AlwaysHistory, AlwaysLands, PTL DEF Spec, KeepsPromise, Promise!Spec

=============================================================================
