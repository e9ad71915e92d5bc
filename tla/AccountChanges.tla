---------------------------- MODULE AccountChanges ----------------------------
(***************************************************************************)
(* Changes to the Settings of one Consumer Account: a Spending Limit, the  *)
(* device key (S2), the passkey (S1) and the recovery keys (S3).           *)
(*                                                                         *)
(* A change is staged in the database under the next Settings index,       *)
(* proposed on chain, voted by two of the Account's signers, held by a     *)
(* time lock, executed, and then settled: the row is committed against     *)
(* what the chain holds, or forgotten.  Four services drive one kind of    *)
(* change each, and a fifth rejects whatever is open.  Every step is       *)
(* prepared by the backend, signed on the phone and submitted back.  The   *)
(* chain is external: it numbers proposals, counts votes and runs the      *)
(* lock.                                                                   *)
(***************************************************************************)
EXTENDS Naturals, FiniteSets

CONSTANTS
  PhoneKeys,     \* keys a phone may hold: [device |-> ..., passkey |-> ...]
  RecoveryKeys,  \* keys a recovery_signers row may carry
  EmailKeys,     \* those anchored on an email address, which we hold sealed
  Limits,        \* amounts of the Spending Limit
  FirstKey,      \* the keys and the limit the Account was provisioned with
  Earlier,       \* sets of recovery keys that were added before; indices count from there
  Requests,      \* requests in progress
  MaxIndex,      \* bound: how many changes are proposed
  MaxFails,      \* bound: how many requests die part of the way
  None

Roles == {"device", "passkey"}
Columns == Roles \cup {"limit"}       \* staged in columns of squads_accounts
Kinds == Columns \cup {"recovery"}
Flows == Kinds \cup {"reject"}
Keys == PhoneKeys["device"] \cup PhoneKeys["passkey"] \cup RecoveryKeys
Values == Keys \cup Limits
Indices == 1..MaxIndex
Threshold == 2

ASSUME ConstantsAssumption ==
  /\ DOMAIN PhoneKeys = Roles
  /\ PhoneKeys["device"] \cap PhoneKeys["passkey"] = {}
  /\ RecoveryKeys \cap (PhoneKeys["device"] \cup PhoneKeys["passkey"]) = {}
  /\ EmailKeys \subseteq RecoveryKeys
  /\ FirstKey \in [Kinds -> Values]
  /\ \A f \in Roles : FirstKey[f] \in PhoneKeys[f]
  /\ Earlier \subseteq SUBSET RecoveryKeys
  /\ FirstKey["recovery"] \in EmailKeys /\ FirstKey["limit"] \in Limits
  /\ None \notin Values \cup Requests \cup Flows /\ Limits \cap Keys = {}
  /\ MaxIndex \in Nat \ {0} /\ MaxFails \in Nat

VARIABLES
  key,       \* primary_signer and approval_signer
  staged,    \* the pending columns of each kind: what it installs, its index
  rows,      \* recovery_signers: status and change_index
  contact,   \* the recovery key anchored on the address on file
  told,      \* account_events: staged, executed and rejected, by index
  prepared,  \* the step each flow awaits a signature for
  grant,     \* the inbox a verified recovery code proved, per rotation
  tip,       \* chain: the last Settings index used
  proposal,  \* chain: what each index carries, its votes and its standing
  closed,    \* chain: settled proposals whose account is gone
  signers,   \* chain: the signer set
  limit,     \* chain: the amount of the Spending Limit policy
  lock,      \* holder of account:settings-change
  keyLock,   \* holder of recovery:change
  job,       \* what each request is in the middle of
  fails

database == <<key, staged, rows, contact, told, prepared, grant>>
chain == <<tip, proposal, closed, signers, limit>>
locks == <<lock, keyLock>>
vars == <<key, staged, rows, contact, told, prepared, grant, tip, proposal,
          closed, signers, limit, lock, keyLock, job, fails>>

Changes == [kind : Kinds, add : SUBSET Keys, drop : SUBSET Keys, limit : Limits \cup {None}]
NoStage == [to |-> None, index |-> 0]
NoRow == [status |-> "none", index |-> 0]
NoProposal == [change |-> None, votes |-> {}, standing |-> "none"]
NoStep == [step |-> "none", index |-> 0, change |-> None, by |-> {}]
NoKeys == [f \in Roles |-> None]
Idle == [op |-> None, at |-> "idle", index |-> 0, out |-> "none", was |-> None, had |-> NoKeys,
         to |-> None, add |-> {}, drop |-> {}]
Statuses == {"none", "pending_add", "active", "pending_remove"}
Standings == {"none", "open", "approved", "ripe", "executed", "rejected"}
Outcomes == {"executed", "rejected"}
Points == {"idle", "stage", "announce", "look", "ask", "land", "resolve", "tell", "clear",
           "retire", "check", "mark", "follow", "rows", "consume", "landed", "withdraw"}

TypeOK ==
  /\ key \in [Roles -> Keys]
  /\ staged \in [Columns -> [to : Values \cup {None}, index : 0..MaxIndex]]
  /\ rows \in [RecoveryKeys -> [status : Statuses, index : 0..MaxIndex]]
  /\ contact \in EmailKeys
  /\ told \in SUBSET [what : {"staged", "executed", "rejected"}, index : Indices,
                      kind : Kinds \cup {None}, to : Values \cup {None}]
  /\ prepared \in [Flows -> [step : {"none", "propose", "approve", "execute", "reject"},
                             index : 0..MaxIndex, change : Changes \cup {None},
                             by : SUBSET Keys]]
  /\ grant \in [Roles -> EmailKeys \cup {None}]
  /\ tip \in 0..MaxIndex
  /\ proposal \in [Indices -> [change : Changes \cup {None}, votes : SUBSET Keys,
                               standing : Standings]]
  /\ closed \in SUBSET Indices
  /\ signers \in SUBSET Keys
  /\ limit \in Limits
  /\ {lock, keyLock} \subseteq Requests \cup {None}
  /\ job \in [Requests -> [op : Flows \cup {None}, at : Points, index : 0..MaxIndex,
                           out : Outcomes \cup {"none"},
                           was : Values \cup {None}, to : Values \cup {None},
                           had : [Roles -> Keys \cup {None}],
                           add : SUBSET RecoveryKeys, drop : SUBSET RecoveryKeys]]
  /\ fails \in 0..MaxFails

Init ==
  /\ key = [f \in Roles |-> FirstKey[f]]
  /\ staged = [f \in Columns |-> NoStage]
  /\ \E more \in Earlier :
       LET active == {FirstKey["recovery"]} \cup more IN
       /\ rows = [k \in RecoveryKeys |-> IF k \in active
                                         THEN [status |-> "active", index |-> 0] ELSE NoRow]
       /\ signers = {FirstKey["device"], FirstKey["passkey"]} \cup active
  /\ contact = FirstKey["recovery"]
  /\ told = {}
  /\ prepared = [f \in Flows |-> NoStep]
  /\ grant = [f \in Roles |-> FirstKey["recovery"]]  \* a code only enables: none is lost
  /\ tip = 0
  /\ proposal = [i \in Indices |-> NoProposal]
  /\ closed = {}
  /\ limit = FirstKey["limit"]
  /\ lock = None /\ keyLock = None
  /\ job = [r \in Requests |-> Idle]
  /\ fails = 0

-----------------------------------------------------------------------------
(* What the services read.                                                 *)

Other(f) == CHOOSE g \in Roles : g # f
RowsIn(i) == {k \in RecoveryKeys : i # 0 /\ rows[k].index = i}
Backing == {k \in RecoveryKeys : rows[k].status \in {"active", "pending_remove"}}
OpenRecovery == {i \in Indices : RowsIn(i) # {}}
StagedIndex(f) == IF f = "recovery"
                  THEN IF OpenRecovery = {} THEN 0 ELSE CHOOSE i \in OpenRecovery : TRUE
                  ELSE staged[f].index

NextIndex_Twice == tip + 2
NextIndex == tip + 1

Free_Always == TRUE
\* withAdvisoryLock: a session lock of the Account, held to the end of a start.
Free == lock = None

\* readProposal: null before it is proposed and after its account is closed.
Readable(i) == i \in 1..tip /\ i \notin closed
Standing(i) == IF Readable(i) THEN proposal[i].standing ELSE "none"
Settled(i) == Standing(i) \in {"executed", "rejected"}
Unsettled(i) == Readable(i) /\ ~Settled(i)

Landed_Trusting(j) ==
  IF j.out = "executed" THEN TRUE ELSE j.was \in signers /\ j.had[j.op] \notin signers
Landed_ByProposal(j) == IF j.op = "limit" THEN limit = j.was ELSE j.out = "executed"
\* rotationLanded, and assertLanded of a limit, for the row as it was read.
Landed(j) == IF j.op = "limit" THEN limit = j.was ELSE j.was \in signers /\ j.had[j.op] \notin signers

KeysLanded_Any(i) == TRUE
\* assertLanded of a recovery change.
KeysLanded(i) ==
  \A k \in RowsIn(i) : (rows[k].status = "pending_add") <=> k \in signers

\* The in-flight checks: a limit looks at the recovery keys too, the rotations
\* at the other two columns only.
InFlight(f) ==
  \/ \E g \in Columns \ {f} : staged[g].index # 0
  \/ f = "limit" /\ OpenRecovery # {}

Resting(r) == job[r].at = "idle"
Tell(what, i, kind, to) ==
  told' = IF \E e \in told : e.what = what /\ e.index = i THEN told
          ELSE told \cup {[what |-> what, index |-> i, kind |-> kind, to |-> to]}

Become(r, f, at, i, to) ==
  job' = [job EXCEPT ![r] = [Idle EXCEPT !.op = f, !.at = at, !.index = i, !.to = to]]
GoTo(r, at) == job' = [job EXCEPT ![r].at = at]
Release(r) == /\ lock' = IF lock = r THEN None ELSE lock
              /\ keyLock' = IF keyLock = r THEN None ELSE keyLock
Finish(r) == job' = [job EXCEPT ![r] = Idle] /\ Release(r)
Unprepare(f) == prepared' = [prepared EXCEPT ![f] = NoStep]

-----------------------------------------------------------------------------
(* Staging a limit or a rotation, under the lock.                          *)

\* The checks of stage, and the next index read.
Start(r, f, to) ==
  /\ Resting(r) /\ Free /\ tip < MaxIndex
  /\ to \in (IF f = "limit" THEN Limits \ {limit} ELSE PhoneKeys[f] \ {key[f]})
  /\ f \in Roles => grant[f] # None
  /\ ~InFlight(f) /\ staged[f].index = 0
  /\ Become(r, f, "stage", NextIndex, to)
  /\ lock' = r
  /\ UNCHANGED <<database, chain, keyLock, fails>>

Stage(r) ==
  LET j == job[r] IN
  /\ j.at = "stage" /\ j.op \in Columns
  /\ staged' = [staged EXCEPT ![j.op] = [to |-> j.to, index |-> j.index]]
  /\ job' = [job EXCEPT ![r].at = "announce", ![r].had = key]
  /\ UNCHANGED <<key, rows, contact, told, prepared, grant, chain, locks, fails>>

\* A passkey change restates the limit the policy holds when it is proposed.
ChangeOf(f, to, had) ==
  [kind |-> f, add |-> {to} \ Limits, drop |-> IF f \in Roles THEN {had[f]} ELSE {},
   limit |-> IF f = "limit" THEN to ELSE IF f = "passkey" THEN limit ELSE None]

\* The change the staged recovery rows add up to.
KeyChange(i) ==
  [kind |-> "recovery", add |-> {k \in RowsIn(i) : rows[k].status = "pending_add"},
   drop |-> {k \in RowsIn(i) : rows[k].status = "pending_remove"}, limit |-> None]

Prepare(f, step, i, c, by) ==
  prepared' = [prepared EXCEPT ![f] = [step |-> step, index |-> i, change |-> c, by |-> by]]
Propose(f, i, c) == Prepare(f, "propose", i, c, {})

\* The notice, and the first step.
Announce(r) ==
  LET j == job[r] IN
  /\ j.at = "announce"
  /\ Tell("staged", j.index, j.op, j.to)
  /\ Propose(j.op, j.index, IF j.op = "recovery" THEN KeyChange(j.index) ELSE ChangeOf(j.op, j.to, j.had))
  /\ Finish(r)
  /\ UNCHANGED <<key, staged, rows, contact, grant, chain, fails>>

-----------------------------------------------------------------------------
(* next, and what a start does about a change left from before: the row is    *)
(* read first and used to the end, whatever becomes of it meanwhile; then the  *)
(* proposal, the tip and the signers, each in a call of its own.               *)

\* The phone's own votes: both for a limit or a recovery key, the key that is not
\* being replaced for a rotation.
Voters(j) == {j.had[f] : f \in Roles \ {j.op}}
HeldVote(i) == proposal[i].votes \cap Backing \cap EmailKeys # {}

Resumes(j) == j.to = None \/ j.op = "limit"

Read(r, f, to) ==
  job' = [job EXCEPT ![r] = [Idle EXCEPT !.op = f, !.at = "look", !.index = StagedIndex(f),
            !.was = IF f = "recovery" THEN None ELSE staged[f].to, !.had = key, !.to = to]]

Look(r, f) ==
  /\ Resting(r) /\ StagedIndex(f) # 0
  /\ Read(r, f, None)
  /\ UNCHANGED <<database, chain, locks, fails>>

\* settleOrRefuse, and the limit's own next: a change left from before is
\* settled first, or refuses the start.
StartOver(r, f, to) ==
  /\ Resting(r) /\ Free /\ staged[f].index # 0
  /\ to \in (IF f = "limit" THEN Limits \ {limit} ELSE PhoneKeys[f] \ {key[f], staged[f].to})
  /\ f \in Roles => grant[f] # None
  /\ ~InFlight(f)
  /\ Read(r, f, to)
  /\ lock' = r
  /\ UNCHANGED <<database, chain, keyLock, fails>>

\* Settled, as a limit that tells first or a rotation that writes first.
Conclude(r, out) ==
  job' = [job EXCEPT ![r].at = IF job[r].op = "limit" THEN "tell" ELSE "resolve",
                     ![r].out = out, ![r].had = NoKeys]

\* readProposal finds it settled: an executed change must be found on chain yet.
FindSettled(r) ==
  LET j == job[r] IN
  /\ j.at = "look" /\ Settled(j.index)
  /\ IF Standing(j.index) = "executed" \/ j.op = "recovery"
     THEN job' = [job EXCEPT ![r].at = "land", ![r].out = Standing(j.index)]
     ELSE Conclude(r, "rejected")
  /\ UNCHANGED <<database, chain, locks, fails>>

\* It is open: the phone's votes are asked for, then, after the time lock, the
\* execution.  A rotation that is started is refused.
FindOpen(r) ==
  LET j == job[r]
      left == Voters(j) \ proposal[j.index].votes IN
  /\ j.at = "look" /\ Unsettled(j.index)
  /\ CASE Resumes(j) /\ left # {} ->
            \E k \in IF j.had["passkey"] \in left THEN {j.had["passkey"]} ELSE left :
              Prepare(j.op, "approve", j.index, None, {k})
       [] Resumes(j) /\ left = {} /\ Standing(j.index) = "ripe"
          /\ (j.op \in Roles => HeldVote(j.index)) -> Prepare(j.op, "execute", j.index, None, {})
       [] OTHER -> UNCHANGED prepared
  /\ Finish(r)
  /\ UNCHANGED <<key, staged, rows, contact, told, grant, chain, fails>>

\* There is none.  A recovery change is proposed again; a column asks for the tip.
FindNothing(r) ==
  LET j == job[r] IN
  /\ j.at = "look" /\ ~Readable(j.index)
  /\ IF j.op = "recovery"
     THEN Propose(j.op, j.index, KeyChange(j.index)) /\ Finish(r)
     ELSE GoTo(r, "ask") /\ UNCHANGED <<prepared, locks>>
  /\ UNCHANGED <<key, staged, rows, contact, told, grant, chain, fails>>

\* isNextIndex: proposed again while its index is free, which refuses the start of
\* a rotation; resolveWithoutProposal otherwise.
AskTip(r) ==
  LET j == job[r] IN
  /\ j.at = "ask"
  /\ IF j.index = NextIndex
     THEN /\ IF Resumes(j)
             THEN Propose(j.op, j.index, ChangeOf(j.op, j.was, j.had)) ELSE UNCHANGED prepared
          /\ Finish(r)
     ELSE /\ IF j.op = "limit" THEN Conclude(r, "rejected") ELSE GoTo(r, "land")
          /\ UNCHANGED <<prepared, locks>>
  /\ UNCHANGED <<key, staged, rows, contact, told, grant, chain, fails>>

\* The signers or the limit are read.  An executed change that is not found there
\* is an error, and stays; a rotation without a proposal is taken for rejected.
FindLanded(r) ==
  LET j == job[r] IN
  /\ j.at = "land" /\ j.op \in Columns
  /\ IF Landed(j) THEN Conclude(r, "executed") /\ UNCHANGED locks
     ELSE IF j.out = "executed" THEN Finish(r)
     ELSE Conclude(r, "rejected") /\ UNCHANGED locks
  /\ UNCHANGED <<database, chain, fails>>

\* Whatever is staged by now is cleared; a rotation clears before it tells, a
\* limit after.
ResolveColumns(r) ==
  LET j == job[r] IN
  /\ j.at = "resolve"
  /\ key' = IF j.op \in Roles /\ j.out = "executed" THEN [key EXCEPT ![j.op] = j.was] ELSE key
  /\ staged' = [staged EXCEPT ![j.op] = NoStage]
  /\ GoTo(r, IF j.op = "limit" THEN "clear" ELSE "tell")
  /\ UNCHANGED <<rows, contact, told, prepared, grant, chain, locks, fails>>

TellOutcome(r) ==
  LET j == job[r] IN
  /\ j.at = "tell"
  /\ Tell(j.out, j.index, IF j.op = "reject" THEN None ELSE j.op, j.was)
  /\ CASE j.op = "limit" -> GoTo(r, "resolve") /\ UNCHANGED locks
       [] j.op = "reject" -> Finish(r)
       [] OTHER -> GoTo(r, "clear") /\ UNCHANGED locks
  /\ UNCHANGED <<key, staged, rows, contact, prepared, grant, chain, fails>>

\* The prepared step goes, and a start that came upon the change starts over.
Clear(r) ==
  LET j == job[r] IN
  /\ j.at = "clear"
  /\ Unprepare(j.op)
  /\ IF j.to = None \/ tip = MaxIndex THEN Finish(r)
     ELSE Become(r, j.op, "stage", NextIndex, j.to) /\ UNCHANGED locks
  /\ UNCHANGED <<key, staged, rows, contact, told, grant, chain, fails>>

-----------------------------------------------------------------------------
(* The recovery keys.                                                      *)

SetRow(k, status, i) == rows' = [rows EXCEPT ![k] = [status |-> status, index |-> i]]

KeyRequest(r) == Resting(r) /\ keyLock = None /\ OpenRecovery = {} /\ tip < MaxIndex

AddKey(r, k) ==
  /\ KeyRequest(r) /\ rows[k].status = "none"
  /\ SetRow(k, "pending_add", 0)
  /\ Become(r, "recovery", "check", 0, k)
  /\ keyLock' = r
  /\ UNCHANGED <<key, staged, contact, told, prepared, grant, chain, lock, fails>>

RemoveKey(r, k) ==
  /\ KeyRequest(r) /\ rows[k].status = "active" /\ k # contact
  /\ Cardinality(Backing) > 1
  /\ SetRow(k, "pending_remove", 0)
  /\ Become(r, "recovery", "check", 0, k)
  /\ keyLock' = r
  /\ UNCHANGED <<key, staged, contact, told, prepared, grant, chain, lock, fails>>

MoveContact(r, k) ==
  /\ KeyRequest(r) /\ k \in EmailKeys /\ rows[k].status = "none"
  /\ rows[contact].status = "active"
  /\ SetRow(k, "pending_add", 0)
  /\ job' = [job EXCEPT ![r] = [Idle EXCEPT !.op = "recovery", !.at = "retire", !.was = contact, !.to = k]]
  /\ keyLock' = r
  /\ UNCHANGED <<key, staged, contact, told, prepared, grant, chain, lock, fails>>

Retire(r) ==
  /\ job[r].at = "retire"
  /\ SetRow(job[r].was, "pending_remove", 0)
  /\ GoTo(r, "check")
  /\ UNCHANGED <<key, staged, contact, told, prepared, grant, chain, locks, fails>>

\* stage: refused while a column is staged, with the rows left as they are.
CheckKeys(r) ==
  /\ job[r].at = "check" /\ Free
  /\ IF \E f \in Columns : staged[f].index # 0
     THEN Finish(r)
     ELSE /\ tip < MaxIndex
          /\ job' = [job EXCEPT ![r] = [@ EXCEPT !.at = "mark", !.index = NextIndex]]
          /\ lock' = r /\ UNCHANGED keyLock
  /\ UNCHANGED <<database, chain, fails>>

\* markChange, one row after the other; a row deleted meanwhile stays deleted.
Mark(r, k, at) ==
  /\ rows' = IF rows[k].status = "none" THEN rows ELSE [rows EXCEPT ![k].index = job[r].index]
  /\ GoTo(r, at)

MarkKey(r) ==
  LET j == job[r] IN
  /\ j.at = "mark"
  /\ IF rows[j.to].status # "none" /\ rows[j.to].index # j.index
     THEN Mark(r, j.to, IF j.was = None THEN "announce" ELSE "mark")
     ELSE Mark(r, IF j.was = None THEN j.to ELSE j.was, "announce")
  /\ UNCHANGED <<key, staged, contact, told, prepared, grant, chain, locks, fails>>

\* The rows a change carries, read once and written one by one.
TakeRows(r, f, at, i, out, ks) ==
  job' = [job EXCEPT ![r] = [Idle EXCEPT !.op = f, !.at = IF ks = {} THEN "tell" ELSE at,
            !.index = i, !.out = out,
            !.add = {k \in ks : rows[k].status = "pending_add"},
            !.drop = {k \in ks : rows[k].status = "pending_remove"}]]

\* settle, after assertLanded, and abandon.
SettleKeys(r) ==
  LET j == job[r] IN
  /\ j.at = "land" /\ j.op = "recovery"
  /\ IF j.out = "executed" => KeysLanded(j.index)
     THEN TakeRows(r, "recovery", IF j.out = "executed" THEN "follow" ELSE "rows",
                   j.index, j.out, RowsIn(j.index)) /\ UNCHANGED locks
     ELSE Finish(r)
  /\ UNCHANGED <<database, chain, fails>>

\* followContactRotation: the address on file moves before the rows do.
FollowContact(r) ==
  LET j == job[r]
      replacements == j.add \cap EmailKeys IN
  /\ j.at = "follow"
  /\ IF contact \in j.drop /\ replacements # {} THEN contact' \in replacements
     ELSE UNCHANGED contact
  /\ GoTo(r, "rows")
  /\ UNCHANGED <<key, staged, rows, told, prepared, grant, chain, locks, fails>>

\* settle keeps the additions and deletes the removals, abandon the reverse.
\* The write finds its row by its id: one deleted meanwhile is left alone, and
\* so is one added again after its removal.
WriteRow(r, k) ==
  LET j == job[r]
      kept == IF j.out = "executed" THEN j.add ELSE j.drop
      found == rows[k] # NoRow /\ ~(k \in j.drop /\ rows[k].status = "pending_add") IN
  /\ j.at = "rows" /\ k \in j.add \cup j.drop
  /\ rows' = [rows EXCEPT ![k] = IF ~found THEN @
                                 ELSE IF k \in kept THEN [status |-> "active", index |-> 0] ELSE NoRow]
  /\ job' = [job EXCEPT ![r].add = @ \ {k}, ![r].drop = @ \ {k},
                        ![r].at = IF j.add \cup j.drop = {k} THEN "tell" ELSE "rows"]
  /\ UNCHANGED <<key, staged, contact, told, prepared, grant, chain, locks, fails>>

-----------------------------------------------------------------------------
(* The code a rotation is voted with.                                       *)

\* A code sent to the address on file and verified.
VerifyCode(f) ==
  /\ grant[f] # contact /\ PhoneKeys[f] # {key[f]}
  /\ grant' = [grant EXCEPT ![f] = contact]
  /\ UNCHANGED <<key, staged, rows, contact, told, prepared, chain, locks, job, fails>>

-----------------------------------------------------------------------------
(* The chain.                                                              *)

Proposer(f) == key[IF f = "passkey" THEN "device" ELSE "passkey"]

Vote(i, ks) ==
  LET votes == proposal[i].votes \cup ks IN
  proposal' = [proposal EXCEPT ![i].votes = votes,
                 ![i].standing = IF Cardinality(votes) >= Threshold THEN "approved" ELSE "open"]

\* approveAsRecovery: the vote of the key the proven inbox releases.
RecoveryVote(r) ==
  LET j == job[r]
      k == grant[j.op] IN
  /\ j.at = "look" /\ j.op \in Roles /\ j.to = None
  /\ Standing(j.index) = "open" /\ Voters(j) \subseteq proposal[j.index].votes
  /\ ~HeldVote(j.index) /\ k \in Backing \cap signers
  /\ Vote(j.index, {k})
  /\ Become(r, j.op, "consume", j.index, None)
  /\ UNCHANGED <<database, tip, closed, signers, limit, locks, fails>>

ConsumeGrant(r) ==
  /\ job[r].at = "consume"
  /\ grant' = [grant EXCEPT ![job[r].op] = None]
  /\ Finish(r)
  /\ UNCHANGED <<key, staged, rows, contact, told, prepared, chain, fails>>

\* submit: the chain takes the prepared step, if it still can.
SubmitPropose(r, f) ==
  LET p == prepared[f] IN
  /\ Resting(r) /\ p.step = "propose"
  /\ p.index = NextIndex /\ Proposer(f) \in signers
  /\ tip' = NextIndex
  /\ proposal' = [proposal EXCEPT ![NextIndex] =
                    [change |-> p.change, votes |-> {}, standing |-> "open"]]
  /\ Become(r, f, "landed", p.index, None)
  /\ UNCHANGED <<database, closed, signers, limit, locks, fails>>

SubmitApprove(r, f) ==
  LET p == prepared[f] IN
  /\ Resting(r) /\ p.step = "approve" /\ Standing(p.index) = "open"
  /\ p.by \subseteq signers \ proposal[p.index].votes
  /\ Vote(p.index, p.by)
  /\ Become(r, f, "landed", p.index, None)
  /\ UNCHANGED <<database, tip, closed, signers, limit, locks, fails>>

SubmitExecute(r, f) ==
  LET p == prepared[f]
      c == proposal[p.index].change IN
  /\ Resting(r) /\ p.step = "execute" /\ Standing(p.index) = "ripe"
  /\ c.drop \subseteq signers /\ c.add \cap signers = {}
  /\ proposal' = [proposal EXCEPT ![p.index].standing = "executed"]
  /\ signers' = (signers \ c.drop) \cup c.add
  /\ limit' = IF c.limit = None THEN limit ELSE c.limit
  /\ Become(r, f, "landed", p.index, None)
  /\ UNCHANGED <<database, tip, closed, locks, fails>>

\* After the submission: whatever step is prepared by now is deleted.
Landing(r) ==
  /\ job[r].at = "landed"
  /\ Unprepare(job[r].op)
  /\ IF job[r].op = "reject" THEN GoTo(r, "withdraw") /\ UNCHANGED locks ELSE Finish(r)
  /\ UNCHANGED <<key, staged, rows, contact, told, grant, chain, fails>>

\* A day passes: no request lives that long.
Ripen(i) ==
  /\ Standing(i) = "approved" /\ \A r \in Requests : Resting(r)
  /\ proposal' = [proposal EXCEPT ![i].standing = "ripe"]
  /\ UNCHANGED <<database, tip, closed, signers, limit, locks, job, fails>>

\* The rent of a settled proposal is reclaimed, and its account with it.
Close(i) ==
  /\ Settled(i) /\ \A r \in Requests : Resting(r)
  /\ closed' = closed \cup {i}
  /\ UNCHANGED <<database, tip, proposal, signers, limit, locks, job, fails>>

-----------------------------------------------------------------------------
(* Rejecting what is open, and the watcher.                                *)

PrepareRejection ==
  /\ tip # 0 /\ Unsettled(tip)
  /\ prepared' = [prepared EXCEPT !["reject"] =
       [step |-> "reject", index |-> tip, change |-> None, by |-> {key["device"], key["passkey"]}]]
  /\ UNCHANGED <<key, staged, rows, contact, told, grant, chain, locks, job, fails>>

SubmitRejection(r) ==
  LET p == prepared["reject"] IN
  /\ Resting(r) /\ p.step = "reject" /\ Unsettled(p.index) /\ p.by \subseteq signers
  /\ proposal' = [proposal EXCEPT ![p.index].standing = "rejected"]
  /\ Become(r, "reject", "landed", p.index, None)
  /\ UNCHANGED <<database, tip, closed, signers, limit, locks, fails>>

\* Whatever recovery change is open is abandoned with it.
Withdraw(r) ==
  /\ job[r].at = "withdraw"
  /\ TakeRows(r, "reject", "rows", job[r].index, "rejected", RowsIn(StagedIndex("recovery")))
  /\ UNCHANGED <<database, chain, locks, fails>>

Watch ==
  /\ tip # 0 /\ Unsettled(tip)
  /\ Tell("staged", tip, None, None)
  /\ UNCHANGED <<key, staged, rows, contact, prepared, grant, chain, locks, job, fails>>

\* A request throws or its process dies; the session lock goes with it.
Die(r) ==
  /\ ~Resting(r) /\ fails < MaxFails
  /\ fails' = fails + 1
  /\ Finish(r)
  /\ UNCHANGED <<database, chain>>

-----------------------------------------------------------------------------
\* A request begins: it stages, looks on, or submits what was signed.
Begin(r) ==
  /\ Resting(r)
  /\ \/ \E f \in Columns, to \in Values : Start(r, f, to) \/ StartOver(r, f, to)
     \/ \E f \in Kinds : Look(r, f)
     \/ \E k \in RecoveryKeys : AddKey(r, k) \/ RemoveKey(r, k) \/ MoveContact(r, k)
     \/ \E f \in Kinds : SubmitPropose(r, f) \/ SubmitApprove(r, f) \/ SubmitExecute(r, f)
     \/ SubmitRejection(r)

GoOn(r) ==
  /\ ~Resting(r)
  /\ \/ Stage(r) \/ Announce(r)
     \/ FindSettled(r) \/ FindOpen(r) \/ FindNothing(r) \/ AskTip(r) \/ FindLanded(r)
     \/ ResolveColumns(r) \/ TellOutcome(r) \/ Clear(r)
     \/ Retire(r) \/ CheckKeys(r) \/ MarkKey(r) \/ SettleKeys(r) \/ FollowContact(r)
     \/ \E k \in RecoveryKeys : WriteRow(r, k)
     \/ RecoveryVote(r) \/ ConsumeGrant(r)
     \/ Landing(r) \/ Withdraw(r) \/ Die(r)

Step(r) == Begin(r) \/ GoOn(r)

Next ==
  \/ \E r \in Requests : Step(r)
  \/ \E f \in Roles : VerifyCode(f)
  \/ PrepareRejection \/ Watch
  \/ \E i \in Indices : Ripen(i) \/ Close(i)

Spec == Init /\ [][Next]_vars

-----------------------------------------------------------------------------

\* The chain executed a change that put this key or this amount in the Settings.
Installed(to) ==
  \E i \in Indices : /\ proposal[i].standing = "executed"
                     /\ to \in proposal[i].change.add \cup {proposal[i].change.limit}

\* The chain executed a change that took this key out of the Settings, where it
\* had to be: a change is refused otherwise, and none drops what it adds.
TakenOut(k) ==
  \E i \in Indices : proposal[i].standing = "executed" /\ k \in proposal[i].change.drop

\* A column or a recovery row is committed only for a key that the chain holds or,
\* between the reading and the writing, took out again: assertLanded, rotationLanded
\* and the note that an executed proposal proves some change landed, not this one.
CommitsWhatLanded ==
  [][/\ \A f \in Roles : key'[f] # key[f] =>
          (key'[f] \in signers /\ key[f] \notin signers) \/ TakenOut(key'[f])
     /\ \A k \in RecoveryKeys : rows[k].status = "pending_add" /\ rows'[k].status = "active" =>
          k \in signers \/ TakenOut(k)]_vars

\* What Activity says was executed, the chain executed: a limit or a recovery change
\* at that index, a rotation at some index, where it was found among the signers, and
\* a new key or amount is one that an executed change installed, although two flows
\* may hold one index and a column be committed for a proposal that was another's.
ExecutedIsBacked ==
  \A e \in told : e.what = "executed" =>
    /\ e.kind \notin Roles => proposal[e.index].standing = "executed"
    /\ e.kind \in Columns => Installed(e.to)

\* A rotation told as rejected has not landed by then, even when its proposal was
\* closed before anybody settled it (resolveWithoutProposal), unless another change
\* took the new key out again.  It may land later: see the README.
RotationsAreRejectedTruly ==
  [][\A e \in told' \ told : e.what = "rejected" /\ e.kind \in Roles =>
       \/ ~ (proposal[e.index].standing = "executed" /\ proposal[e.index].change.add = {e.to})
       \/ TakenOut(e.to)]_vars

\* The device, the passkey and the limit never wait together, whoever starts
\* and whoever settles: what the lock around each start is for.
OneColumnAtATime ==
  \A f, g \in Columns : staged[f].index # 0 /\ staged[g].index # 0 => f = g

-----------------------------------------------------------------------------
(* The promise the services keep *)

Executions == {proposal[i].change : i \in {j \in Indices : proposal[j].standing = "executed"}}

Promise == INSTANCE SettingsPromise WITH
  holder <- [f \in Roles |-> CHOOSE k \in PhoneKeys[f] : k \in signers],
  backup <- signers \cap RecoveryKeys,
  amount <- limit,
  installed <- UNION {c.add \cup ({c.limit} \ {None}) : c \in Executions},
  gone <- UNION {c.drop : c \in Executions},
  onFile <- key,
  inForce <- Backing,
  reported <- {e.to : e \in {x \in told : x.what = "executed" /\ x.kind \in Columns}}

\* Changes that are staged, proposed, voted, closed and settled by requests that race
\* and die implement SettingsPromise: the Account always has one device key and one
\* passkey, and our rows and reports only follow what its Settings did.
KeepsPromise == Promise!Spec

=============================================================================
