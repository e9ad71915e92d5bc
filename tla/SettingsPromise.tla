--------------------------- MODULE SettingsPromise ---------------------------
(***************************************************************************)
(* What a Consumer is promised about the Settings of the Account, with no  *)
(* staged columns, no proposals, no votes and no requests.                 *)
(*                                                                         *)
(* The Account always has one device key and one passkey: a rotation puts  *)
(* one in the place of the other.  The keys on file, the recovery keys in  *)
(* force and what Activity reports come after the Settings, and name only  *)
(* what a change installed there; they may lag, and then name a key that a *)
(* later change took out.                                                  *)
(***************************************************************************)
CONSTANTS PhoneKeys, RecoveryKeys, Limits, FirstKey, Earlier, None

VARIABLES
  holder,     \* the device key and the passkey of the Account
  backup,     \* its recovery keys
  amount,     \* its Spending Limit
  installed,  \* keys and amounts that changes put there
  gone,       \* keys that changes took out
  onFile,     \* the device key and the passkey we know
  inForce,    \* the recovery keys we know
  reported    \* keys and amounts reported as installed

settings == <<holder, backup, amount, installed, gone>>
promise == <<settings, onFile, inForce, reported>>

Roles == {"device", "passkey"}

Init ==
  /\ \E more \in Earlier : backup = {FirstKey["recovery"]} \cup more
  /\ holder = [f \in Roles |-> FirstKey[f]] /\ amount = FirstKey["limit"]
  /\ onFile = holder /\ inForce = backup
  /\ installed = {} /\ gone = {} /\ reported = {}

Change(in, out) ==
  /\ installed' = installed \cup in
  /\ gone' = gone \cup out
  /\ UNCHANGED <<onFile, inForce, reported>>

\* A rotation of the passkey restates the limit.
Rotate(f, k) ==
  /\ k # holder[f]
  /\ holder' = [holder EXCEPT ![f] = k]
  /\ \/ amount' = amount /\ Change({k}, {holder[f]})
     \/ \E n \in Limits : amount' = n /\ Change({k, n}, {holder[f]})
  /\ UNCHANGED backup

Recover(keys) ==
  /\ backup' = keys
  /\ Change(keys \ backup, backup \ keys)
  /\ UNCHANGED <<holder, amount>>

Restrict(n) ==
  /\ amount' = n
  /\ Change({n}, {})
  /\ UNCHANGED <<holder, backup>>

File(f, k) ==
  /\ onFile' = [onFile EXCEPT ![f] = k]
  /\ k \in installed
  /\ k = holder[f] \/ k \in gone
  /\ UNCHANGED <<settings, inForce, reported>>

Enforce(k) ==
  /\ inForce' = inForce \cup {k}
  /\ k \in backup \cup gone
  /\ UNCHANGED <<settings, onFile, reported>>

\* Also of a key the Account still has: withdrawing one change forgets another.
Forget(k) ==
  /\ inForce' = inForce \ {k}
  /\ UNCHANGED <<settings, onFile, reported>>

\* What Activity reports stays reported.
Report ==
  /\ reported \subseteq reported'
  /\ reported' \subseteq reported \cup installed
  /\ UNCHANGED <<settings, onFile, inForce>>

Next ==
  \/ Report
  \/ \E k \in RecoveryKeys : Enforce(k) \/ Forget(k)
  \/ \E f \in Roles : \E k \in PhoneKeys[f] : Rotate(f, k) \/ File(f, k)
  \/ \E keys \in SUBSET RecoveryKeys : Recover(keys)
  \/ \E n \in Limits : Restrict(n)

Spec == Init /\ [][Next]_promise

=============================================================================
