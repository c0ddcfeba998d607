---------------------------- MODULE BuildLedger ----------------------------
(***************************************************************************)
(* What the records of a world directory promise, without threads, files   *)
(* or locks.  Of every unit the ledger knows the key it claims the unit is *)
(* built with, and what is really served under the unit's name.  An        *)
(* attempt opens the unit, may then disturb what is served, and closes the *)
(* unit by claiming exactly what it serves.  An attempt may also die: the  *)
(* unit then stays open, and only a later attempt closes it.               *)
(***************************************************************************)
CONSTANTS Units, Debs, Keys, NoKey, Absent, Torn

VARIABLES
  claim,    \* the key a unit is recorded as built with, or NoKey
  served,   \* what each .deb of a unit holds
  open      \* the units whose claim does not bind at the moment

Init ==
  /\ claim = [u \in Units |-> NoKey]
  /\ served \in [Units -> [Debs -> {Absent}]]
  /\ open = {}

Open(u) ==
  /\ open' = open \cup {u}
  /\ UNCHANGED <<claim, served>>

Disturb(u, d) ==
  /\ u \in open
  /\ \E c \in Keys \cup {Torn} : served' = [served EXCEPT ![u][d] = c]
  /\ UNCHANGED <<claim, open>>

Forget(u) ==
  /\ claim' = [claim EXCEPT ![u] = NoKey]
  /\ UNCHANGED <<served, open>>

Claim(u, k) ==
  /\ u \in open
  /\ \A d \in Debs : served[u][d] = k
  /\ claim' = [claim EXCEPT ![u] = k]
  /\ open' = open \ {u}
  /\ UNCHANGED served

Next ==
  \E u \in Units :
    \/ Open(u)
    \/ \E d \in Debs : Disturb(u, d)
    \/ Forget(u)
    \/ \E k \in Keys : Claim(u, k)

Spec == Init /\ [][Next]_<<claim, served, open>>

(* A unit that is not open is served with the key it is claimed for.       *)
ClaimBinds ==
  \A u \in Units \ open :
    claim[u] # NoKey => \A d \in Debs : served[u][d] = claim[u]
=============================================================================
