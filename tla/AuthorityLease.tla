--------------------------- MODULE AuthorityLease ---------------------------
(***************************************************************************)
(* What the supervisor promises about closed-loop authority, without its   *)
(* estimator, its evidence or its reports: authority is granted only on    *)
(* an explicit pending request, lasts until it is revoked, and never comes *)
(* back by itself; the token a grant starts with is zero.                  *)
(***************************************************************************)
EXTENDS Integers

CONSTANTS None, Regimes

VARIABLES
  phase,    \* "Off", "Idle", "Pending" or "Live"
  regime,   \* the regime asked for while Pending or Live, else None
  token     \* command of the token the last cycle returned, or None

vars == <<phase, regime, token>>

Init == phase = "Idle" /\ regime = None /\ token = None

Request(r) ==
  /\ phase \in {"Idle", "Pending"}
  /\ phase' = "Pending"
  /\ regime' = r
  /\ UNCHANGED token

(* A cycle that finds the evidence good turns the request into authority.  *)
Grant ==
  /\ phase = "Pending"
  /\ phase' = "Live"
  /\ token' \in {0, None}
  /\ UNCHANGED regime

Drive ==
  /\ phase = "Live"
  /\ token' \in Int \cup {None}
  /\ UNCHANGED <<phase, regime>>

(* A cycle without authority, in whatever phase.                           *)
Shadow ==
  /\ token' = None
  /\ UNCHANGED <<phase, regime>>

(* A cycle that loses authority drops the request with it.                 *)
Revoke ==
  /\ phase \in {"Pending", "Live"}
  /\ phase' = "Idle"
  /\ regime' = None
  /\ token' = None

(* Cancelling, disabling and re-enabling are decisions of the caller.      *)
Withdraw ==
  /\ phase \in {"Idle", "Pending", "Live"}
  /\ phase' \in {"Idle", "Off"}
  /\ regime' = None
  /\ UNCHANGED token

Enable ==
  /\ phase = "Off"
  /\ phase' = "Idle"
  /\ UNCHANGED <<regime, token>>

Next ==
  \/ \E r \in Regimes : Request(r)
  \/ Grant \/ Drive \/ Shadow \/ Revoke \/ Withdraw \/ Enable

Spec == Init /\ [][Next]_vars
=============================================================================
