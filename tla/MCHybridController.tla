------------------------- MODULE MCHybridController -------------------------
(* HybridController on small instances: every valid ordering of four angle *)
(* thresholds, samples on both sides of every threshold, and a turn of ten *)
(* units for the moving reference.                                         *)
EXTENDS HybridController

Bands(be, bx, ce, cx, settle) ==
  [balance_enter_angle |-> be, balance_exit_angle |-> bx,
   capture_enter_angle |-> ce, capture_exit_angle |-> cx,
   balance_enter_rate |-> 1, balance_exit_rate |-> 2,
   capture_enter_rate |-> 2, capture_exit_rate |-> 3,
   settle_cycles |-> settle]

At(theta, theta_dot, phi, phi_dot, dt) ==
  [theta |-> theta, theta_dot |-> theta_dot, phi |-> phi,
   phi_dot |-> phi_dot, dt |-> dt]

(* All orders are offered; Init accepts the valid ones.                    *)
MCPolicies ==
  {Bands(be, bx, ce, cx, settle) : be \in 1..2, bx \in 1..3, ce \in 1..4,
                                   cx \in 2..4, settle \in 1..3}

(* Samples around the thresholds, and settled ones whose arm is elsewhere, *)
(* moves, or is seen after a longer interval.                              *)
MCPolicySamples ==
  {At(theta, rate, 0, 0, 1) : theta \in {-4, -2, 0, 1, 2, 3, 4, 5}, rate \in {0, -2, 3}}
MCReferenceSamples ==
  {At(0, 0, phi, phi_dot, dt) :
     phi \in {-12, 6}, phi_dot \in {-2, 1}, dt \in 1..2}
MCSamples == MCPolicySamples \cup MCReferenceSamples

(* One policy for positions every five units, recentering over five time   *)
(* units.                                                                  *)
MCOnePolicy == {Bands(1, 2, 3, 4, 2)}
MCCoarseSamples ==
  {At(theta, 0, phi, 0, 1) : theta \in {0, 1}, phi \in {-10, 10}}
=============================================================================
