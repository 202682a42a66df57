------------------------------ MODULE MCSweep ------------------------------
EXTENDS Sweep

CONSTANTS near, far

(* One follower completes the quorum of three; the other is twice as far.  *)
TwoFollowers == {near, far}
RoundTrips == [n \in TwoFollowers |-> IF n = near THEN 40 ELSE 80]
=============================================================================
