------------------------- MODULE MCBookingLifecycle -------------------------
(* Instances of BookingLifecycle for TLC.                                   *)
EXTENDS BookingLifecycle, TLC

CONSTANTS l1, l2, q1, q2

(* Requests do not differ, nor do lines of one kind.                        *)
Symmetry == Permutations(Requests) \cup Permutations(Lines)
=============================================================================
