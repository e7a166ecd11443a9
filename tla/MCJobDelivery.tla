---------------------------- MODULE MCJobDelivery ----------------------------
(* Instances of JobDelivery for TLC. *)
EXTENDS JobDelivery

CONSTANTS j1, j2

Jobs1 == {j1}
Jobs2 == {j1, j2}
==============================================================================
