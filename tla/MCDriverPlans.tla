---------------------------- MODULE MCDriverPlans ----------------------------
(* The sessions of MCDriver, held against what DriverPlans assumes of them. *)
EXTENDS MCDriver, DriverPlans
=============================================================================
