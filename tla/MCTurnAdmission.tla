-------------------------- MODULE MCTurnAdmission --------------------------
(***************************************************************************)
(* Instances of TurnAdmission: one session, one or two trigger mails, and  *)
(* one or two guards to compete for.  Dispatch is a set of model values.   *)
(***************************************************************************)
EXTENDS TurnAdmission
=============================================================================
