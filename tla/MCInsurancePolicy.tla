-------------------------- MODULE MCInsurancePolicy -------------------------
(***************************************************************************)
(* Small instance of InsurancePolicy: two policy ids reachable both by     *)
(* registration and by subscription, one plan, one payer.                  *)
(***************************************************************************)
EXTENDS InsurancePolicy
=============================================================================
