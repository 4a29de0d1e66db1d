----------------------------- MODULE MCGuardian -----------------------------
(* The launcher protocol, for TLC. *)
EXTENDS GuardianProperties
=============================================================================
