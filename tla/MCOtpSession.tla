---------------------------- MODULE MCOtpSession ----------------------------
(* Small instances of OtpSession for TLC. *)
EXTENDS OtpSession, TLC

(* The requests are interchangeable. *)
RequestSymmetry == Permutations(Requests)
=============================================================================
