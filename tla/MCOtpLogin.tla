----------------------------- MODULE MCOtpLogin -----------------------------
(***************************************************************************)
(* Small instances of OtpLogin for TLC.                                    *)
(***************************************************************************)
EXTENDS OtpLogin, TLC

\* Requests and verifications are interchangeable; no property is a liveness
\* property, so the symmetry is sound.
Interchangeable == Permutations(Request) \cup Permutations(Verifier)
=============================================================================
