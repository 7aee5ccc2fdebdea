---------------------------- MODULE MCPaymentCase -----------------------------
(* Small instances of PaymentCase. *)
EXTENDS PaymentCase, TLC

Symmetry == Permutations(Requests) \cup Permutations(Intents)
=============================================================================
