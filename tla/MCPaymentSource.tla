--------------------------- MODULE MCPaymentSource ---------------------------
(* Small instances of PaymentSource. *)
EXTENDS PaymentSource, TLC

Symmetry == Permutations(Readers) \cup Permutations(Reads)
=============================================================================
