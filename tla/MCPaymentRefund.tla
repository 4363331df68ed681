--------------------------- MODULE MCPaymentRefund ---------------------------
(* Instances of PaymentRefund for TLC: see the PaymentRefund*.cfg files. *)
EXTENDS PaymentRefund, TLC

\* handlers are interchangeable
WorkerSymmetry == Permutations(Workers)
==============================================================================
