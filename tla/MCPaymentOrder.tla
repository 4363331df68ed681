--------------------------- MODULE MCPaymentOrder ---------------------------
(* Instances of PaymentOrder for TLC: see the PaymentOrder*.cfg files. *)
EXTENDS PaymentOrder, TLC

\* handlers are interchangeable (used by the runs without liveness properties)
WorkerSymmetry == Permutations(Workers)
=============================================================================
