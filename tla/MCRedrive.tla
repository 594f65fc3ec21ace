----------------------------- MODULE MCRedrive -----------------------------
(* Instances of Redrive. *)
EXTENDS Redrive, TLC

CONSTANTS e1, e2, w1

\* e1 may fail and be retried, e2 is refused by its handler for good.
OneRefused == e1 :> "HANDLER_FAILED" @@ e2 :> "NON_RETRYABLE"
=============================================================================
