----------------------------- MODULE MCRefresher -----------------------------
(* The refresher on a small instance, with the inductive invariant that      *)
(* RefresherProofs proves.                                                   *)
EXTENDS RefresherProofs

=============================================================================
