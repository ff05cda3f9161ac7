-------------------------- MODULE MCOrderWorkflow ---------------------------
(* TLC instance of OrderWorkflow.                                            *)
EXTENDS OrderWorkflow

CONSTANTS buyer, seller, admin, none, r1, r2, w1

=============================================================================
