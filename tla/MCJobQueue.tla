----------------------------- MODULE MCJobQueue -----------------------------
(* TLC instance of JobQueue: two workers, each with a pool of one.           *)
EXTENDS JobQueue, TLC

CONSTANTS w1, w2, s1, s2

OnePerWorker == (s1 :> w1) @@ (s2 :> w2)

=============================================================================
