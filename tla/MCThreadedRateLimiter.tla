----------------------- MODULE MCThreadedRateLimiter -----------------------
(* Symmetry of the worker threads. *)
EXTENDS ThreadedRateLimiter, TLC

Symmetry == Permutations(Threads)
=============================================================================
