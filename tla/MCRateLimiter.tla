---------------------------- MODULE MCRateLimiter ----------------------------
(* RateLimiter with the goroutines interchangeable. *)
EXTENDS RateLimiter, TLC

Interchangeable == Permutations(Procs)

=============================================================================
