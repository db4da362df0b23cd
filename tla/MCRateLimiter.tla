---------------------------- MODULE MCRateLimiter ----------------------------
(* The rate limiter in front of two processes, which are alike.             *)
EXTENDS RateLimiter, TLC

Symmetry == Permutations(Servers)
=============================================================================
