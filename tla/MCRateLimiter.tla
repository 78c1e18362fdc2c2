--------------------------- MODULE MCRateLimiter ---------------------------
(* The rate limiter with model values for clients and ports (see the cfgs). *)
EXTENDS RateLimiter
=============================================================================
