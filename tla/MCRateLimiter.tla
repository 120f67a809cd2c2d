--------------------------- MODULE MCRateLimiter ---------------------------
(* Three clients and room for two, bursts of two, two ticks to a token.    *)
EXTENDS RateLimiter, TLC

KeySymmetry == Permutations(Keys)
=============================================================================
