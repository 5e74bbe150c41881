----------------------------- MODULE MCRateLimiter -----------------------------
(* Small instances of RateLimiter: one address and one signed-in user behind *)
(* it, so that the caller is charged under two global keys.                  *)
EXTENDS RateLimiter

CONSTANTS u1, a1

OneUser == {u1}
OneAddress == {a1}
=============================================================================
