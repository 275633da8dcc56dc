---------------------------- MODULE MCRateLimiter ------------------------------
(* An instance of RateLimiter for TLC. *)
EXTENDS RateLimiter, TLC

CONSTANT Busy   \* the key that asks often, the others ask once

OneBusyKey == [k \in Keys |-> IF k = Busy THEN 3 ELSE 1]

\* Request slots are interchangeable, and so are the quiet keys.
Anyone == Permutations(Requests) \cup Permutations(Keys \ {Busy})
===============================================================================
