--------------------------- MODULE MCRateLimiter ----------------------------
(***************************************************************************)
(* A small instance of RateLimiter: a burst limit per agent and a slower   *)
(* global one on one of its tools, so that a check may pay the first and   *)
(* be refused by the second.                                               *)
(***************************************************************************)
EXTENDS RateLimiter

MCLimits ==
    <<[name |-> "burst", tools |-> {"read", "drop"}, requests |-> 2, window |-> 2, key |-> "agent"],
      [name |-> "slow", tools |-> {"drop"}, requests |-> 1, window |-> 3, key |-> "global"]>>
=============================================================================
