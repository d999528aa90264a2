--------------------------- MODULE MCRedisLimiter ---------------------------
(***************************************************************************)
(* A small instance of RedisLimiter: a limit per agent, a tighter global   *)
(* one on one of its tools, and one that shares the name of the first and  *)
(* so its counter.                                                         *)
(***************************************************************************)
EXTENDS RedisLimiter, TLC

MCLimits ==
    <<[name |-> "calls", tools |-> {"read", "drop"}, requests |-> 1, key |-> "agent"],
      [name |-> "drops", tools |-> {"drop"}, requests |-> 1, key |-> "global"],
      [name |-> "calls", tools |-> {"read"}, requests |-> 2, key |-> "agent"]>>

Symmetry == Permutations(Handlers)         \* only invariants are checked
=============================================================================
