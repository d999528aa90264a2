---------------------------- MODULE TokenBuckets ----------------------------
(***************************************************************************)
(* What the limiter promises the handlers that share it: a check is one    *)
(* step, whatever the others do meanwhile.  It goes through the limits in  *)
(* order, takes a token for each one that concerns the request, and stops  *)
(* at the first that has none left; that one is its answer, and the tokens *)
(* it has taken until then are gone.  Between checks buckets fill up.      *)
(* RateLimiter implements it, and Guard takes its checks for such steps.   *)
(***************************************************************************)
EXTENDS Naturals, FiniteSets

CONSTANTS
    Callers, Requests, Keys,
    Limited,   \* how many limits there are
    Grants,    \* the requests that each one grants
    Charges,   \* the buckets that it charges a request to: one, or none
    Nil        \* no request

VARIABLES
    asked,     \* what a caller waits to hear about
    level,     \* the tokens of each bucket, those of one not made yet being 0
    answer     \* the limit a caller was last refused by, or 0

tokenVars == <<asked, level, answer>>

\* The tokens a check of r has taken from the bucket k when it comes to limit i.
Taken(r, i, k) == Cardinality({j \in 1 .. i - 1 : k \in Charges[j][r]})

\* A check of r, with the buckets filled to lv, ends at limit i, or beyond the
\* last one, and leaves them at left.
Passes(r, lv, j) == \A k \in Charges[j][r] : lv[k] > Taken(r, j, k)
Stops(r, lv, i)  == \E k \in Charges[i][r] : lv[k] = Taken(r, i, k)
Checked(r, i, lv, left) ==
    /\ \A j \in 1 .. i - 1 : Passes(r, lv, j)
    /\ i <= Limited => Stops(r, lv, i)
    /\ left = [k \in Keys |-> lv[k] - Taken(r, i, k)]

TokenInit == /\ asked = [c \in Callers |-> Nil]
             /\ level = [k \in Keys |-> 0]
             /\ answer = [c \in Callers |-> 0]

Ask(c) == /\ asked[c] = Nil
          /\ \E r \in Requests : asked' = [asked EXCEPT ![c] = r]
          /\ UNCHANGED <<level, answer>>

\* No bucket holds more than one of its limits grants.
Fits(k, n) == \E i \in 1 .. Limited : \E r \in Requests : k \in Charges[i][r] /\ n <= Grants[i]
Replenish == /\ DOMAIN level' = Keys
             /\ \A k \in Keys : level'[k] # level[k] => level'[k] > level[k] /\ Fits(k, level'[k])
             /\ UNCHANGED <<asked, answer>>

Answer(c) == /\ asked[c] # Nil
             /\ \E i \in 1 .. Limited + 1 :
                   /\ Checked(asked[c], i, level, level')
                   /\ answer' = [answer EXCEPT ![c] = IF i <= Limited THEN i ELSE 0]
             /\ asked' = [asked EXCEPT ![c] = Nil]

TokenNext == Replenish \/ \E c \in Callers : Ask(c) \/ Answer(c)
TokenSpec == TokenInit /\ [][TokenNext]_tokenVars
=============================================================================
