---------------------------- MODULE RateLimiter -----------------------------
(***************************************************************************)
(* internal/ratelimit, the limiter in the process's memory: token buckets  *)
(* that refill with time.  Guard takes a whole Check as one step and time  *)
(* as a refill of any size; here the clock is explicit and Check is taken  *)
(* limit by limit, its mutex held, while other handlers wait for it.       *)
(*                                                                         *)
(* A bucket of a limit of r requests per window w gains r / w tokens in a  *)
(* unit of time.  Tokens are counted in units of 1 / w, so that a request  *)
(* costs w and all amounts are whole: the code's floating-point sums are   *)
(* taken to be exact.                                                      *)
(***************************************************************************)
EXTENDS Naturals, Sequences, FiniteSets

CONSTANTS
    Callers,  \* handlers that call Check
    Tools,
    Agents,
    Names,    \* names of limits
    Limits,   \* Limiter.rules
    MaxTime,  \* where the clock stops: a bound of the model
    Nil       \* no bucket, no request; the key of global limits

Limit == [name : Names, tools : SUBSET Tools, requests : Nat \ {0}, window : Nat \ {0},
          key : {"agent", "tool", "global"}]

ASSUME LimiterAssumption ==
    /\ Limits \in Seq(Limit) /\ MaxTime \in Nat
    /\ Nil \notin [tokens : Nat, requests : Nat \ {0}, window : Nat \ {0}, last : Nat]
    /\ Nil \notin [tool : Tools, agent : Agents]

VARIABLES
    now,       \* time.Now
    at,        \* where a caller is
    request,   \* the tool and agent it asks about
    time,      \* Check's now, read once under the mutex
    next,      \* the limit its loop has reached
    answer,    \* what its last Check returned: the limit exceeded, or 0
    buckets,   \* Limiter.buckets
    charges,   \* history: when each bucket was charged
    refusal    \* history: where and when a limit was last exceeded

callers == <<at, request, time, next, answer>>
history == <<charges, refusal>>
vars == <<now, callers, buckets, history>>

Keys    == Names \X (Agents \cup Tools \cup {Nil})
Request == [tool : Tools, agent : Agents]
Bucket  == [tokens : Nat, requests : Nat \ {0}, window : Nat \ {0}, last : Nat]
Refusal == [key : Keys, time : Nat, charged : Nat]

Init ==
    /\ now = 0 /\ at = [c \in Callers |-> "idle"]
    /\ request = [c \in Callers |-> Nil] /\ time = [c \in Callers |-> 0]
    /\ next = [c \in Callers |-> 1] /\ buckets = [k \in Keys |-> Nil]
    /\ answer = [c \in Callers |-> 0]
    /\ charges = [k \in Keys |-> <<>>] /\ refusal = Nil

Tick == /\ now < MaxTime /\ now' = now + 1
        /\ UNCHANGED <<callers, buckets, history>>

-----------------------------------------------------------------------------
Call(c, r) ==
    /\ at[c] = "idle"
    /\ at' = [at EXCEPT ![c] = "calling"] /\ request' = [request EXCEPT ![c] = r]
    /\ UNCHANGED <<now, time, next, answer, buckets, history>>

\* l.mu.Lock(), and the time of this check.
LockUnheld_(c) ==                          \* the mutex is not taken
    /\ at[c] = "calling"
    /\ at' = [at EXCEPT ![c] = "visiting"]
    /\ time' = [time EXCEPT ![c] = now] /\ next' = [next EXCEPT ![c] = 1]
    /\ UNCHANGED <<now, request, answer, buckets, history>>
Lock(c) ==
    /\ at[c] = "calling" /\ \A d \in Callers : at[d] # "visiting"
    /\ at' = [at EXCEPT ![c] = "visiting"]
    /\ time' = [time EXCEPT ![c] = now] /\ next' = [next EXCEPT ![c] = 1]
    /\ UNCHANGED <<now, request, answer, buckets, history>>

\* Check returns its Result, and the deferred Unlock lets another caller in.
Return(c, exceeded) ==
    /\ answer' = [answer EXCEPT ![c] = exceeded]
    /\ at' = [at EXCEPT ![c] = "idle"] /\ request' = [request EXCEPT ![c] = Nil]
    /\ time' = [time EXCEPT ![c] = 0] /\ next' = [next EXCEPT ![c] = 1]

\* getOrCreateBucket and the refill.
Capacity(b) == b.requests * b.window
Fresh(limit, t) == [tokens |-> limit.requests * limit.window, requests |-> limit.requests,
                    window |-> limit.window, last |-> t]
Gain(b, t) == b.requests * (t - b.last)
RefilledUncapped_(b, t) ==                 \* tokens are saved up without bound
    [b EXCEPT !.tokens = @ + Gain(b, t), !.last = t]
Refilled(b, t) ==
    [b EXCEPT !.tokens = IF @ + Gain(b, t) > Capacity(b) THEN Capacity(b) ELSE @ + Gain(b, t),
              !.last = t]
KeyOf(limit, r) == <<limit.name, CASE limit.key = "tool"   -> r.tool
                                   [] limit.key = "global" -> Nil
                                   [] limit.key = "agent"  -> r.agent>>

Charged(i, r) == IF r.tool \in Limits[i].tools THEN {KeyOf(Limits[i], r)} ELSE {}

\* One turn of the loop: a limit that does not match is passed over, a bucket
\* with less than a token ends the check, any other pays one.
Skip(c) ==
    /\ request[c].tool \notin Limits[next[c]].tools
    /\ next' = [next EXCEPT ![c] = @ + 1]
    /\ UNCHANGED <<at, request, time, answer, buckets, history>>
PayUnguarded_(c, k, b) ==                  \* an empty bucket pays too
    /\ buckets' = [buckets EXCEPT ![k] = [b EXCEPT !.tokens = @ - b.window]]
    /\ charges' = [charges EXCEPT ![k] = Append(@, b.last)]
    /\ next' = [next EXCEPT ![c] = @ + 1]
    /\ UNCHANGED <<at, request, time, answer, refusal>>
Pay(c, k, b) ==
    /\ b.tokens >= b.window
    /\ buckets' = [buckets EXCEPT ![k] = [b EXCEPT !.tokens = @ - b.window]]
    /\ charges' = [charges EXCEPT ![k] = Append(@, b.last)]
    /\ next' = [next EXCEPT ![c] = @ + 1]
    /\ UNCHANGED <<at, request, time, answer, refusal>>
Exceed(c, k, b) ==
    /\ b.tokens < b.window
    /\ buckets' = [buckets EXCEPT ![k] = b]
    /\ refusal' = [key |-> k, time |-> b.last, charged |-> Len(charges[k])]
    /\ Return(c, next[c]) /\ UNCHANGED charges
KeyAt(c) == KeyOf(Limits[next[c]], request[c])
BucketAt(c) ==
    Refilled(IF buckets[KeyAt(c)] = Nil THEN Fresh(Limits[next[c]], time[c])
                                        ELSE buckets[KeyAt(c)], time[c])
Charge(c) ==
    /\ request[c].tool \in Limits[next[c]].tools
    /\ Pay(c, KeyAt(c), BucketAt(c)) \/ Exceed(c, KeyAt(c), BucketAt(c))

Visit(c) ==
    /\ at[c] = "visiting" /\ next[c] \in DOMAIN Limits
    /\ Skip(c) \/ Charge(c)
    /\ UNCHANGED now

\* The end of the loop: not exceeded.
Admit(c) ==
    /\ at[c] = "visiting" /\ next[c] \notin DOMAIN Limits
    /\ Return(c, 0) /\ UNCHANGED <<now, buckets, history>>

Next == \/ Tick
        \/ \E c \in Callers : Lock(c) \/ Visit(c) \/ Admit(c)
        \/ \E c \in Callers, r \in Request : Call(c, r)

Spec == Init /\ [][Next]_vars

-----------------------------------------------------------------------------
TypeOK ==
    /\ now \in Nat /\ at \in [Callers -> {"idle", "calling", "visiting"}]
    /\ request \in [Callers -> Request \cup {Nil}]
    /\ time \in [Callers -> Nat] /\ next \in [Callers -> 1 .. Len(Limits) + 1]
    /\ answer \in [Callers -> 0 .. Len(Limits)]
    /\ buckets \in [Keys -> Bucket \cup {Nil}]
    /\ \A k \in Keys : buckets[k] # Nil => buckets[k].tokens <= Capacity(buckets[k])
    /\ charges \in [Keys -> Seq(Nat)] /\ refusal \in Refusal \cup {Nil}
    /\ \A c \in Callers : at[c] # "idle" => request[c] \in Request

\* No stretch of time sees a bucket pay for more than it holds when full and
\* what it gains meanwhile, whichever handlers call, wait and are refused in
\* which order: over one window that is at most twice the limit's requests
\* (Limiter.Check).
WithinRate ==
    \A k \in Keys : \A j \in DOMAIN charges[k] : \A i \in 1 .. j :
        (j - i + 1) * buckets[k].window
            <= Capacity(buckets[k]) + buckets[k].requests * (charges[k][j] - charges[k][i])

\* A limit refuses only a key that has paid for as many requests as the limit
\* grants, all of them less than a window ago; some of those may have been
\* refused by a later limit.
RefusedInTheWindow ==
    refusal # Nil =>
        LET b == buckets[refusal.key]
        IN  /\ refusal.charged >= b.requests
            /\ \A i \in refusal.charged - b.requests + 1 .. refusal.charged :
                  refusal.time - charges[refusal.key][i] < b.window

\* How the whole of a Check is one step of TokenBuckets, at its return: what
\* the check in the loop has paid so far still counts as there, and a bucket
\* not made yet counts as empty, to be filled when it is made.
Whole(b) == IF b = Nil THEN 0 ELSE b.tokens \div b.window
PaidSoFar(k) ==
    {j \in DOMAIN Limits : \E c \in Callers :
        at[c] = "visiting" /\ j < next[c] /\ k \in Charged(j, request[c])}
Level == [k \in Keys |-> Whole(buckets[k]) + Cardinality(PaidSoFar(k))]
Atomic == INSTANCE TokenBuckets WITH
    Requests <- Request,
    Limited  <- Len(Limits),
    Grants   <- [i \in DOMAIN Limits |-> Limits[i].requests],
    Charges  <- [i \in DOMAIN Limits |-> [r \in Request |-> Charged(i, r)]],
    asked    <- request,
    level    <- Level

\* Every Check is as good as done at one instant, however the handlers' calls
\* and the clock interleave: no other check sees some of its charges without
\* the rest, and its answer is right for that instant (Limiter.Check, mu).
ChecksAreAtomic == Atomic!TokenSpec
=============================================================================
