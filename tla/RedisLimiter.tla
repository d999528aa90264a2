---------------------------- MODULE RedisLimiter ----------------------------
(***************************************************************************)
(* internal/ratelimit/redis.go: limits counted in a Redis that several     *)
(* guards share.  A check sends INCR for the counter of each limit that    *)
(* matches, EXPIRE to a counter it found new, and refuses when the count   *)
(* exceeds the limit; no mutex and no transaction holds its commands       *)
(* together, and an error of INCR passes the limit over.                   *)
(*                                                                         *)
(* Commands of other handlers come in between, replies are lost and the    *)
(* client library sends the command again, and a guard may stop at any     *)
(* point.  A counter lives from the INCR that creates it to the expiry of  *)
(* its key; its lives are numbered.                                        *)
(***************************************************************************)
EXTENDS Naturals, Sequences

CONSTANTS
    Handlers,   \* handlers of all the guards; each may stop with its guard
    Tools,
    Agents,
    Names,      \* of limits; those that share one may share a counter
    Limits,     \* RedisLimiter.rules, the same document in every guard
    Faulty,     \* whether commands fail, replies are lost and guards stop
    MaxCount,   \* commands on one life of a counter: a bound of the model
    MaxLife,    \* lives of a counter: a bound of the model
    Nil         \* no request; the key of global limits

Limit == [name : Names, tools : SUBSET Tools, requests : Nat \ {0},
          key : {"agent", "tool", "global"}]

ASSUME RedisAssumption ==
    /\ Limits \in Seq(Limit) /\ Faulty \in BOOLEAN
    /\ MaxCount \in Nat /\ MaxLife \in Nat \ {0} /\ Nil \notin [tool : Tools, agent : Agents]

VARIABLES
    at,        \* where a handler is
    request,   \* the tool and agent its check is about
    next,      \* the limit its loop has reached
    count,     \* the answer to its INCR
    counter,   \* the value of a key; 0 when there is none
    ttl,       \* the keys with an expiry
    life,      \* which life of the key it is
    paid,      \* history: the numbers a check was given
    admitted,  \* history: the numbers of the checks that were admitted
    faulted    \* history: the keys a fault has met in their present life

handlers == <<at, request, next, count>>
redis    == <<counter, ttl, life>>
history  == <<paid, admitted, faulted>>
vars     == <<handlers, redis, history>>

Request  == [tool : Tools, agent : Agents]
\* redisBucketKey: a key is a counter's, of a name and what the name counts.
\* A number is the answer to an INCR for a limit in one of the counter's lives.
Keys     == Names \X (Tools \cup Agents \cup {Nil})
Numbers  == [limit : DOMAIN Limits, key : Keys, life : 1 .. MaxLife, no : 1 .. MaxCount]
KeyAt(h) ==
    <<Limits[next[h]].name, CASE Limits[next[h]].key = "tool"   -> request[h].tool
                              [] Limits[next[h]].key = "global" -> Nil
                              [] Limits[next[h]].key = "agent"  -> request[h].agent>>

Init ==
    /\ at = [h \in Handlers |-> "idle"] /\ request = [h \in Handlers |-> Nil]
    /\ next = [h \in Handlers |-> 1] /\ count = [h \in Handlers |-> 0]
    /\ counter = [k \in Keys |-> 0] /\ ttl = {} /\ life = [k \in Keys |-> 1]
    /\ paid = [h \in Handlers |-> {}]
    /\ admitted = {} /\ faulted = {}

\* A handler's check ends; its numbers are kept when it is admitted.
Leave(h) ==
    /\ at' = [at EXCEPT ![h] = "idle"] /\ request' = [request EXCEPT ![h] = Nil]
    /\ next' = [next EXCEPT ![h] = 1] /\ count' = [count EXCEPT ![h] = 0]
    /\ paid' = [paid EXCEPT ![h] = {}]

-----------------------------------------------------------------------------
Call(h, r) ==
    /\ at[h] = "idle"
    /\ at' = [at EXCEPT ![h] = "looping"] /\ request' = [request EXCEPT ![h] = r]
    /\ UNCHANGED <<next, count, redis, history>>

Looping(h) == at[h] = "looping" /\ next[h] \in DOMAIN Limits
Matches(h) == request[h].tool \in Limits[next[h]].tools
GoOnStale_(h) ==                           \* the last answer is kept
    at' = [at EXCEPT ![h] = "looping"] /\ next' = [next EXCEPT ![h] = @ + 1] /\ UNCHANGED <<request, count>>
GoOn(h) == /\ at' = [at EXCEPT ![h] = "looping"] /\ next' = [next EXCEPT ![h] = @ + 1]
           /\ count' = [count EXCEPT ![h] = 0] /\ UNCHANGED request

Skip(h) == /\ Looping(h) /\ ~ Matches(h) /\ GoOn(h)
           /\ UNCHANGED <<redis, history>>

\* INCR, executed and answered.
Incr(h) ==
    /\ Looping(h) /\ Matches(h) /\ counter[KeyAt(h)] < MaxCount
    /\ counter' = [counter EXCEPT ![KeyAt(h)] = @ + 1]
    /\ count' = [count EXCEPT ![h] = counter[KeyAt(h)] + 1]
    /\ at' = [at EXCEPT ![h] = "counted"]
    /\ paid' = [paid EXCEPT ![h] = @ \cup {[limit |-> next[h], key |-> KeyAt(h),
                                            life |-> life[KeyAt(h)], no |-> count'[h]]}]
    /\ UNCHANGED <<request, next, ttl, life, admitted, faulted>>
\* Executed, and the reply lost: the client sends it again, or gives up.
IncrLost(h) ==
    /\ Faulty /\ Looping(h) /\ Matches(h) /\ counter[KeyAt(h)] < MaxCount
    /\ counter' = [counter EXCEPT ![KeyAt(h)] = @ + 1]
    /\ faulted' = faulted \cup {KeyAt(h)}
    /\ UNCHANGED <<handlers, ttl, life, paid, admitted>>
IncrFails(h) ==
    /\ Faulty /\ Looping(h) /\ Matches(h)
    /\ GoOn(h)                             \* fail open
    /\ UNCHANGED <<redis, history>>

\* EXPIRE, whose result is not looked at.
CreatesAtLimit_(h) ==                      \* the expiry is set when the limit is met
    count[h] = Limits[next[h]].requests
Creates(h) == count[h] = 1
Expire(h) ==
    /\ at[h] = "counted" /\ Creates(h)
    /\ \/ /\ ttl' = IF counter[KeyAt(h)] > 0 THEN ttl \cup {KeyAt(h)} ELSE ttl
          /\ UNCHANGED faulted
       \/ Faulty /\ faulted' = faulted \cup {KeyAt(h)} /\ UNCHANGED ttl
    /\ at' = [at EXCEPT ![h] = "deciding"]
    /\ UNCHANGED <<request, next, count, counter, life, paid, admitted>>

\* The comparison with the limit.
Decidable(h) == at[h] = "deciding" \/ (at[h] = "counted" /\ ~ Creates(h))
ExceedsLate_(h) == count[h] > Limits[next[h]].requests + 1   \* one too late
Exceeds(h) == count[h] > Limits[next[h]].requests
Decide(h) ==
    /\ Decidable(h)
    /\ IF Exceeds(h) THEN Leave(h) ELSE GoOn(h) /\ UNCHANGED paid
    /\ UNCHANGED <<redis, admitted, faulted>>

Admit(h) ==
    /\ at[h] = "looping" /\ next[h] \notin DOMAIN Limits
    /\ admitted' = admitted \cup paid[h]
    /\ Leave(h)
    /\ UNCHANGED <<redis, faulted>>

\* Redis: the window has passed since EXPIRE.
WindowPasses(k) ==
    /\ k \in ttl /\ life[k] < MaxLife
    /\ counter' = [counter EXCEPT ![k] = 0] /\ ttl' = ttl \ {k}
    /\ life' = [life EXCEPT ![k] = @ + 1] /\ faulted' = faulted \ {k}
    /\ UNCHANGED <<handlers, paid, admitted>>

\* The guard of h stops and is started again.
Crash(h) ==
    /\ Faulty /\ at[h] # "idle"
    /\ Leave(h)
    /\ faulted' = IF at[h] = "counted" /\ Creates(h) THEN faulted \cup {KeyAt(h)} ELSE faulted
    /\ UNCHANGED <<redis, admitted>>

Check(h) == \/ Skip(h) \/ Incr(h) \/ IncrFails(h) \/ Expire(h) \/ Decide(h) \/ Admit(h)
Next ==
    \/ \E h \in Handlers : Check(h) \/ IncrLost(h) \/ Crash(h)
    \/ \E h \in Handlers, r \in Request : Call(h, r)
    \/ \E k \in Keys : WindowPasses(k)

Spec == Init /\ [][Next]_vars

-----------------------------------------------------------------------------
TypeOK ==
    /\ at \in [Handlers -> {"idle", "looping", "counted", "deciding"}]
    /\ request \in [Handlers -> Request \cup {Nil}]
    /\ next \in [Handlers -> 1 .. Len(Limits) + 1] /\ count \in [Handlers -> 0 .. MaxCount]
    /\ counter \in [Keys -> 0 .. MaxCount] /\ ttl \subseteq Keys
    /\ life \in [Keys -> 1 .. MaxLife]
    /\ paid \in [Handlers -> SUBSET Numbers] /\ admitted \subseteq Numbers
    /\ faulted \subseteq Keys
    /\ \A k \in ttl : counter[k] > 0
    /\ \A h \in Handlers :
          /\ count[h] > 0 <=> at[h] \in {"counted", "deciding"}
          /\ count[h] > 0 => next[h] \in DOMAIN Limits
          /\ at[h] # "idle" => request[h] \in Request

\* In one life of a counter no more checks are admitted on it than any limit
\* it counts for grants, over all guards, however their commands interleave,
\* fail or are sent twice, but for those whose INCR was not answered: each
\* holds a number within the limit, and no other check has that number, nor for
\* another limit of the same name (Check).
Same(t, s) == t.key = s.key /\ t.life = s.life /\ t.no = s.no
WithinTheLimit == \A t \in admitted : t.no <= Limits[t.limit].requests
OnesOwn == \A h \in Handlers : \A t \in paid[h] :
              /\ \A s \in admitted : ~ Same(t, s)
              /\ \A g \in Handlers \ {h} : \A s \in paid[g] : ~ Same(t, s)
SharedLimitHolds == WithinTheLimit /\ OnesOwn

\* A counter without an expiry is about to be given one, unless a fault met
\* the command that would have: no order of the handlers' commands alone
\* leaves a counter that refuses for ever (Incr and Expire of Check).
UnexpiringIsFaulty ==
    \A k \in Keys : counter[k] > 0 /\ k \notin ttl =>
        k \in faulted \/ \E h \in Handlers : at[h] = "counted" /\ count[h] = 1 /\ KeyAt(h) = k
=============================================================================
