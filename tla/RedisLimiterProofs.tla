------------------------- MODULE RedisLimiterProofs -------------------------
(***************************************************************************)
(* For every number of guards, handlers, limits and keys, whatever is lost *)
(* or fails: the types, that the shared limit holds, and that only a fault *)
(* leaves a counter without an expiry.                                     *)
(***************************************************************************)
EXTENDS RedisLimiter, TLAPS

\* A number that was given out is of an earlier life of its counter, or not
\* above what the counter has come to.
Given(t) == \/ t.life < life[t.key]
            \/ t.life = life[t.key] /\ t.no <= counter[t.key]
AllGiven == /\ \A t \in admitted : Given(t)
            /\ \A h \in Handlers : \A t \in paid[h] : Given(t)

\* A check that goes on holds numbers within the limits, but for the one that
\* it has yet to compare.
InLimit(t) == t.no <= Limits[t.limit].requests
Undecided(h, t) == count[h] > 0 /\ t.limit = next[h] /\ t.no = count[h]
Held == \A h \in Handlers : \A t \in paid[h] : InLimit(t) \/ Undecided(h, t)

Share == AllGiven /\ Held /\ WithinTheLimit /\ OnesOwn
IInv  == TypeOK /\ Share

-----------------------------------------------------------------------------
\* The counter a handler at work addresses.
LEMMA KeyAtIsAKey ==
    ASSUME TypeOK, NEW h \in Handlers, at[h] # "idle", next[h] \in DOMAIN Limits
    PROVE  KeyAt(h) \in Keys
  <1>1. request[h] \in Request
    BY DEF TypeOK
  <1>2. request[h].tool \in Tools /\ request[h].agent \in Agents
    BY <1>1 DEF Request
  <1>3. Limits[next[h]].key \in {"agent", "tool", "global"} /\ Limits[next[h]].name \in Names
    <2>1. Limits[next[h]] \in Limit
      BY RedisAssumption
    <2> QED
      BY <2>1 DEF Limit
  <1> QED
    BY <1>2, <1>3 DEF KeyAt, Keys

LEMMA InitIInv == Init => IInv
  <1> SUFFICES ASSUME Init PROVE IInv
    OBVIOUS
  <1>1. 1 \in 1 .. Len(Limits) + 1
    BY RedisAssumption
  <1>2. TypeOK
    <2>1. /\ at \in [Handlers -> {"idle", "looping", "counted", "deciding"}]
          /\ request \in [Handlers -> Request \cup {Nil}]
      BY DEF Init
    <2>2. next \in [Handlers -> 1 .. Len(Limits) + 1] /\ count \in [Handlers -> 0 .. MaxCount]
      BY <1>1, RedisAssumption DEF Init
    <2>3. counter \in [Keys -> 0 .. MaxCount] /\ ttl \subseteq Keys /\ faulted \subseteq Keys
      BY RedisAssumption DEF Init
    <2>4. life \in [Keys -> 1 .. MaxLife]
      BY RedisAssumption DEF Init
    <2>5. paid \in [Handlers -> SUBSET Numbers] /\ admitted \subseteq Numbers
      BY DEF Init
    <2>6. \A h \in Handlers : at[h] = "idle" /\ count[h] = 0
      BY DEF Init
    <2>7. ttl = {}
      BY DEF Init
    <2> QED
      BY <2>1, <2>2, <2>3, <2>4, <2>5, <2>6, <2>7 DEF TypeOK
  <1>3. Share
    BY DEF Init, Share, AllGiven, Held, WithinTheLimit, OnesOwn
  <1> QED
    BY <1>2, <1>3 DEF IInv

-----------------------------------------------------------------------------
\* The loop goes on, or is left: of the types, what it concerns.
LEMMA GoOnTypes ==
    ASSUME TypeOK, NEW h \in Handlers, GoOn(h), at[h] # "idle", next[h] \in DOMAIN Limits
    PROVE  /\ at' \in [Handlers -> {"idle", "looping", "counted", "deciding"}]
           /\ request' \in [Handlers -> Request \cup {Nil}]
           /\ next' \in [Handlers -> 1 .. Len(Limits) + 1] /\ count' \in [Handlers -> 0 .. MaxCount]
           /\ \A g \in Handlers : /\ count'[g] > 0 <=> at'[g] \in {"counted", "deciding"}
                                  /\ count'[g] > 0 => next'[g] \in DOMAIN Limits
                                  /\ at'[g] # "idle" => request'[g] \in Request
  <1>1. next[h] + 1 \in 1 .. Len(Limits) + 1 /\ 0 \in 0 .. MaxCount
    BY RedisAssumption
  <1>2. /\ at' = [at EXCEPT ![h] = "looping"] /\ next' = [next EXCEPT ![h] = @ + 1]
        /\ count' = [count EXCEPT ![h] = 0] /\ request' = request
    BY DEF GoOn
  <1>3. \A g \in Handlers : /\ count'[g] > 0 <=> at'[g] \in {"counted", "deciding"}
                            /\ count'[g] > 0 => next'[g] \in DOMAIN Limits
                            /\ at'[g] # "idle" => request'[g] \in Request
    BY <1>2 DEF TypeOK
  <1> QED
    BY <1>1, <1>2, <1>3 DEF TypeOK
LEMMA LeaveTypes ==
    ASSUME TypeOK, NEW h \in Handlers, Leave(h)
    PROVE  /\ at' \in [Handlers -> {"idle", "looping", "counted", "deciding"}]
           /\ request' \in [Handlers -> Request \cup {Nil}]
           /\ next' \in [Handlers -> 1 .. Len(Limits) + 1] /\ count' \in [Handlers -> 0 .. MaxCount]
           /\ paid' \in [Handlers -> SUBSET Numbers]
           /\ \A g \in Handlers : /\ count'[g] > 0 <=> at'[g] \in {"counted", "deciding"}
                                  /\ count'[g] > 0 => next'[g] \in DOMAIN Limits
                                  /\ at'[g] # "idle" => request'[g] \in Request
  <1>1. 1 \in 1 .. Len(Limits) + 1 /\ 0 \in 0 .. MaxCount
    BY RedisAssumption
  <1>2. /\ at' = [at EXCEPT ![h] = "idle"] /\ request' = [request EXCEPT ![h] = Nil]
        /\ next' = [next EXCEPT ![h] = 1] /\ count' = [count EXCEPT ![h] = 0]
        /\ paid' = [paid EXCEPT ![h] = {}]
    BY DEF Leave
  <1>3. \A g \in Handlers : /\ count'[g] > 0 <=> at'[g] \in {"counted", "deciding"}
                            /\ count'[g] > 0 => next'[g] \in DOMAIN Limits
                            /\ at'[g] # "idle" => request'[g] \in Request
    BY <1>2 DEF TypeOK
  <1> QED
    BY <1>1, <1>2, <1>3 DEF TypeOK

\* A handler that only leaves, dropping its numbers.
LEMMA LeaveShares ==
    ASSUME TypeOK, Share, NEW h \in Handlers, Leave(h), UNCHANGED <<counter, life, admitted>>
    PROVE  Share'
  <1>1. \A g \in Handlers : paid'[g] \subseteq paid[g] /\ (g # h => paid'[g] = paid[g])
                            /\ paid'[h] = {}
    BY DEF TypeOK, Leave
  <1>2. \A g \in Handlers \ {h} : count'[g] = count[g] /\ next'[g] = next[g]
    BY DEF TypeOK, Leave
  <1>3. AllGiven'
    BY <1>1 DEF Share, AllGiven, Given
  <1>4. Held'
    BY <1>1, <1>2 DEF Share, Held, InLimit, Undecided
  <1>5. WithinTheLimit' /\ OnesOwn'
    BY <1>1 DEF Share, WithinTheLimit, OnesOwn
  <1> QED
    BY <1>3, <1>4, <1>5 DEF Share

\* A handler that goes on to the next limit, its numbers within the limits.
LEMMA GoOnShares ==
    ASSUME TypeOK, Share, NEW h \in Handlers, GoOn(h), \A t \in paid[h] : InLimit(t),
           UNCHANGED <<counter, life, paid, admitted>>
    PROVE  Share'
  <1>1. \A g \in Handlers \ {h} : count'[g] = count[g] /\ next'[g] = next[g]
    BY DEF TypeOK, GoOn
  <1>2. AllGiven' /\ WithinTheLimit' /\ OnesOwn'
    BY DEF Share, AllGiven, Given, WithinTheLimit, OnesOwn
  <1>3. Held'
    BY <1>1 DEF Share, Held, InLimit, Undecided
  <1> QED
    BY <1>2, <1>3 DEF Share

\* A step that touches neither the numbers nor the locals they are held by.
LEMMA OthersShare ==
    ASSUME Share, UNCHANGED <<paid, admitted, count, next, life, counter>>
    PROVE  Share'
  BY DEF Share, AllGiven, Given, Held, InLimit, Undecided, WithinTheLimit, OnesOwn

-----------------------------------------------------------------------------
LEMMA CallKeeps == \A h \in Handlers, r \in Request : IInv /\ Call(h, r) => IInv'
  <1> SUFFICES ASSUME IInv, NEW h \in Handlers, NEW r \in Request, Call(h, r) PROVE IInv'
    OBVIOUS
  <1>1. /\ at[h] = "idle" /\ at' = [at EXCEPT ![h] = "looping"]
        /\ request' = [request EXCEPT ![h] = r]
        /\ UNCHANGED <<next, count, counter, ttl, life, paid, admitted, faulted>>
    BY DEF Call, redis, history
  <1>2. TypeOK'
    BY <1>1 DEF IInv, TypeOK
  <1>3. Share'
    BY <1>1, OthersShare DEF IInv
  <1> QED
    BY <1>2, <1>3 DEF IInv

\* A limit that does not match, or whose INCR failed, is passed over.
LEMMA SkipKeeps == \A h \in Handlers : IInv /\ (Skip(h) \/ IncrFails(h)) => IInv'
  <1> SUFFICES ASSUME IInv, NEW h \in Handlers, Skip(h) \/ IncrFails(h) PROVE IInv'
    OBVIOUS
  <1>1. /\ Looping(h) /\ GoOn(h)
        /\ UNCHANGED <<counter, ttl, life, paid, admitted, faulted>>
    BY DEF Skip, IncrFails, redis, history
  <1>2. at[h] # "idle" /\ next[h] \in DOMAIN Limits /\ ~ (count[h] > 0)
    BY <1>1 DEF Looping, IInv, TypeOK
  <1>3. TypeOK'
    BY <1>1, <1>2, GoOnTypes DEF IInv, TypeOK
  <1>4. \A t \in paid[h] : InLimit(t)
    BY <1>2 DEF IInv, Share, Held, Undecided
  <1>5. Share'
    BY <1>1, <1>4, GoOnShares DEF IInv
  <1> QED
    BY <1>3, <1>5 DEF IInv

\* INCR gives out a number nobody holds.
LEMMA IncrKeeps == \A h \in Handlers : IInv /\ Incr(h) => IInv'
  <1> SUFFICES ASSUME IInv, NEW h \in Handlers, Incr(h) PROVE IInv'
    OBVIOUS
  <1>0. /\ at[h] = "looping" /\ next[h] \in DOMAIN Limits /\ counter[KeyAt(h)] < MaxCount
        /\ counter' = [counter EXCEPT ![KeyAt(h)] = @ + 1]
        /\ count' = [count EXCEPT ![h] = counter[KeyAt(h)] + 1]
        /\ at' = [at EXCEPT ![h] = "counted"]
        /\ UNCHANGED <<request, next, ttl, life, admitted, faulted>>
    BY DEF Incr, Looping
  <1>1. PICK k \in Keys : k = KeyAt(h)
    BY <1>0, KeyAtIsAKey DEF IInv
  <1>2. /\ counter[k] \in 0 .. MaxCount /\ counter[k] + 1 \in 1 .. MaxCount
        /\ life[k] \in 1 .. MaxLife /\ life[k] \in Nat
    BY <1>0, <1>1, RedisAssumption DEF IInv, TypeOK
  <1>3. PICK c \in 1 .. MaxCount : c = counter[k] + 1
    BY <1>2
  <1>4. PICK n \in 1 .. MaxLife : n = life[k]
    BY <1>2
  <1>5. PICK t \in Numbers :
            /\ t = [limit |-> next[h], key |-> k, life |-> n, no |-> c]
            /\ t.limit = next[h] /\ t.key = k /\ t.life = n /\ t.no = c
    <2>1. PICK i \in DOMAIN Limits : i = next[h]
      BY <1>0
    <2>2. PICK t : t = [limit |-> i, key |-> k, life |-> n, no |-> c]
      OBVIOUS
    <2>3. t \in Numbers
      BY <2>2 DEF Numbers
    <2>4. t.limit = i /\ t.key = k /\ t.life = n /\ t.no = c
      BY <2>2
    <2> QED
      BY <2>1, <2>2, <2>3, <2>4
  <1>6. count'[h] = c /\ \A g \in Handlers \ {h} : count'[g] = count[g]
    BY <1>0, <1>1, <1>3 DEF IInv, TypeOK
  <1>7. counter'[k] = c /\ \A j \in Keys \ {k} : counter'[j] = counter[j]
    BY <1>0, <1>1, <1>3 DEF IInv, TypeOK
  <1>8. ~ Given(t) /\ \A s \in Numbers : Same(t, s) => ~ Given(s)
    BY <1>2, <1>3, <1>4, <1>5 DEF Given, Same
  <1>9. paid' = [paid EXCEPT ![h] = @ \cup {t}]
    BY <1>1, <1>4, <1>5, <1>6 DEF Incr
  <1>91. paid'[h] = paid[h] \cup {t} /\ \A g \in Handlers \ {h} : paid'[g] = paid[g]
    BY <1>9 DEF IInv, TypeOK
  <1>10. TypeOK'
    <2>1. counter' \in [Keys -> 0 .. MaxCount] /\ \A j \in ttl' : counter'[j] > 0
      <3>1. counter' \in [Keys -> 0 .. MaxCount]
        BY <1>0, <1>1, <1>2 DEF IInv, TypeOK
      <3> QED
        BY <1>0, <1>3, <1>7, <3>1 DEF IInv, TypeOK
    <2>2. paid' \in [Handlers -> SUBSET Numbers]
      BY <1>5, <1>9 DEF IInv, TypeOK
    <2>3. count' \in [Handlers -> 0 .. MaxCount]
      BY <1>0, <1>1, <1>2 DEF IInv, TypeOK
    <2>4. at' \in [Handlers -> {"idle", "looping", "counted", "deciding"}]
      BY <1>0 DEF IInv, TypeOK
    <2>5. \A g \in Handlers :
             /\ count'[g] > 0 <=> at'[g] \in {"counted", "deciding"}
             /\ count'[g] > 0 => next'[g] \in DOMAIN Limits
             /\ at'[g] # "idle" => request'[g] \in Request
      BY <1>0, <1>3, <1>6 DEF IInv, TypeOK
    <2> QED
      BY <1>0, <2>1, <2>2, <2>3, <2>4, <2>5 DEF IInv, TypeOK
  <1>11. \A s \in Numbers : Given(s) => Given(s)'
    <2> SUFFICES ASSUME NEW s \in Numbers, Given(s) PROVE Given(s)'
      OBVIOUS
    <2>1. s.key \in Keys /\ s.no \in Nat
      BY DEF Numbers
    <2>2. counter[s.key] <= counter'[s.key]
      <3>1. CASE s.key = k
        BY <1>2, <1>3, <1>7, <3>1
      <3>2. CASE s.key # k
        BY <1>7, <2>1, <3>2 DEF IInv, TypeOK
      <3> QED
        BY <3>1, <3>2
    <2>3. counter[s.key] \in Nat /\ counter'[s.key] \in Nat
      BY <1>10, <2>1 DEF IInv, TypeOK
    <2> QED
      BY <1>0, <2>1, <2>2, <2>3 DEF Given
  <1>12. AllGiven'
    <2>1. Given(t)'
      BY <1>0, <1>4, <1>5, <1>7 DEF Given
    <2> QED
      BY <1>0, <1>91, <1>11, <2>1 DEF IInv, Share, AllGiven, TypeOK
  <1>13. Held'
    <2>1. \A s \in paid[h] : InLimit(s)
      <3>1. ~ (count[h] > 0)
        BY <1>0 DEF IInv, TypeOK
      <3> QED
        BY <3>1 DEF IInv, Share, Held, Undecided
    <2>2. Undecided(h, t)'
      BY <1>0, <1>1, <1>5, <1>6 DEF Undecided
    <2>3. \A g \in Handlers \ {h} : \A s \in paid[g] : InLimit(s)' \/ Undecided(g, s)'
      BY <1>0, <1>6 DEF IInv, Share, Held, InLimit, Undecided
    <2> QED
      BY <1>91, <2>1, <2>2, <2>3 DEF Held, InLimit
  <1>14. WithinTheLimit' /\ OnesOwn'
    <2>1. /\ \A s \in admitted : ~ Same(t, s) /\ ~ Same(s, t)
          /\ \A g \in Handlers : \A s \in paid[g] : ~ Same(t, s) /\ ~ Same(s, t)
      BY <1>8 DEF IInv, TypeOK, Share, AllGiven, Same
    <2>2. WithinTheLimit'
      BY <1>0 DEF IInv, Share, WithinTheLimit
    <2>3. OnesOwn'
      BY <1>0, <1>91, <2>1 DEF IInv, Share, OnesOwn
    <2> QED
      BY <2>2, <2>3
  <1> QED
    BY <1>10, <1>12, <1>13, <1>14 DEF IInv, Share

\* INCR, its answer lost: a number that nobody holds is used up.
LEMMA IncrLostKeeps == \A h \in Handlers : IInv /\ IncrLost(h) => IInv'
  <1> SUFFICES ASSUME IInv, NEW h \in Handlers, IncrLost(h) PROVE IInv'
    OBVIOUS
  <1>0. /\ at[h] = "looping" /\ next[h] \in DOMAIN Limits /\ counter[KeyAt(h)] < MaxCount
        /\ counter' = [counter EXCEPT ![KeyAt(h)] = @ + 1] /\ faulted' = faulted \cup {KeyAt(h)}
        /\ UNCHANGED <<at, request, next, count, ttl, life, paid, admitted>>
    BY DEF IncrLost, Looping, handlers
  <1>1. PICK k \in Keys : k = KeyAt(h)
    BY <1>0, KeyAtIsAKey DEF IInv
  <1>2. counter[k] \in Nat /\ counter[k] + 1 \in 0 .. MaxCount /\ counter[k] + 1 > 0
    BY <1>0, <1>1, RedisAssumption DEF IInv, TypeOK
  <1>3. counter'[k] = counter[k] + 1 /\ \A j \in Keys \ {k} : counter'[j] = counter[j]
    BY <1>0, <1>1 DEF IInv, TypeOK
  <1>4. TypeOK'
    <2>1. counter' \in [Keys -> 0 .. MaxCount]
      BY <1>0, <1>1, <1>2 DEF IInv, TypeOK
    <2>2. \A j \in ttl' : counter'[j] > 0
      BY <1>0, <1>2, <1>3 DEF IInv, TypeOK
    <2>3. faulted' \subseteq Keys
      BY <1>0, <1>1 DEF IInv, TypeOK
    <2> QED
      BY <1>0, <2>1, <2>2, <2>3 DEF IInv, TypeOK
  <1>5. \A s \in Numbers : Given(s) => Given(s)'
    <2> SUFFICES ASSUME NEW s \in Numbers, Given(s) PROVE Given(s)'
      OBVIOUS
    <2>1. s.key \in Keys /\ s.no \in Nat
      BY DEF Numbers
    <2>2. counter[s.key] <= counter'[s.key]
      <3>1. CASE s.key = k
        BY <1>2, <1>3, <3>1
      <3>2. CASE s.key # k
        BY <1>3, <2>1, <3>2 DEF IInv, TypeOK
      <3> QED
        BY <3>1, <3>2
    <2>3. counter[s.key] \in Nat /\ counter'[s.key] \in Nat
      BY <1>4, <2>1 DEF IInv, TypeOK
    <2> QED
      BY <1>0, <2>1, <2>2, <2>3 DEF Given
  <1>6. AllGiven'
    BY <1>0, <1>5 DEF IInv, Share, AllGiven, TypeOK
  <1>7. Held' /\ WithinTheLimit' /\ OnesOwn'
    BY <1>0 DEF IInv, Share, Held, InLimit, Undecided, WithinTheLimit, OnesOwn
  <1> QED
    BY <1>4, <1>6, <1>7 DEF IInv, Share

-----------------------------------------------------------------------------
LEMMA ExpireKeeps == \A h \in Handlers : IInv /\ Expire(h) => IInv'
  <1> SUFFICES ASSUME IInv, NEW h \in Handlers, Expire(h) PROVE IInv'
    OBVIOUS
  <1>0. /\ at[h] = "counted" /\ at' = [at EXCEPT ![h] = "deciding"]
        /\ UNCHANGED <<request, next, count, counter, life, paid, admitted>>
    BY DEF Expire
  <1>1. PICK k \in Keys : k = KeyAt(h)
    BY <1>0, KeyAtIsAKey DEF IInv, TypeOK
  <1>2. /\ ttl' \subseteq ttl \cup {k} /\ (k \in ttl' => k \in ttl \/ counter[k] > 0)
        /\ faulted' \subseteq faulted \cup {k}
    BY <1>1 DEF Expire
  <1>3. TypeOK'
    <2>1. at' \in [Handlers -> {"idle", "looping", "counted", "deciding"}]
      BY <1>0 DEF IInv, TypeOK
    <2>2. ttl' \subseteq Keys /\ faulted' \subseteq Keys
      BY <1>1, <1>2 DEF IInv, TypeOK
    <2>3. \A j \in ttl' : counter'[j] > 0
      BY <1>0, <1>2 DEF IInv, TypeOK
    <2>4. \A g \in Handlers : /\ count'[g] > 0 <=> at'[g] \in {"counted", "deciding"}
                              /\ count'[g] > 0 => next'[g] \in DOMAIN Limits
                              /\ at'[g] # "idle" => request'[g] \in Request
      BY <1>0 DEF IInv, TypeOK
    <2> QED
      BY <1>0, <2>1, <2>2, <2>3, <2>4 DEF IInv, TypeOK
  <1>4. Share'
    BY <1>0, OthersShare DEF IInv
  <1> QED
    BY <1>3, <1>4 DEF IInv

\* The count is within the limit, or the check is refused.
LEMMA DecideKeeps == \A h \in Handlers : IInv /\ Decide(h) => IInv'
  <1> SUFFICES ASSUME IInv, NEW h \in Handlers, Decide(h) PROVE IInv'
    OBVIOUS
  <1>0. /\ at[h] \in {"counted", "deciding"}
        /\ UNCHANGED <<counter, ttl, life, admitted, faulted>>
    BY DEF Decide, Decidable, redis
  <1>1. at[h] # "idle" /\ next[h] \in DOMAIN Limits /\ count[h] \in Nat
    BY <1>0 DEF IInv, TypeOK
  <1>2. CASE Exceeds(h)
    <2>1. Leave(h)
      BY <1>2 DEF Decide
    <2>2. TypeOK'
      BY <1>0, <2>1, LeaveTypes DEF IInv, TypeOK
    <2>3. Share'
      BY <1>0, <2>1, LeaveShares DEF IInv
    <2> QED
      BY <2>2, <2>3 DEF IInv
  <1>3. CASE ~ Exceeds(h)
    <2>1. GoOn(h) /\ UNCHANGED paid
      BY <1>3 DEF Decide
    <2>2. TypeOK'
      BY <1>0, <1>1, <2>1, GoOnTypes DEF IInv, TypeOK
    <2>3. \A t \in paid[h] : InLimit(t)
      <3>1. Limits[next[h]].requests \in Nat
        <4>1. Limits[next[h]] \in Limit
          BY <1>1, RedisAssumption
        <4> QED
          BY <4>1 DEF Limit
      <3>2. count[h] <= Limits[next[h]].requests
        BY <1>1, <1>3, <3>1 DEF Exceeds
      <3> QED
        BY <3>2 DEF IInv, Share, Held, InLimit, Undecided
    <2>4. Share'
      BY <1>0, <2>1, <2>3, GoOnShares DEF IInv
    <2> QED
      BY <2>2, <2>4 DEF IInv
  <1> QED
    BY <1>2, <1>3

\* What is admitted were numbers of its own, all within the limits.
LEMMA AdmitKeeps == \A h \in Handlers : IInv /\ Admit(h) => IInv'
  <1> SUFFICES ASSUME IInv, NEW h \in Handlers, Admit(h) PROVE IInv'
    OBVIOUS
  <1>0. /\ at[h] = "looping" /\ admitted' = admitted \cup paid[h] /\ Leave(h)
        /\ UNCHANGED <<counter, ttl, life, faulted>>
    BY DEF Admit, redis
  <1>1. \A g \in Handlers : (g # h => paid'[g] = paid[g]) /\ paid'[h] = {}
    BY <1>0 DEF IInv, TypeOK, Leave
  <1>2. \A g \in Handlers \ {h} : count'[g] = count[g] /\ next'[g] = next[g]
    BY <1>0 DEF IInv, TypeOK, Leave
  <1>3. TypeOK'
    <2>1. admitted' \subseteq Numbers
      BY <1>0 DEF IInv, TypeOK
    <2> QED
      BY <1>0, <2>1, LeaveTypes DEF IInv, TypeOK
  <1>4. AllGiven'
    BY <1>0, <1>1 DEF IInv, Share, AllGiven, Given
  <1>5. Held'
    BY <1>1, <1>2 DEF IInv, Share, Held, InLimit, Undecided
  <1>6. WithinTheLimit'
    <2>1. ~ (count[h] > 0)
      BY <1>0 DEF IInv, TypeOK
    <2> QED
      BY <1>0, <2>1 DEF IInv, Share, Held, Undecided, InLimit, WithinTheLimit
  <1>7. OnesOwn'
    BY <1>0, <1>1 DEF IInv, Share, OnesOwn
  <1> QED
    BY <1>3, <1>4, <1>5, <1>6, <1>7 DEF IInv, Share

LEMMA CrashKeeps == \A h \in Handlers : IInv /\ Crash(h) => IInv'
  <1> SUFFICES ASSUME IInv, NEW h \in Handlers, Crash(h) PROVE IInv'
    OBVIOUS
  <1>0. /\ Leave(h) /\ UNCHANGED <<counter, ttl, life, admitted>>
    BY DEF Crash, redis
  <1>1. faulted' \subseteq Keys
    <2>1. at[h] = "counted" => KeyAt(h) \in Keys
      BY KeyAtIsAKey DEF IInv, TypeOK
    <2> QED
      BY <2>1 DEF Crash, IInv, TypeOK
  <1>2. TypeOK'
    BY <1>0, <1>1, LeaveTypes DEF IInv, TypeOK
  <1>3. Share'
    BY <1>0, LeaveShares DEF IInv
  <1> QED
    BY <1>2, <1>3 DEF IInv

\* A new life: every number of the old one stays given.
LEMMA WindowKeeps == \A k \in Keys : IInv /\ WindowPasses(k) => IInv'
  <1> SUFFICES ASSUME IInv, NEW k \in Keys, WindowPasses(k) PROVE IInv'
    OBVIOUS
  <1>0. /\ life[k] < MaxLife /\ counter' = [counter EXCEPT ![k] = 0] /\ ttl' = ttl \ {k}
        /\ life' = [life EXCEPT ![k] = @ + 1] /\ faulted' = faulted \ {k}
        /\ UNCHANGED <<at, request, next, count, paid, admitted>>
    BY DEF WindowPasses, handlers
  <1>1. life[k] \in Nat /\ life[k] + 1 \in 1 .. MaxLife /\ 0 \in 0 .. MaxCount
    BY <1>0, RedisAssumption DEF IInv, TypeOK
  <1>2. /\ life'[k] = life[k] + 1
        /\ \A j \in Keys \ {k} : life'[j] = life[j] /\ counter'[j] = counter[j]
    BY <1>0 DEF IInv, TypeOK
  <1>3. TypeOK'
    <2>1. counter' \in [Keys -> 0 .. MaxCount] /\ life' \in [Keys -> 1 .. MaxLife]
      BY <1>0, <1>1 DEF IInv, TypeOK
    <2>2. \A j \in ttl' : counter'[j] > 0
      BY <1>0, <1>2 DEF IInv, TypeOK
    <2> QED
      BY <1>0, <2>1, <2>2 DEF IInv, TypeOK
  <1>4. \A s \in Numbers : Given(s) => Given(s)'
    <2> SUFFICES ASSUME NEW s \in Numbers, Given(s) PROVE Given(s)'
      OBVIOUS
    <2>1. s.key \in Keys /\ s.life \in Nat
      BY DEF Numbers
    <2>2. CASE s.key = k
      BY <1>1, <1>2, <2>1, <2>2 DEF Given
    <2>3. CASE s.key # k
      BY <1>2, <2>1, <2>3 DEF Given
    <2> QED
      BY <2>2, <2>3
  <1>5. AllGiven'
    BY <1>0, <1>4 DEF IInv, Share, AllGiven, TypeOK
  <1>6. Held' /\ WithinTheLimit' /\ OnesOwn'
    BY <1>0 DEF IInv, Share, Held, InLimit, Undecided, WithinTheLimit, OnesOwn
  <1> QED
    BY <1>3, <1>5, <1>6 DEF IInv, Share

-----------------------------------------------------------------------------
LEMMA StepIInv == IInv /\ [Next]_vars => IInv'
  <1> SUFFICES ASSUME IInv, [Next]_vars PROVE IInv'
    OBVIOUS
  <1>1. CASE UNCHANGED vars
    <2>1. UNCHANGED <<at, request, next, count, counter, ttl, life, paid, admitted, faulted>>
      BY <1>1 DEF vars, handlers, redis, history
    <2>2. TypeOK'
      BY <2>1 DEF IInv, TypeOK
    <2>3. Share'
      BY <2>1, OthersShare DEF IInv
    <2> QED
      BY <2>2, <2>3 DEF IInv
  <1> QED
    BY <1>1, CallKeeps, SkipKeeps, IncrKeeps, IncrLostKeeps, ExpireKeeps, DecideKeeps,
       AdmitKeeps, CrashKeeps, WindowKeeps DEF Next, Check

\* A handler is about to give a key its expiry.
Pending(h, k) == at[h] = "counted" /\ count[h] = 1 /\ KeyAt(h) = k
Unexpiring    == \A k \in Keys : counter[k] > 0 /\ k \notin ttl =>
                    k \in faulted \/ \E h \in Handlers : Pending(h, k)

LEMMA StaysPending ==
    ASSUME NEW g \in Handlers, NEW k \in Keys, Pending(g, k),
           at'[g] = at[g], count'[g] = count[g], next'[g] = next[g], request'[g] = request[g]
    PROVE  Pending(g, k)'
  BY DEF Pending, KeyAt

\* A step of a handler that is not about to give an expiry, and that leaves
\* every other handler and the redis but for new faults alone.
LEMMA QuietStep ==
    ASSUME IInv, Unexpiring, NEW h \in Handlers, ~ (at[h] = "counted" /\ count[h] = 1),
           UNCHANGED <<counter, ttl>>, faulted \subseteq faulted',
           \A g \in Handlers \ {h} : /\ at'[g] = at[g] /\ count'[g] = count[g]
                                     /\ next'[g] = next[g] /\ request'[g] = request[g]
    PROVE  Unexpiring'
  <1> SUFFICES ASSUME NEW k \in Keys, counter[k] > 0, k \notin ttl, k \notin faulted'
               PROVE  \E g \in Handlers : Pending(g, k)'
    BY DEF Unexpiring
  <1>1. PICK g \in Handlers : Pending(g, k)
    BY DEF Unexpiring
  <1>2. g # h
    BY <1>1 DEF Pending
  <1> QED
    BY <1>1, <1>2, StaysPending

LEMMA StepUnexpiring == IInv /\ Unexpiring /\ [Next]_vars => Unexpiring'
  <1> SUFFICES ASSUME IInv, Unexpiring, [Next]_vars PROVE Unexpiring'
    OBVIOUS
  <1>1. ASSUME NEW h \in Handlers, NEW r \in Request, Call(h, r) PROVE Unexpiring'
    BY <1>1, QuietStep DEF Call, redis, history, IInv, TypeOK
  <1>2. ASSUME NEW h \in Handlers, Skip(h) \/ IncrFails(h) PROVE Unexpiring'
    BY <1>2, QuietStep DEF Skip, IncrFails, Looping, GoOn, redis, history, IInv, TypeOK
  <1>3. ASSUME NEW h \in Handlers, Decide(h) PROVE Unexpiring'
    <2>1. ~ (at[h] = "counted" /\ count[h] = 1)
      BY <1>3 DEF Decide, Decidable, Creates
    <2> QED
      BY <1>3, <2>1, QuietStep DEF Decide, Leave, GoOn, redis, history, IInv, TypeOK
  <1>4. ASSUME NEW h \in Handlers, Admit(h) PROVE Unexpiring'
    BY <1>4, QuietStep DEF Admit, Leave, redis, IInv, TypeOK
  <1>5. ASSUME NEW h \in Handlers, Incr(h) PROVE Unexpiring'
    <2>1. PICK k \in Keys : k = KeyAt(h)
      BY <1>5, KeyAtIsAKey DEF Incr, Looping, IInv
    <2>2. /\ counter'[k] = counter[k] + 1 /\ \A j \in Keys \ {k} : counter'[j] = counter[j]
          /\ at'[h] = "counted" /\ count'[h] = counter[k] + 1 /\ at[h] = "looping"
          /\ UNCHANGED <<request, next, ttl, faulted>>
          /\ \A g \in Handlers \ {h} : at'[g] = at[g] /\ count'[g] = count[g]
      BY <1>5, <2>1 DEF Incr, Looping, IInv, TypeOK
    <2> SUFFICES ASSUME NEW j \in Keys, counter'[j] > 0, j \notin ttl, j \notin faulted
                 PROVE  \E g \in Handlers : Pending(g, j)'
      BY <2>2 DEF Unexpiring
    <2>3. CASE j = k /\ counter[k] = 0
      <3>1. count'[h] = 1 /\ at'[h] = "counted" /\ KeyAt(h)' = k
        BY <2>1, <2>2, <2>3 DEF KeyAt
      <3> QED
        BY <2>3, <3>1 DEF Pending
    <2>4. CASE counter[j] > 0
      <3>1. PICK g \in Handlers : Pending(g, j)
        BY <2>4 DEF Unexpiring
      <3>2. g # h
        BY <2>2, <3>1 DEF Pending
      <3> QED
        BY <2>2, <3>1, <3>2, StaysPending
    <2>5. counter[j] \in Nat
      BY DEF IInv, TypeOK
    <2> QED
      BY <2>2, <2>3, <2>4, <2>5
  <1>6. ASSUME NEW h \in Handlers, IncrLost(h) PROVE Unexpiring'
    <2>1. PICK k \in Keys : k = KeyAt(h)
      BY <1>6, KeyAtIsAKey DEF IncrLost, Looping, IInv
    <2>2. /\ \A j \in Keys \ {k} : counter'[j] = counter[j]
          /\ faulted' = faulted \cup {k} /\ UNCHANGED <<at, request, next, count, ttl>>
      BY <1>6, <2>1 DEF IncrLost, handlers, IInv, TypeOK
    <2> SUFFICES ASSUME NEW j \in Keys \ {k}, counter[j] > 0, j \notin ttl, j \notin faulted
                 PROVE  \E g \in Handlers : Pending(g, j)'
      BY <2>2 DEF Unexpiring
    <2> QED
      BY <2>2, StaysPending DEF Unexpiring
  <1>7. ASSUME NEW h \in Handlers, Expire(h) PROVE Unexpiring'
    <2>1. /\ UNCHANGED <<request, next, count, counter>>
          /\ ttl \subseteq ttl' /\ faulted \subseteq faulted'
          /\ counter[KeyAt(h)] > 0 => KeyAt(h) \in ttl' \cup faulted'
          /\ \A g \in Handlers \ {h} : at'[g] = at[g]
      BY <1>7 DEF Expire, IInv, TypeOK
    <2> SUFFICES ASSUME NEW j \in Keys, counter[j] > 0, j \notin ttl', j \notin faulted'
                 PROVE  \E g \in Handlers : Pending(g, j)'
      BY <2>1 DEF Unexpiring
    <2>2. PICK g \in Handlers : Pending(g, j)
      BY <2>1 DEF Unexpiring
    <2>3. g # h
      BY <2>1, <2>2 DEF Pending
    <2> QED
      BY <2>1, <2>2, <2>3, StaysPending
  <1>8. ASSUME NEW h \in Handlers, Crash(h) PROVE Unexpiring'
    <2>1. /\ UNCHANGED <<counter, ttl>> /\ faulted \subseteq faulted'
          /\ at[h] = "counted" /\ count[h] = 1 => KeyAt(h) \in faulted'
          /\ \A g \in Handlers \ {h} : /\ at'[g] = at[g] /\ count'[g] = count[g]
                                       /\ next'[g] = next[g] /\ request'[g] = request[g]
      BY <1>8 DEF Crash, Leave, Creates, redis, IInv, TypeOK
    <2> SUFFICES ASSUME NEW j \in Keys, counter[j] > 0, j \notin ttl, j \notin faulted'
                 PROVE  \E g \in Handlers : Pending(g, j)'
      BY <2>1 DEF Unexpiring
    <2>2. PICK g \in Handlers : Pending(g, j)
      BY <2>1 DEF Unexpiring
    <2>3. g # h
      BY <2>1, <2>2 DEF Pending
    <2> QED
      BY <2>1, <2>2, <2>3, StaysPending
  <1>9. ASSUME NEW k \in Keys, WindowPasses(k) PROVE Unexpiring'
    <2>1. /\ counter'[k] = 0 /\ \A j \in Keys \ {k} : counter'[j] = counter[j]
          /\ ttl' = ttl \ {k} /\ faulted' = faulted \ {k}
          /\ UNCHANGED <<at, request, next, count>>
      BY <1>9 DEF WindowPasses, handlers, IInv, TypeOK
    <2> SUFFICES ASSUME NEW j \in Keys \ {k}, counter[j] > 0, j \notin ttl, j \notin faulted
                 PROVE  \E g \in Handlers : Pending(g, j)'
      BY <2>1 DEF Unexpiring
    <2> QED
      BY <2>1, StaysPending DEF Unexpiring
  <1>10. CASE UNCHANGED vars
    BY <1>10 DEF vars, handlers, redis, history, Unexpiring, Pending, KeyAt
  <1> QED
    BY <1>1, <1>2, <1>3, <1>4, <1>5, <1>6, <1>7, <1>8, <1>9, <1>10 DEF Next, Check

-----------------------------------------------------------------------------
\* Every variable of the shared limiter has its type, and an answer waits for
\* a handler exactly between INCR and its comparison (RedisLimiter.Check).
THEOREM RedisTyping == Spec => []TypeOK
  <1>1. IInv => TypeOK
    BY DEF IInv
  <1> QED
    BY <1>1, InitIInv, StepIInv, PTL DEF Spec

\* No life of a counter admits more checks than its limit grants: each
\* admitted check has a number of its own, within the limit (Check).
THEOREM TheSharedLimitHolds == Spec => []SharedLimitHolds
  <1>1. IInv => SharedLimitHolds
    BY DEF IInv, Share, SharedLimitHolds
  <1> QED
    BY <1>1, InitIInv, StepIInv, PTL DEF Spec

\* A counter without an expiry has met a fault in its present life, or a
\* handler is about to send EXPIRE (Check).
THEOREM OnlyFaultsLeaveNoExpiry == Spec => []UnexpiringIsFaulty
  <1>1. Init => Unexpiring
    BY DEF Init, Unexpiring
  <1>2. Unexpiring => UnexpiringIsFaulty
    BY DEF Unexpiring, Pending, UnexpiringIsFaulty
  <1> QED
    BY <1>1, <1>2, InitIInv, StepIInv, StepUnexpiring, PTL DEF Spec
=============================================================================
