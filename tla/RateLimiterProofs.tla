-------------------------- MODULE RateLimiterProofs -------------------------
(***************************************************************************)
(* What a token bucket owes to the moments it was charged at, and that     *)
(* every Check is one step: the theorems about RateLimiter, for any        *)
(* limits, callers and bound on the clock.                                 *)
(***************************************************************************)
EXTENDS RateLimiter, TLAPS, SequenceTheorems, FiniteSetTheorems

\* The account of a bucket b charged at the moments s.  From any charge on it
\* has paid no more than it held when full and gained since; and it has paid
\* no less than what it lacks now.
NotMore(b, s) ==
    \A i \in DOMAIN s :
        (Len(s) - i + 1) * b.window + b.tokens <= Capacity(b) + b.requests * (b.last - s[i])
NotLess(b, s) ==
    /\ Capacity(b) <= b.tokens + Len(s) * b.window
    /\ \A i \in DOMAIN s :
          \/ Capacity(b) <= b.tokens + (Len(s) - i) * b.window
          \/ b.requests * (b.last - s[i]) <= b.tokens + (Len(s) - i) * b.window
InRate(b, s) ==
    \A j \in DOMAIN s : \A i \in 1 .. j :
        (j - i + 1) * b.window <= Capacity(b) + b.requests * (s[j] - s[i])
Sound(b, s) ==
    /\ b \in Bucket /\ b.tokens <= Capacity(b) /\ s \in Seq(Nat)
    /\ \A i \in DOMAIN s : s[i] <= b.last
    /\ NotMore(b, s) /\ NotLess(b, s) /\ InRate(b, s)

\* One caller at a time is in the loop, its time is the latest any bucket has
\* seen, and every bucket's account is sound.
Mutex == \A c, d \in Callers : at[c] = "visiting" /\ at[d] = "visiting" => c = d
Clock ==
    /\ \A c \in Callers : at[c] = "visiting" => time[c] <= now
    /\ \A k \in Keys : buckets[k] # Nil =>
          /\ buckets[k].last <= now
          /\ \A c \in Callers : at[c] = "visiting" => buckets[k].last <= time[c]
Accounts == \A k \in Keys : IF buckets[k] = Nil THEN charges[k] = <<>>
                                                ELSE Sound(buckets[k], charges[k])
Refusals == refusal # Nil => /\ buckets[refusal.key] # Nil
                             /\ refusal.charged <= Len(charges[refusal.key])
IInv == TypeOK /\ Mutex /\ Clock /\ Accounts /\ Refusals /\ RefusedInTheWindow

-----------------------------------------------------------------------------
\* What is gained in a stretch of time is gained in its parts.
LEMMA GainSplits ==
    ASSUME NEW r \in Nat, NEW x \in Nat, NEW y \in Nat, NEW z \in Nat, x <= y, y <= z
    PROVE  /\ r * (z - x) = r * (z - y) + r * (y - x)
           /\ r * (z - y) \in Nat /\ r * (y - x) \in Nat
  <1>1. z - y \in Nat /\ y - x \in Nat /\ z - x = (z - y) + (y - x)
    OBVIOUS
  <1>2. \A u, v \in Nat : r * (u + v) = r * u + r * v /\ r * u \in Nat
    OBVIOUS
  <1> QED BY <1>1, <1>2

\* Whole amounts multiply to whole amounts.
LEMMA Product == \A u, v \in Nat : u * v \in Nat
  OBVIOUS

\* A new bucket is full and owes nothing.
LEMMA FreshSound ==
    ASSUME NEW limit \in Limit, NEW t \in Nat
    PROVE  Sound(Fresh(limit, t), <<>>)
  <1>1. limit.requests * limit.window \in Nat
    BY DEF Limit
  <1>2. Fresh(limit, t) \in Bucket
    BY <1>1 DEF Fresh, Bucket, Limit
  <1> QED BY <1>1, <1>2 DEF Sound, NotMore, NotLess, InRate, Fresh, Capacity, Limit

\* A refill keeps the account, with the last moment the one of the refill.
LEMMA RefilledSound ==
    ASSUME NEW b, NEW s, Sound(b, s), NEW t \in Nat, b.last <= t
    PROVE  /\ Sound(Refilled(b, t), s) /\ Refilled(b, t).last = t
           /\ Refilled(b, t).requests = b.requests /\ Refilled(b, t).window = b.window
  <1> DEFINE d == Refilled(b, t)
             gain == b.requests * (t - b.last)
  <1>1. /\ b \in Bucket /\ b.requests \in Nat \ {0} /\ b.window \in Nat \ {0}
        /\ b.last \in Nat /\ b.tokens \in Nat /\ Capacity(b) \in Nat /\ b.tokens <= Capacity(b)
        /\ s \in Seq(Nat) /\ Len(s) \in Nat /\ DOMAIN s = 1 .. Len(s)
    BY DEF Sound, Bucket, Capacity
  <1>2. gain \in Nat
    BY <1>1, GainSplits
  <1>3. /\ d \in Bucket /\ d.last = t /\ d.requests = b.requests /\ d.window = b.window
        /\ d.tokens = IF b.tokens + gain > Capacity(b) THEN Capacity(b) ELSE b.tokens + gain
        /\ Capacity(d) = Capacity(b)
    <2> DEFINE filled == IF b.tokens + gain > Capacity(b) THEN Capacity(b) ELSE b.tokens + gain
               e == [b EXCEPT !.tokens = filled]
    <2>1. filled \in Nat
      BY <1>1, <1>2
    <2>2. d = [e EXCEPT !.last = t]
      BY DEF Refilled, Gain
    <2> HIDE DEF d, filled, gain
    <2>3. /\ e \in Bucket /\ e.tokens = filled
          /\ e.requests = b.requests /\ e.window = b.window
      BY <1>1, <2>1 DEF Bucket
    <2> HIDE DEF e
    <2>4. /\ d \in Bucket /\ d.tokens = filled /\ d.last = t
          /\ d.requests = b.requests /\ d.window = b.window
      BY <2>2, <2>3 DEF Bucket
    <2> QED BY <2>4 DEF Capacity, filled
  <1> HIDE DEF d, gain
  <1>4. d.tokens \in Nat /\ d.tokens <= Capacity(b) /\ d.tokens <= b.tokens + gain /\ b.tokens <= d.tokens
    BY <1>1, <1>2, <1>3
  <1>a. /\ b.tokens \in Nat /\ d.tokens \in Nat /\ Capacity(b) \in Nat /\ gain \in Nat
        /\ d.tokens <= b.tokens + gain
        /\ d.tokens = Capacity(b) \/ d.tokens = b.tokens + gain
    BY <1>1, <1>2, <1>3, <1>4
  <1>5. ASSUME NEW i \in DOMAIN s
        PROVE  /\ s[i] \in Nat /\ s[i] <= b.last /\ b.requests * (b.last - s[i]) \in Nat
               /\ b.requests * (t - s[i]) = gain + b.requests * (b.last - s[i])
               /\ (Len(s) - i + 1) * b.window \in Nat /\ (Len(s) - i) * b.window \in Nat
    <2>1. s[i] \in Nat /\ s[i] <= b.last
      BY <1>1 DEF Sound
    <2>2. Len(s) - i \in Nat /\ Len(s) - i + 1 \in Nat
      BY <1>1
    <2>3. (Len(s) - i + 1) * b.window \in Nat /\ (Len(s) - i) * b.window \in Nat
      <3> DEFINE m == Len(s) - i
                 n == Len(s) - i + 1
                 w == b.window
      <3>1. m \in Nat /\ n \in Nat /\ w \in Nat
        BY <2>2, <1>1
      <3> HIDE DEF m, n, w
      <3>2. n * w \in Nat /\ m * w \in Nat
        BY <3>1, Product
      <3> QED BY <3>2 DEF m, n, w
    <2>4. /\ b.requests * (b.last - s[i]) \in Nat
          /\ b.requests * (t - s[i]) = gain + b.requests * (b.last - s[i])
      <3> DEFINE r == b.requests
                 x == s[i]
                 y == b.last
      <3>1. r \in Nat /\ x \in Nat /\ y \in Nat /\ x <= y /\ y <= t
        BY <2>1, <1>1
      <3> HIDE DEF r, x, y
      <3>2. r * (t - x) = r * (t - y) + r * (y - x) /\ r * (y - x) \in Nat
        BY <3>1, GainSplits
      <3> QED BY <3>2 DEF r, x, y, gain
    <2> QED BY <2>1, <2>3, <2>4
  <1>6. NotMore(d, s)
    <2> SUFFICES ASSUME NEW i \in DOMAIN s
                 PROVE  (Len(s) - i + 1) * d.window + d.tokens
                           <= Capacity(d) + d.requests * (d.last - s[i])
      BY DEF NotMore
    <2>1. (Len(s) - i + 1) * b.window + b.tokens <= Capacity(b) + b.requests * (b.last - s[i])
      BY DEF Sound, NotMore
    <2> DEFINE paid == (Len(s) - i + 1) * b.window
               before == b.requests * (b.last - s[i])
    <2>2. paid \in Nat /\ before \in Nat /\ b.requests * (t - s[i]) = gain + before
      BY <1>5
    <2>3. paid + b.tokens <= Capacity(b) + before
      BY <2>1
    <2> HIDE DEF paid, before
    <2>4. paid + d.tokens <= Capacity(b) + (gain + before)
      BY <1>a, <2>2, <2>3
    <2> QED BY <2>2, <2>4, <1>3 DEF paid
  <1>7. NotLess(d, s)
    <2>1. Capacity(d) <= d.tokens + Len(s) * d.window
      <3>1. Len(s) * b.window \in Nat
        BY <1>1
      <3>2. Capacity(b) <= b.tokens + Len(s) * b.window
        BY DEF Sound, NotLess
      <3> QED BY <3>1, <3>2, <1>1, <1>3, <1>4
    <2>2. ASSUME NEW i \in DOMAIN s
          PROVE  \/ Capacity(d) <= d.tokens + (Len(s) - i) * d.window
                 \/ d.requests * (d.last - s[i]) <= d.tokens + (Len(s) - i) * d.window
      <3> DEFINE paid == (Len(s) - i) * b.window
                 before == b.requests * (b.last - s[i])
      <3>1. paid \in Nat /\ before \in Nat /\ b.requests * (t - s[i]) = gain + before
        BY <1>5
      <3>2. Capacity(b) <= b.tokens + paid \/ before <= b.tokens + paid
        BY DEF Sound, NotLess
      <3> HIDE DEF paid, before
      <3>3. Capacity(b) <= d.tokens + paid \/ gain + before <= d.tokens + paid
        BY <1>a, <3>1, <3>2
      <3> QED BY <3>1, <3>3, <1>3 DEF paid
    <2> QED BY <2>1, <2>2 DEF NotLess
  <1>8. InRate(d, s)
    BY <1>3 DEF Sound, InRate
  <1>9. \A i \in DOMAIN s : s[i] <= d.last
    <2>1. ASSUME NEW i \in DOMAIN s PROVE s[i] <= t
      BY SMTT(20), <1>1, <1>5
    <2> QED BY <2>1, <1>3
  <1> QED BY <1>1, <1>3, <1>4, <1>6, <1>7, <1>8, <1>9 DEF Sound, d

\* One more charge costs one more window's worth.
LEMMA OneMore ==
    ASSUME NEW n \in Nat, NEW w \in Nat
    PROVE  (n + 1) * w = n * w + w /\ n * w \in Nat
  OBVIOUS

\* A bucket that holds a token keeps a sound account when it pays it.
LEMMA PaidSound ==
    ASSUME NEW b, NEW s, Sound(b, s), b.tokens >= b.window
    PROVE  Sound([b EXCEPT !.tokens = @ - b.window], Append(s, b.last))
  <1> DEFINE d == [b EXCEPT !.tokens = @ - b.window]
             p == Append(s, b.last)
  <1>1. /\ b \in Bucket /\ b.requests \in Nat \ {0} /\ b.window \in Nat \ {0}
        /\ b.last \in Nat /\ b.tokens \in Nat /\ Capacity(b) \in Nat /\ b.tokens <= Capacity(b)
        /\ s \in Seq(Nat) /\ Len(s) \in Nat /\ DOMAIN s = 1 .. Len(s)
    BY DEF Sound, Bucket, Capacity
  <1>2. b.tokens - b.window \in Nat
    BY <1>1
  <1>3. /\ d \in Bucket /\ d.tokens = b.tokens - b.window /\ d.last = b.last
        /\ d.requests = b.requests /\ d.window = b.window /\ Capacity(d) = Capacity(b)
    BY <1>1, <1>2 DEF Bucket, Capacity
  <1>4. /\ p \in Seq(Nat) /\ Len(p) = Len(s) + 1 /\ DOMAIN p = 1 .. Len(s) + 1
        /\ \A i \in DOMAIN s : p[i] = s[i]
        /\ p[Len(s) + 1] = b.last
    BY <1>1
  <1> HIDE DEF d, p
  <1>5. ASSUME NEW i \in DOMAIN p
        PROVE  i \in DOMAIN s \/ i = Len(s) + 1
    BY <1>1, <1>4
  <1>a. ASSUME NEW i \in DOMAIN p
        PROVE  p[i] \in Nat /\ p[i] <= b.last
    <2>1. CASE i \in DOMAIN s
      <3>1. s[i] \in Nat /\ s[i] <= b.last
        BY <2>1, <1>1 DEF Sound
      <3> QED BY <3>1, <2>1, <1>4
    <2>2. CASE i = Len(s) + 1
      <3>1. b.last \in Nat
        BY <1>1
      <3> QED BY <3>1, <2>2, <1>4
    <2> QED BY <2>1, <2>2, <1>5
  <1>6. ASSUME NEW i \in DOMAIN s
        PROVE  /\ Len(p) - i = (Len(s) - i) + 1 /\ Len(s) - i \in Nat
               /\ (Len(p) - i + 1) * b.window = (Len(s) - i + 1) * b.window + b.window
               /\ (Len(p) - i) * b.window = (Len(s) - i) * b.window + b.window
               /\ (Len(s) - i + 1) * b.window \in Nat /\ (Len(s) - i) * b.window \in Nat
    <2> DEFINE m == Len(s) - i
    <2>1. m \in Nat /\ Len(p) - i = m + 1 /\ Len(p) - i + 1 = (m + 1) + 1 /\ Len(s) - i + 1 = m + 1
      <3>1. i \in 1 .. Len(s) /\ Len(s) \in Nat /\ Len(p) = Len(s) + 1
        BY <1>1, <1>4
      <3> QED BY <3>1
    <2>2. b.window \in Nat /\ m + 1 \in Nat
      BY SMTT(20), <1>1, <2>1
    <2> HIDE DEF m
    <2>3. /\ (m + 1) * b.window = m * b.window + b.window /\ m * b.window \in Nat
          /\ ((m + 1) + 1) * b.window = (m + 1) * b.window + b.window
          /\ (m + 1) * b.window \in Nat
      BY <2>1, <2>2, OneMore
    <2> QED BY <2>1, <2>3 DEF m
  <1>7. NotMore(d, p)
    <2> SUFFICES ASSUME NEW i \in DOMAIN p
                 PROVE  (Len(p) - i + 1) * d.window + d.tokens
                           <= Capacity(d) + d.requests * (d.last - p[i])
      BY DEF NotMore
    <2>1. CASE i \in DOMAIN s
      <3> DEFINE paid == (Len(s) - i + 1) * b.window
                 gained == b.requests * (b.last - s[i])
      <3>1. paid + b.tokens <= Capacity(b) + gained
        BY <2>1 DEF Sound, NotMore
      <3>2. /\ (Len(p) - i + 1) * d.window = paid + b.window /\ paid \in Nat
            /\ d.requests * (d.last - p[i]) = gained
        BY <1>3, <1>4, <1>6, <2>1
      <3>3. b.window \in Nat /\ b.tokens \in Nat
        BY <1>1
      <3> HIDE DEF paid, gained
      <3>4. (paid + b.window) + (b.tokens - b.window) = paid + b.tokens
        BY <3>2, <3>3
      <3> QED BY <3>1, <3>2, <3>4, <1>3
    <2>2. CASE i = Len(s) + 1
      <3>1. Len(p) - i + 1 = 1 /\ d.last - p[i] = 0
        BY <1>1, <1>3, <1>4, <2>2
      <3>2. 1 * b.window + (b.tokens - b.window) <= Capacity(b) + b.requests * 0
        BY <1>1
      <3> QED BY <3>1, <3>2, <1>3
    <2> QED BY <2>1, <2>2, <1>5
  <1>8. NotLess(d, p)
    <2>1. Capacity(d) <= d.tokens + Len(p) * d.window
      <3>1. Len(p) * b.window = Len(s) * b.window + b.window /\ Len(s) * b.window \in Nat
        BY <1>1, <1>4, OneMore
      <3>2. Capacity(b) <= b.tokens + Len(s) * b.window
        BY DEF Sound, NotLess
      <3> QED BY <3>1, <3>2, <1>1, <1>3
    <2>2. ASSUME NEW i \in DOMAIN p
          PROVE  \/ Capacity(d) <= d.tokens + (Len(p) - i) * d.window
                 \/ d.requests * (d.last - p[i]) <= d.tokens + (Len(p) - i) * d.window
      <3>1. CASE i \in DOMAIN s
        <4> DEFINE paid == (Len(s) - i) * b.window
                   gained == b.requests * (b.last - s[i])
        <4>1. Capacity(b) <= b.tokens + paid \/ gained <= b.tokens + paid
          BY <3>1 DEF Sound, NotLess
        <4>2. /\ (Len(p) - i) * d.window = paid + b.window /\ paid \in Nat
              /\ d.requests * (d.last - p[i]) = gained
          BY <1>3, <1>4, <1>6, <3>1
        <4>3. b.window \in Nat /\ b.tokens \in Nat
          BY <1>1
        <4> HIDE DEF paid, gained
        <4>4. (b.tokens - b.window) + (paid + b.window) = b.tokens + paid
          BY <4>2, <4>3
        <4> QED BY <4>1, <4>2, <4>4, <1>3
      <3>2. CASE i = Len(s) + 1
        <4>1. Len(p) - i = 0 /\ d.last - p[i] = 0
          BY <1>1, <1>3, <1>4, <3>2
        <4>2. b.requests * 0 <= (b.tokens - b.window) + 0 * b.window
          BY <1>1, <1>2
        <4> QED BY <4>1, <4>2, <1>3
      <3> QED BY <3>1, <3>2, <1>5
    <2> QED BY <2>1, <2>2 DEF NotLess
  <1>9. InRate(d, p)
    <2> SUFFICES ASSUME NEW j \in DOMAIN p, NEW i \in 1 .. j
                 PROVE  (j - i + 1) * d.window <= Capacity(d) + d.requests * (p[j] - p[i])
      BY DEF InRate
    <2>1. CASE j \in DOMAIN s
      <3>1. i \in DOMAIN s
        BY <2>1, <1>1
      <3> QED BY <3>1, <2>1, <1>3, <1>4 DEF Sound, InRate
    <2>2. CASE j = Len(s) + 1
      <3>1. /\ (Len(p) - i + 1) * d.window + d.tokens <= Capacity(d) + d.requests * (d.last - p[i])
            /\ i \in DOMAIN p /\ j = Len(p) /\ p[j] = d.last
        BY <1>3, <1>4, <1>7, <2>2 DEF NotMore
      <3>2. (Len(p) - i + 1) * d.window \in Nat /\ d.tokens \in Nat
        <4>1. Len(p) - i + 1 \in Nat /\ d.window \in Nat /\ d.tokens \in Nat
          BY <1>1, <1>2, <1>3, <1>4, <3>1
        <4> DEFINE n == Len(p) - i + 1
                   w == d.window
        <4> HIDE DEF n, w
        <4>2. n * w \in Nat
          BY <4>1, Product DEF n, w
        <4> QED BY <4>1, <4>2 DEF n, w
      <3>3. Capacity(d) + d.requests * (d.last - p[i]) \in Nat
        <4>1. p[i] \in Nat /\ p[i] <= d.last /\ d.last \in Nat
          BY <1>1, <1>3, <1>a, <3>1
        <4>2. d.last - p[i] \in Nat /\ d.requests \in Nat
          BY <4>1, <1>1, <1>3
        <4> DEFINE n == d.last - p[i]
                   w == d.requests
        <4> HIDE DEF n, w
        <4>3. w * n \in Nat
          BY <4>2, Product DEF n, w
        <4> QED BY <4>3, <1>1, <1>3 DEF n, w
      <3> DEFINE paid == (Len(p) - i + 1) * d.window
                 most == Capacity(d) + d.requests * (d.last - p[i])
      <3>4. paid + d.tokens <= most /\ paid \in Nat /\ d.tokens \in Nat /\ most \in Nat
        BY <3>1, <3>2, <3>3
      <3> HIDE DEF paid, most
      <3>5. paid <= most
        BY <3>4
      <3> QED BY <3>1, <3>5 DEF paid, most
    <2> QED BY <2>1, <2>2, <1>5
  <1>10. \A i \in DOMAIN p : p[i] <= d.last
    BY <1>3, <1>a
  <1>11. d.tokens <= Capacity(d)
    BY <1>1, <1>3
  <1> QED BY <1>3, <1>4, <1>7, <1>8, <1>9, <1>10, <1>11 DEF Sound, d, p

\* A bucket without a token was charged at least as often as it grants, and
\* that less than a window ago.
LEMMA ShortIsRecent ==
    ASSUME NEW b, NEW s, Sound(b, s), b.tokens < b.window
    PROVE  /\ Len(s) >= b.requests
           /\ \A i \in Len(s) - b.requests + 1 .. Len(s) : b.last - s[i] < b.window
  <1> DEFINE r == b.requests
             w == b.window
             n == Len(s)
             tokens == b.tokens
  <1>1. /\ r \in Nat \ {0} /\ w \in Nat \ {0} /\ n \in Nat /\ tokens \in Nat /\ tokens < w
        /\ DOMAIN s = 1 .. n /\ Capacity(b) = r * w /\ s \in Seq(Nat) /\ b.last \in Nat
    BY DEF Sound, Bucket, Capacity
  <1>2. r * w <= tokens + n * w
    BY DEF Sound, NotLess, Capacity
  <1>3. \A i \in DOMAIN s : \/ r * w <= tokens + (n - i) * w
                           \/ r * (b.last - s[i]) <= tokens + (n - i) * w
    BY DEF Sound, NotLess, Capacity
  <1>4. \A i \in DOMAIN s : s[i] \in Nat /\ s[i] <= b.last
    BY DEF Sound
  <1> HIDE DEF r, w, n, tokens
  <1>5. \A m \in Nat : m < r => tokens + m * w < r * w
    <2> SUFFICES ASSUME NEW m \in Nat, m < r PROVE tokens + m * w < r * w
      OBVIOUS
    <2> DEFINE gap == r - (m + 1)
    <2>1. gap \in Nat /\ r = (m + 1) + gap
      BY <1>1
    <2> HIDE DEF gap
    <2>2. r * w = (m + 1) * w + gap * w /\ gap * w \in Nat
      BY <2>1, <1>1
    <2>3. (m + 1) * w = m * w + w /\ m * w \in Nat
      BY <1>1, OneMore
    <2> QED BY <2>2, <2>3, <1>1
  <1>6. n >= r
    BY <1>1, <1>2, <1>5
  <1>7. ASSUME NEW i \in n - r + 1 .. n
        PROVE  b.last - s[i] < w
    <2>1. i \in DOMAIN s /\ n - i \in Nat /\ n - i < r
      BY <1>1, <1>6
    <2>2. tokens + (n - i) * w < r * w
      BY <2>1, <1>5
    <2> DEFINE age == b.last - s[i]
               debt == tokens + (n - i) * w
    <2>3. age \in Nat
      BY <1>1, <1>4, <2>1
    <2>4. debt \in Nat
      <3> DEFINE m == n - i
      <3>1. m \in Nat
        BY <2>1
      <3> HIDE DEF m
      <3>2. m * w \in Nat
        BY <3>1, <1>1, Product
      <3> QED BY <3>2, <1>1 DEF m
    <2>5. r * age <= debt
      BY <1>3, <2>1, <2>2, <2>4, <1>1
    <2> HIDE DEF age, debt
    <2>6. r * age < r * w
      BY <2>2, <2>3, <2>4, <2>5, <1>1, Product DEF debt
    <2>7. age < w
      BY <2>3, <2>6, <1>1
    <2> QED BY <2>7 DEF age
  <1> QED BY <1>6, <1>7 DEF n, r, w

-----------------------------------------------------------------------------
\* A bucket is found under a key, and a limit of the list is a limit.
LEMMA KeyType ==
    ASSUME NEW i \in DOMAIN Limits, NEW r \in Request
    PROVE  Limits[i] \in Limit /\ KeyOf(Limits[i], r) \in Keys
  <1>1. Limits[i] \in Limit
    BY LimiterAssumption
  <1> DEFINE limit == Limits[i]
  <1>2. limit.name \in Names /\ limit.key \in {"agent", "tool", "global"}
    BY <1>1 DEF Limit
  <1>3. r.tool \in Tools /\ r.agent \in Agents
    BY DEF Request
  <1>4. KeyOf(limit, r) \in Keys
    <2> HIDE DEF limit
    <2>1. KeyOf(limit, r) \in {<<limit.name, v>> : v \in {r.tool, Nil, r.agent}}
      BY <1>2 DEF KeyOf
    <2> QED BY <1>2, <1>3, <2>1 DEF Keys
  <1> QED BY <1>1, <1>4

\* The bucket a visit charges has a sound account, refilled up to the time of
\* the check; one that existed before keeps its limit.
LEMMA BucketAtSound ==
    ASSUME IInv, NEW c \in Callers, at[c] = "visiting", next[c] \in DOMAIN Limits
    PROVE  /\ KeyAt(c) \in Keys /\ Sound(BucketAt(c), charges[KeyAt(c)])
           /\ BucketAt(c).last = time[c] /\ time[c] \in Nat
           /\ buckets[KeyAt(c)] # Nil =>
                 /\ BucketAt(c).requests = buckets[KeyAt(c)].requests
                 /\ BucketAt(c).window = buckets[KeyAt(c)].window
  <1>1. request[c] \in Request /\ time[c] \in Nat
    BY DEF IInv, TypeOK
  <1>2. Limits[next[c]] \in Limit /\ KeyAt(c) \in Keys
    BY <1>1, KeyType DEF KeyAt
  <1> DEFINE k == KeyAt(c)
             fresh == Fresh(Limits[next[c]], time[c])
  <1>3. CASE buckets[k] = Nil
    <2>1. Sound(fresh, <<>>) /\ charges[k] = <<>>
      BY <1>1, <1>2, <1>3, FreshSound DEF IInv, Accounts
    <2>2. fresh.last = time[c]
      BY DEF Fresh
    <2>3. time[c] <= time[c]
      BY <1>1
    <2> HIDE DEF fresh
    <2>4. Sound(Refilled(fresh, time[c]), <<>>) /\ Refilled(fresh, time[c]).last = time[c]
      BY <1>1, <2>1, <2>2, <2>3, RefilledSound
    <2>5. BucketAt(c) = Refilled(fresh, time[c])
      BY <1>3 DEF BucketAt, fresh
    <2> QED BY <1>1, <1>2, <1>3, <2>1, <2>4, <2>5
  <1>4. CASE buckets[k] # Nil
    <2>1. Sound(buckets[k], charges[k]) /\ buckets[k].last <= time[c]
      BY <1>2, <1>4 DEF IInv, Accounts, Clock
    <2>2. BucketAt(c) = Refilled(buckets[k], time[c])
      BY <1>4 DEF BucketAt
    <2> QED BY <1>1, <1>2, <2>1, <2>2, RefilledSound
  <1> QED BY <1>3, <1>4

\* Where every bucket stands initially.
LEMMA Start == Init => IInv
  <1> SUFFICES ASSUME Init PROVE IInv
    OBVIOUS
  <1> USE LimiterAssumption DEF Init
  <1>1. TypeOK
    <2>1. 1 \in 1 .. Len(Limits) + 1
      BY LenProperties
    <2>2. Nil \notin Request
      BY DEF Request
    <2> QED BY <2>1 DEF TypeOK
  <1>2. Mutex /\ Clock /\ Accounts /\ Refusals /\ RefusedInTheWindow
    BY DEF Mutex, Clock, Accounts, Refusals, RefusedInTheWindow
  <1> QED BY <1>1, <1>2 DEF IInv

\* Steps that touch no bucket.
LEMMA CallersStep ==
    ASSUME IInv,
           Tick \/ \E c \in Callers : Lock(c) \/ Admit(c) \/ \E r \in Request : Call(c, r)
    PROVE  IInv'
  <1> USE DEF IInv
  <1>1. UNCHANGED <<buckets, history>>
    BY DEF Tick, Lock, Admit, Call
  <1>2. Accounts' /\ Refusals' /\ RefusedInTheWindow'
    BY <1>1 DEF Accounts, Refusals, RefusedInTheWindow, history
  <1>3. CASE Tick
    <2>1. now' = now + 1 /\ UNCHANGED callers /\ now \in Nat
      BY <1>3 DEF Tick, TypeOK
    <2>2. TypeOK' /\ Mutex'
      BY <1>1, <2>1 DEF TypeOK, Mutex, callers, history
    <2>3. Clock'
      <3>1. \A c \in Callers : time[c] \in Nat
        BY DEF TypeOK
      <3>2. \A k \in Keys : buckets[k] # Nil => buckets[k].last \in Nat
        BY DEF TypeOK, Bucket
      <3> QED BY <1>1, <2>1, <3>1, <3>2 DEF Clock, callers
    <2> QED BY <1>2, <2>2, <2>3
  <1>4. ASSUME NEW c \in Callers, NEW r \in Request, Call(c, r) PROVE IInv'
    BY <1>1, <1>2, <1>4 DEF Call, TypeOK, Mutex, Clock, history
  <1>5. ASSUME NEW c \in Callers, Lock(c) PROVE IInv'
    <2>1. TypeOK'
      <3>1. 1 \in 1 .. Len(Limits) + 1
        BY LimiterAssumption, LenProperties
      <3> QED BY <1>1, <1>5, <3>1 DEF Lock, TypeOK, history
    <2>2. Mutex'
      BY <1>5 DEF Lock, TypeOK, Mutex
    <2>3. Clock'
      <3>1. now \in Nat /\ now <= now
        BY DEF TypeOK
      <3>2. \A d \in Callers : at'[d] = "visiting" => d = c
        BY <1>5 DEF Lock, TypeOK
      <3>3. time'[c] = now /\ now' = now
        BY <1>5 DEF Lock, TypeOK
      <3> QED BY <1>1, <3>1, <3>2, <3>3 DEF Clock
    <2> QED BY <1>2, <2>1, <2>2, <2>3
  <1>6. ASSUME NEW c \in Callers, Admit(c) PROVE IInv'
    <2>1. TypeOK'
      <3>1. 1 \in 1 .. Len(Limits) + 1
        BY LimiterAssumption, LenProperties
      <3> QED BY <1>1, <1>6, <3>1 DEF Admit, Return, TypeOK, history
    <2>2. Mutex' /\ Clock'
      BY <1>1, <1>6 DEF Admit, Return, TypeOK, Mutex, Clock
    <2> QED BY <1>2, <2>1, <2>2
  <1> QED BY <1>3, <1>4, <1>5, <1>6

\* The step of the caller that holds the mutex: it skips the limit, pays or
\* is refused.
LEMMA VisitStep ==
    ASSUME IInv, NEW c \in Callers, Visit(c)
    PROVE  IInv'
  <1> USE DEF IInv
  <1> DEFINE k == KeyAt(c)
             b == BucketAt(c)
             d == [b EXCEPT !.tokens = @ - b.window]
  <1>1. /\ at[c] = "visiting" /\ next[c] \in DOMAIN Limits /\ now' = now
        /\ request[c] \in Request /\ now \in Nat /\ time[c] \in Nat /\ time[c] <= now
    BY DEF Visit, TypeOK, Clock
  <1>2. next[c] + 1 \in 1 .. Len(Limits) + 1 /\ 1 \in 1 .. Len(Limits) + 1
    BY <1>1, LimiterAssumption, LenProperties
  <1>3. /\ k \in Keys /\ Sound(b, charges[k]) /\ b.last = time[c]
        /\ buckets[k] # Nil => b.requests = buckets[k].requests /\ b.window = buckets[k].window
    BY <1>1, BucketAtSound
  <1>4. /\ b \in Bucket /\ b.tokens <= Capacity(b) /\ charges[k] \in Seq(Nat)
        /\ b.window \in Nat /\ b.tokens \in Nat /\ b.last \in Nat /\ b # Nil
    BY <1>3, LimiterAssumption DEF Sound, Bucket
  <1>5. \A e \in Callers : at[e] = "visiting" => e = c
    BY <1>1 DEF Mutex
  <1> HIDE DEF k, b
  <1>6. CASE Skip(c)
    <2>1. UNCHANGED <<now, at, request, time, answer, buckets, history>>
          /\ next' = [next EXCEPT ![c] = @ + 1]
      BY <1>1, <1>6 DEF Skip
    <2>2. TypeOK' /\ Mutex' /\ Clock'
      BY <1>2, <2>1 DEF TypeOK, Mutex, Clock, history
    <2>3. Accounts' /\ Refusals' /\ RefusedInTheWindow'
      BY <2>1 DEF Accounts, Refusals, RefusedInTheWindow, history
    <2> QED BY <2>2, <2>3
  <1>7. CASE Pay(c, k, b)
    <2>1. /\ b.tokens >= b.window /\ UNCHANGED <<now, at, request, time, answer, refusal>>
          /\ buckets' = [buckets EXCEPT ![k] = d]
          /\ charges' = [charges EXCEPT ![k] = Append(@, b.last)]
          /\ next' = [next EXCEPT ![c] = @ + 1]
      BY <1>1, <1>7 DEF Pay
    <2>2. Sound(d, Append(charges[k], b.last))
      BY <1>3, <2>1, PaidSound
    <2>3. d.last = time[c] /\ d.requests = b.requests /\ d.window = b.window
      BY <1>3, <1>4 DEF Bucket
    <2>4. d \in Bucket /\ d.tokens <= Capacity(d) /\ d # Nil /\ Append(charges[k], b.last) \in Seq(Nat)
      BY <2>2, LimiterAssumption DEF Sound, Bucket
    <2> HIDE DEF d
    <2>5. /\ buckets'[k] = d /\ charges'[k] = Append(charges[k], b.last)
          /\ \A j \in Keys : j # k => buckets'[j] = buckets[j] /\ charges'[j] = charges[j]
      BY <1>3, <2>1 DEF TypeOK
    <2>6. TypeOK'
      BY <1>2, <1>3, <2>1, <2>4 DEF TypeOK
    <2>7. Mutex' /\ Clock'
      <3>1. d.last <= now /\ \A e \in Callers : at[e] = "visiting" => d.last <= time[e]
        BY <1>1, <1>5, <2>3
      <3> QED BY <2>1, <2>5, <3>1 DEF Mutex, Clock
    <2>8. Accounts'
      BY <2>2, <2>4, <2>5 DEF Accounts
    <2>9. Refusals' /\ RefusedInTheWindow'
      <3> SUFFICES ASSUME refusal # Nil
                   PROVE  Refusals' /\ RefusedInTheWindow'
        BY <2>1 DEF Refusals, RefusedInTheWindow
      <3>1. refusal \in Refusal /\ refusal.key \in Keys /\ refusal.charged \in Nat
        BY DEF TypeOK, Refusal
      <3>2. CASE refusal.key # k
        BY <2>1, <2>5, <3>1, <3>2 DEF Refusals, RefusedInTheWindow
      <3>3. CASE refusal.key = k
        <4>1. /\ buckets[k] # Nil /\ refusal.charged <= Len(charges[k])
              /\ b.requests = buckets[k].requests /\ b.window = buckets[k].window
          BY <1>3, <3>3 DEF Refusals
        <4>2. /\ Len(charges'[k]) = Len(charges[k]) + 1 /\ Len(charges[k]) \in Nat
              /\ \A i \in 1 .. Len(charges[k]) : charges'[k][i] = charges[k][i]
          BY <1>4, <2>5
        <4>3. Refusals'
          BY <2>1, <2>4, <2>5, <3>1, <3>3, <4>1, <4>2 DEF Refusals
        <4>4. /\ refusal.charged >= b.requests /\ b.requests \in Nat \ {0}
              /\ \A i \in refusal.charged - b.requests + 1 .. refusal.charged :
                    refusal.time - charges[k][i] < b.window
          BY <1>4, <3>3, <4>1 DEF RefusedInTheWindow, Bucket
        <4>5. ASSUME NEW i \in refusal.charged - b.requests + 1 .. refusal.charged
              PROVE  charges'[k][i] = charges[k][i]
          <5>1. i \in 1 .. Len(charges[k])
            BY <3>1, <4>1, <4>2, <4>4
          <5> QED BY <5>1, <4>2
        <4>6. RefusedInTheWindow'
          <5>1. /\ refusal' = refusal /\ refusal'.key = k
                /\ buckets'[refusal'.key].requests = b.requests
                /\ buckets'[refusal'.key].window = b.window
            BY <2>1, <2>3, <2>5, <3>3
          <5>2. \A i \in refusal.charged - b.requests + 1 .. refusal.charged :
                   refusal.time - charges'[k][i] < b.window
            BY <4>4, <4>5
          <5> QED BY <4>4, <5>1, <5>2 DEF RefusedInTheWindow
        <4> QED BY <4>3, <4>6
      <3> QED BY <3>2, <3>3
    <2> QED BY <2>6, <2>7, <2>8, <2>9
  <1>8. CASE Exceed(c, k, b)
    <2>1. /\ b.tokens < b.window /\ UNCHANGED <<now, charges>>
          /\ buckets' = [buckets EXCEPT ![k] = b] /\ Return(c, next[c])
          /\ refusal' = [key |-> k, time |-> b.last, charged |-> Len(charges[k])]
      BY <1>1, <1>8 DEF Exceed
    <2>2. /\ buckets'[k] = b /\ \A j \in Keys : j # k => buckets'[j] = buckets[j]
          /\ \A e \in Callers : at'[e] = "visiting" => e # c /\ at[e] = "visiting"
      BY <1>3, <2>1 DEF Return, TypeOK
    <2>3. refusal' \in Refusal
      BY <1>3, <1>4, <2>1 DEF Refusal
    <2>4. TypeOK'
      BY <1>2, <1>3, <1>4, <2>1, <2>3 DEF Return, TypeOK
    <2>5. Mutex' /\ Clock'
      <3>1. \A e \in Callers : at'[e] # "visiting"
        BY <1>5, <2>2
      <3> QED BY <1>1, <1>3, <2>1, <2>2, <3>1 DEF Mutex, Clock
    <2>6. Accounts'
      BY <1>3, <1>4, <2>1, <2>2 DEF Accounts
    <2>7. Refusals' /\ RefusedInTheWindow'
      <3>1. /\ Len(charges[k]) >= b.requests /\ Len(charges[k]) \in Nat
            /\ \A i \in Len(charges[k]) - b.requests + 1 .. Len(charges[k]) :
                  b.last - charges[k][i] < b.window
        BY <1>3, <1>4, <2>1, ShortIsRecent
      <3> QED BY <1>4, <2>1, <2>2, <3>1 DEF Refusals, RefusedInTheWindow
    <2> QED BY <2>4, <2>5, <2>6, <2>7
  <1> QED BY <1>6, <1>7, <1>8 DEF Visit, Charge, k, b

\* The limiter's invariant, for any limits, callers and bound on the clock.
THEOREM LimiterInvariant == Spec => []IInv
  <1>1. IInv /\ [Next]_vars => IInv'
    <2> SUFFICES ASSUME IInv, [Next]_vars PROVE IInv'
      OBVIOUS
    <2>1. CASE UNCHANGED vars
      BY <2>1 DEF vars, callers, history, IInv, TypeOK, Mutex, Clock, Accounts, Refusals,
                  RefusedInTheWindow
    <2>2. CASE Next
      BY <2>2, CallersStep, VisitStep DEF Next
    <2> QED BY <2>1, <2>2
  <1> QED BY <1>1, Start, PTL DEF Spec

\* Every variable of the limiter has its type: no bucket is overdrawn or holds
\* more than its capacity.
THEOREM LimiterTyping == Spec => []TypeOK
  BY LimiterInvariant, PTL DEF IInv

\* A bucket pays, over any stretch of time, no more than it holds when full
\* and gains meanwhile.
THEOREM RateIsKept == Spec => []WithinRate
  <1>1. IInv => WithinRate
    <2> SUFFICES ASSUME IInv, NEW k \in Keys, NEW j \in DOMAIN charges[k], NEW i \in 1 .. j
                 PROVE  (j - i + 1) * buckets[k].window
                           <= Capacity(buckets[k])
                              + buckets[k].requests * (charges[k][j] - charges[k][i])
      BY DEF WithinRate
    <2>1. IF buckets[k] = Nil THEN charges[k] = <<>> ELSE Sound(buckets[k], charges[k])
      BY DEF IInv, Accounts
    <2>2. DOMAIN <<>> = {}
      OBVIOUS
    <2>3. Sound(buckets[k], charges[k])
      BY <2>1, <2>2
    <2> QED BY <2>3 DEF Sound, InRate
  <1> QED BY <1>1, LimiterInvariant, PTL

\* A limit refuses only keys that paid for all it grants within a window.
THEOREM RefusalsAreDue == Spec => []RefusedInTheWindow
  BY LimiterInvariant, PTL DEF IInv

-----------------------------------------------------------------------------
(***************************************************************************)
(* Every Check is one step of TokenBuckets.                                *)
(***************************************************************************)

\* Whole tokens: what a token more or less, and more or less of one, makes.
LEMMA WholeParts ==
    ASSUME NEW t \in Nat, NEW w \in Nat \ {0}
    PROVE  /\ t \div w \in Nat /\ w * (t \div w) \in Nat
           /\ w * (t \div w) <= t /\ t < w * (t \div w) + w
  <1>1. t \div w \in Nat /\ t % w \in 0 .. w - 1 /\ t = w * (t \div w) + (t % w)
    BY Z3
  <1> DEFINE q == t \div w
  <1>2. q \in Nat /\ w \in Nat
    BY <1>1
  <1> HIDE DEF q
  <1>3. w * q \in Nat
    BY <1>2, Product
  <1> QED BY <1>1, <1>3 DEF q

LEMMA Steps ==
    ASSUME NEW w \in Nat \ {0}, NEW p \in Nat, NEW q \in Nat, p < q
    PROVE  w * p + w <= w * q
  <1>1. q - p \in Nat \ {0} /\ q = p + (q - p)
    OBVIOUS
  <1>2. \A n \in Nat \ {0} : w * (p + n) = w * p + w * n /\ w * n >= w
    OBVIOUS
  <1> QED BY <1>1, <1>2

LEMMA WholeIs ==
    ASSUME NEW t \in Nat, NEW w \in Nat \ {0}, NEW q \in Nat, w * q <= t, t < w * q + w
    PROVE  t \div w = q
  <1> DEFINE p == t \div w
  <1>1. p \in Nat /\ w * p \in Nat /\ w * q \in Nat /\ w * p <= t /\ t < w * p + w
    BY WholeParts, Product
  <1> HIDE DEF p
  <1>2. ~ p < q
    BY <1>1, Steps
  <1>3. ~ q < p
    BY <1>1, Steps
  <1> QED BY <1>1, <1>2, <1>3 DEF p

LEMMA WholeNone ==
    ASSUME NEW t \in Nat, NEW w \in Nat \ {0}, t < w
    PROVE  t \div w = 0
  <1>1. w * 0 = 0
    OBVIOUS
  <1> QED BY <1>1, WholeIs

LEMMA WholeGrows ==
    ASSUME NEW t \in Nat, NEW u \in Nat, NEW w \in Nat \ {0}, t <= u
    PROVE  t \div w <= u \div w
  <1> DEFINE p == t \div w
             q == u \div w
  <1>1. /\ p \in Nat /\ q \in Nat /\ w * p \in Nat /\ w * q \in Nat
        /\ w * p <= t /\ u < w * q + w
    BY WholeParts
  <1> HIDE DEF p, q
  <1>2. ~ q < p
    BY <1>1, Steps
  <1> QED BY <1>1, <1>2 DEF p, q

LEMMA WholePaid ==
    ASSUME NEW t \in Nat, NEW w \in Nat \ {0}, w <= t
    PROVE  t \div w = (t - w) \div w + 1
  <1> DEFINE u == t - w
             p == u \div w
  <1>1. u \in Nat /\ t = u + w
    OBVIOUS
  <1> HIDE DEF u
  <1>2. p \in Nat /\ w * p \in Nat /\ w * p <= u /\ u < w * p + w
    BY <1>1, WholeParts
  <1> HIDE DEF p
  <1>3. w * (p + 1) = w * p + w
    BY <1>2
  <1>4. t \div w = p + 1
    BY <1>1, <1>2, <1>3, WholeIs
  <1> QED BY <1>4 DEF p, u

LEMMA WholeWithin ==
    ASSUME NEW t \in Nat, NEW w \in Nat \ {0}, NEW n \in Nat, t <= n * w
    PROVE  t \div w <= n
  <1> DEFINE p == t \div w
  <1>1. p \in Nat /\ w * p \in Nat /\ w * p <= t /\ n * w = w * n /\ w * n \in Nat
    BY WholeParts, Product
  <1> HIDE DEF p
  <1>2. ~ n < p
    BY <1>1, Steps
  <1> QED BY <1>1, <1>2 DEF p

\* The tokens a check of r has taken from k when it comes to limit i: one more
\* if the limit before charges k.
Spent(r, i, k) == Cardinality({j \in 1 .. i - 1 : k \in Charged(j, r)})
LEMMA SpentCounts ==
    ASSUME NEW r, NEW i \in Nat \ {0}, NEW k
    PROVE  /\ Spent(r, i, k) \in Nat
           /\ Spent(r, i + 1, k) = IF k \in Charged(i, r) THEN Spent(r, i, k) + 1 ELSE Spent(r, i, k)
  <1> DEFINE past == {j \in 1 .. i - 1 : k \in Charged(j, r)}
             all  == {j \in 1 .. (i + 1) - 1 : k \in Charged(j, r)}
  <1>1. IsFiniteSet(1 .. i - 1)
    BY FS_Interval
  <1>2. IsFiniteSet(past) /\ Cardinality(past) \in Nat
    BY <1>1, FS_Subset, FS_CardinalityType
  <1>3. i \notin past
    OBVIOUS
  <1>4. (i + 1) - 1 = i /\ 1 .. i = (1 .. i - 1) \cup {i}
    OBVIOUS
  <1>5. all = IF k \in Charged(i, r) THEN past \cup {i} ELSE past
    BY <1>4
  <1> HIDE DEF past, all
  <1>6. Cardinality(past \cup {i}) = Cardinality(past) + 1
    BY <1>2, <1>3, FS_AddElement
  <1>7. Cardinality(all) = IF k \in Charged(i, r) THEN Cardinality(past) + 1 ELSE Cardinality(past)
    BY <1>5, <1>6
  <1> QED BY <1>2, <1>7 DEF Spent, past, all

\* A limit that charges k is one of those that charge it before a later one.
LEMMA SpentBefore ==
    ASSUME NEW r, NEW i \in Nat \ {0}, NEW j \in 1 .. i - 1, NEW k, k \in Charged(j, r)
    PROVE  Spent(r, j, k) < Spent(r, i, k)
  <1> DEFINE few  == {n \in 1 .. (j + 1) - 1 : k \in Charged(n, r)}
             many == {n \in 1 .. i - 1 : k \in Charged(n, r)}
  <1>1. few \subseteq many
    OBVIOUS
  <1>2. IsFiniteSet(many)
    <2>1. IsFiniteSet(1 .. i - 1)
      BY FS_Interval
    <2> QED BY <2>1, FS_Subset
  <1> HIDE DEF few, many
  <1>3. Cardinality(few) <= Cardinality(many)
    BY <1>1, <1>2, FS_Subset
  <1>4. Spent(r, j + 1, k) <= Spent(r, i, k)
    BY <1>3 DEF few, many, Spent
  <1>5. Spent(r, j + 1, k) = Spent(r, j, k) + 1 /\ Spent(r, j, k) \in Nat
    <2>1. j \in Nat \ {0}
      OBVIOUS
    <2> QED BY <2>1, SpentCounts
  <1>6. Spent(r, i, k) \in Nat
    BY SpentCounts
  <1> QED BY <1>4, <1>5, <1>6

LEMMA TakenIs ==
    ASSUME NEW r \in Request, NEW i \in 1 .. Len(Limits) + 1, NEW k
    PROVE  Atomic!Taken(r, i, k) = Spent(r, i, k)
  <1>1. DOMAIN Limits = 1 .. Len(Limits) /\ Len(Limits) \in Nat
    BY LimiterAssumption, LenProperties
  <1>2. {j \in 1 .. i - 1 : k \in [n \in DOMAIN Limits |-> [q \in Request |-> Charged(n, q)]][j][r]}
          = {j \in 1 .. i - 1 : k \in Charged(j, r)}
    BY <1>1
  <1>3. \A S : Atomic!Cardinality(S) = Cardinality(S)
    BY DEF Atomic!Cardinality, Atomic!IsFiniteSet, Cardinality, IsFiniteSet
  <1> QED BY <1>2, <1>3 DEF Atomic!Taken, Spent

\* Who asks has a request, the check in the loop has refilled what it charged,
\* and a bucket has its requests from one of the limits it belongs to.
Asking == \A c \in Callers : at[c] = "idle" => request[c] = Nil
Recent == \A c \in Callers : at[c] = "visiting" =>
             \A j \in 1 .. next[c] - 1 : \A k \in Charged(j, request[c]) :
                buckets[k] # Nil /\ buckets[k].last = time[c]
Made   == \A k \in Keys : buckets[k] # Nil =>
             \E i \in DOMAIN Limits : \E r \in Request :
                k \in Charged(i, r) /\ buckets[k].requests = Limits[i].requests
AtomicInv == IInv /\ Asking /\ Recent /\ Made

\* What a step leaves of the buckets and of the caller in the loop.
LEMMA AtomicStart == Init => Asking /\ Recent /\ Made
  BY DEF Init, Asking, Recent, Made

LEMMA AtomicStep == AtomicInv /\ [Next]_vars => Asking' /\ Recent' /\ Made'
  <1> SUFFICES ASSUME AtomicInv, [Next]_vars PROVE Asking' /\ Recent' /\ Made'
    OBVIOUS
  <1> USE DEF AtomicInv
  <1>0. /\ at \in [Callers -> {"idle", "calling", "visiting"}]
        /\ request \in [Callers -> Request \cup {Nil}]
        /\ next \in [Callers -> 1 .. Len(Limits) + 1] /\ time \in [Callers -> Nat]
        /\ buckets \in [Keys -> Bucket \cup {Nil}]
        /\ DOMAIN Limits = 1 .. Len(Limits) /\ Len(Limits) \in Nat
    BY LimiterAssumption, LenProperties DEF IInv, TypeOK
  <1>1. CASE UNCHANGED vars \/ Tick
    BY <1>1 DEF Tick, vars, callers, history, Asking, Recent, Made
  <1>2. ASSUME NEW c \in Callers, NEW r \in Request, Call(c, r) PROVE Asking' /\ Recent' /\ Made'
    BY <1>0, <1>2 DEF Call, Asking, Recent, Made
  <1>3. ASSUME NEW c \in Callers, Lock(c) PROVE Asking' /\ Recent' /\ Made'
    BY <1>0, <1>3 DEF Lock, Asking, Recent, Made
  <1>4. ASSUME NEW c \in Callers, Admit(c) PROVE Asking' /\ Recent' /\ Made'
    BY <1>0, <1>4 DEF Admit, Return, Asking, Recent, Made
  <1>5. ASSUME NEW c \in Callers, Visit(c) PROVE Asking' /\ Recent' /\ Made'
    <2> DEFINE k == KeyAt(c)
               b == BucketAt(c)
    <2>1. /\ at[c] = "visiting" /\ next[c] \in DOMAIN Limits /\ request[c] \in Request
          /\ \A e \in Callers : at[e] = "visiting" => e = c
      BY <1>5 DEF Visit, IInv, TypeOK, Mutex
    <2>2. /\ k \in Keys /\ Sound(b, charges[k]) /\ b.last = time[c]
          /\ buckets[k] # Nil => b.requests = buckets[k].requests
      BY <2>1, BucketAtSound
    <2>3. b \in Bucket /\ b # Nil
      BY <2>2, LimiterAssumption DEF Sound, Bucket
    <2>4. buckets[k] = Nil => b.requests = Limits[next[c]].requests
      BY DEF BucketAt, Refilled, Fresh
    <2>5. request[c].tool \in Limits[next[c]].tools => Charged(next[c], request[c]) = {k}
      BY DEF Charged, KeyAt
    <2>6. CASE Skip(c)
      <3>1. Charged(next[c], request[c]) = {}
        BY <2>6 DEF Skip, Charged
      <3>2. UNCHANGED <<at, request, time, buckets>> /\ next' = [next EXCEPT ![c] = @ + 1]
        BY <2>6 DEF Skip
      <3>3. Asking' /\ Made'
        BY <3>2 DEF Asking, Made
      <3>4. next'[c] = next[c] + 1 /\ next[c] \in Nat
        BY <1>0, <3>2
      <3>5. \A j \in 1 .. next'[c] - 1 : j \in 1 .. next[c] - 1 \/ j = next[c]
        BY <3>4
      <3>6. Recent'
        BY <2>1, <3>1, <3>2, <3>5 DEF Recent
      <3> QED BY <3>3, <3>6
    <2> HIDE DEF k, b
    <2>7. ASSUME NEW d \in Bucket, d.last = b.last, d.requests = b.requests,
                 buckets' = [buckets EXCEPT ![k] = d],
                 request[c].tool \in Limits[next[c]].tools
          PROVE  /\ Made' /\ \A j \in Keys : buckets[j] # Nil => buckets'[j] # Nil
                 /\ \A j \in Keys : buckets[j] # Nil /\ buckets[j].last = time[c] =>
                       buckets'[j].last = time[c]
                 /\ buckets'[k] # Nil /\ buckets'[k].last = time[c]
      <3>1. d # Nil
        BY LimiterAssumption DEF Bucket
      <3>2. buckets'[k] = d /\ \A j \in Keys : j # k => buckets'[j] = buckets[j]
        BY <1>0, <2>2, <2>7
      <3>3. \E i \in DOMAIN Limits : \E r \in Request :
               k \in Charged(i, r) /\ d.requests = Limits[i].requests
        <4>1. CASE buckets[k] = Nil
          BY <2>1, <2>4, <2>5, <2>7, <4>1
        <4>2. CASE buckets[k] # Nil
          BY <2>2, <2>7, <4>2 DEF Made
        <4> QED BY <4>1, <4>2
      <3>4. Made'
        BY <3>2, <3>3 DEF Made
      <3> QED BY <2>2, <2>7, <3>1, <3>2, <3>4
    <2>8. CASE Pay(c, k, b) /\ request[c].tool \in Limits[next[c]].tools
      <3> DEFINE d == [b EXCEPT !.tokens = @ - b.window]
      <3>1. b.tokens >= b.window /\ b.tokens \in Nat /\ b.window \in Nat /\ b.tokens - b.window \in Nat
        BY <2>3, <2>8 DEF Pay, Bucket
      <3>2. d \in Bucket /\ d.last = b.last /\ d.requests = b.requests
        BY <2>3, <3>1 DEF Bucket
      <3>3. /\ buckets' = [buckets EXCEPT ![k] = d] /\ UNCHANGED <<at, request, time>>
            /\ next' = [next EXCEPT ![c] = @ + 1]
        BY <2>8 DEF Pay
      <3> HIDE DEF d
      <3>4. /\ Made' /\ \A j \in Keys : buckets[j] # Nil => buckets'[j] # Nil
            /\ \A j \in Keys : buckets[j] # Nil /\ buckets[j].last = time[c] =>
                  buckets'[j].last = time[c]
            /\ buckets'[k] # Nil /\ buckets'[k].last = time[c]
        BY <2>7, <2>8, <3>2, <3>3
      <3>5. next'[c] = next[c] + 1 /\ next[c] \in Nat
        BY <1>0, <3>3
      <3>6. \A j \in 1 .. next'[c] - 1 : j \in 1 .. next[c] - 1 \/ j = next[c]
        BY <3>5
      <3>7. \A j \in DOMAIN Limits : Charged(j, request[c]) \subseteq Keys
        BY <2>1, KeyType DEF Charged
      <3>8. \A j \in 1 .. next[c] - 1 : j \in DOMAIN Limits
        BY <1>0, <2>1
      <3>9. Recent'
        <4> SUFFICES ASSUME NEW j \in 1 .. next'[c] - 1, NEW i \in Charged(j, request[c])
                     PROVE  buckets'[i] # Nil /\ buckets'[i].last = time[c]
          BY <2>1, <3>3 DEF Recent
        <4>1. CASE j = next[c]
          BY <2>5, <2>8, <3>4, <4>1
        <4>2. CASE j \in 1 .. next[c] - 1
          BY <2>1, <3>4, <3>7, <3>8, <4>2 DEF Recent
        <4> QED BY <3>6, <4>1, <4>2
      <3> QED BY <3>3, <3>4, <3>9 DEF Asking
    <2>9. CASE Exceed(c, k, b) /\ request[c].tool \in Limits[next[c]].tools
      <3>1. buckets' = [buckets EXCEPT ![k] = b] /\ Return(c, next[c])
        BY <2>9 DEF Exceed
      <3>2. Made'
        BY <2>3, <2>7, <2>9, <3>1
      <3>3. Asking' /\ Recent'
        BY <1>0, <2>1, <3>1 DEF Return, Asking, Recent
      <3> QED BY <3>2, <3>3
    <2> QED BY <1>5, <2>6, <2>8, <2>9 DEF Visit, Charge, k, b
  <1> QED BY <1>1, <1>2, <1>3, <1>4, <1>5 DEF Next

LEMMA AlwaysAtomic == Spec => []AtomicInv
  <1>1. Init => AtomicInv
    BY Start, AtomicStart DEF AtomicInv
  <1>2. AtomicInv /\ [Next]_vars => (Asking /\ Recent /\ Made)'
    BY AtomicStep
  <1> QED BY <1>1, <1>2, LimiterInvariant, AtomicStart, PTL DEF Spec, AtomicInv

\* The levels that TokenBuckets sees: those of the buckets and, while a check
\* is in the loop, what it has spent.
LevelsAre ==
    \A k \in Keys :
        /\ Whole(buckets[k]) \in Nat
        /\ (\A c \in Callers : at[c] # "visiting") => Level[k] = Whole(buckets[k])
        /\ \A c \in Callers : at[c] = "visiting" =>
              Level[k] = Whole(buckets[k]) + Spent(request[c], next[c], k)
LEMMA LevelsSeen == AtomicInv => LevelsAre
  <1> SUFFICES ASSUME AtomicInv, NEW k \in Keys
               PROVE  /\ Whole(buckets[k]) \in Nat
                      /\ (\A c \in Callers : at[c] # "visiting") => Level[k] = Whole(buckets[k])
                      /\ \A c \in Callers : at[c] = "visiting" =>
                            Level[k] = Whole(buckets[k]) + Spent(request[c], next[c], k)
    BY DEF LevelsAre
  <1>1. Whole(buckets[k]) \in Nat
    <2>1. CASE buckets[k] = Nil
      BY <2>1 DEF Whole
    <2>2. CASE buckets[k] # Nil
      <3>1. buckets[k].tokens \in Nat /\ buckets[k].window \in Nat \ {0}
        BY <2>2 DEF AtomicInv, IInv, TypeOK, Bucket
      <3> QED BY <2>2, <3>1, WholeParts DEF Whole
    <2> QED BY <2>1, <2>2
  <1>2. ASSUME \A c \in Callers : at[c] # "visiting" PROVE Level[k] = Whole(buckets[k])
    <2>1. PaidSoFar(k) = {}
      BY <1>2 DEF PaidSoFar
    <2>2. Cardinality(PaidSoFar(k)) = 0
      BY <2>1, FS_EmptySet
    <2> QED BY <1>1, <2>2 DEF Level
  <1>3. ASSUME NEW c \in Callers, at[c] = "visiting"
        PROVE  Level[k] = Whole(buckets[k]) + Spent(request[c], next[c], k)
    <2>1. \A d \in Callers : at[d] = "visiting" => d = c
      BY <1>3 DEF AtomicInv, IInv, Mutex
    <2>2. /\ next[c] \in 1 .. Len(Limits) + 1
          /\ DOMAIN Limits = 1 .. Len(Limits) /\ Len(Limits) \in Nat
      BY LimiterAssumption, LenProperties DEF AtomicInv, IInv, TypeOK
    <2>3. \A j : j \in DOMAIN Limits /\ j < next[c] <=> j \in 1 .. next[c] - 1
      BY <2>2
    <2>4. PaidSoFar(k) = {j \in 1 .. next[c] - 1 : k \in Charged(j, request[c])}
      BY <1>3, <2>1, <2>3 DEF PaidSoFar
    <2> QED BY <2>4 DEF Level, Spent
  <1> QED BY <1>1, <1>2, <1>3

\* Steps that neither make, fill nor charge a bucket, and end no check.
LEMMA UnseenStep ==
    ASSUME AtomicInv, AtomicInv',
           UNCHANGED vars \/ Tick \/ \E c \in Callers : Lock(c) \/ (Visit(c) /\ Skip(c))
    PROVE  UNCHANGED <<request, Level, answer>>
  <1>0. LevelsAre
    BY LevelsSeen
  <1>1. LevelsAre'
    BY LevelsSeen, PTL
  <1>2. UNCHANGED <<request, answer, buckets>>
    BY DEF vars, callers, Tick, Lock, Skip
  <1>3. ASSUME NEW k \in Keys PROVE Level'[k] = Level[k]
    <2>1. CASE UNCHANGED vars \/ Tick
      BY <2>1 DEF vars, callers, Tick, Level, PaidSoFar
    <2>2. ASSUME NEW c \in Callers, Lock(c) PROVE Level'[k] = Level[k]
      <3>1. /\ \A d \in Callers : at[d] # "visiting"
            /\ at'[c] = "visiting" /\ next'[c] = 1
        BY <2>2 DEF Lock, AtomicInv, IInv, TypeOK
      <3>2. Spent(request'[c], 1, k) = 0
        <4>1. {j \in 1 .. 1 - 1 : k \in Charged(j, request'[c])} = {}
          OBVIOUS
        <4> QED BY <4>1, FS_EmptySet DEF Spent
      <3>3. Level[k] = Whole(buckets[k]) /\ Whole(buckets[k]) \in Nat
        BY <1>0, <3>1 DEF LevelsAre
      <3>4. Level'[k] = Whole(buckets'[k]) + Spent(request'[c], next'[c], k)
        BY <1>1, <3>1 DEF LevelsAre
      <3> QED BY <1>2, <3>1, <3>2, <3>3, <3>4
    <2>3. ASSUME NEW c \in Callers, Visit(c), Skip(c) PROVE Level'[k] = Level[k]
      <3>1. /\ at[c] = "visiting" /\ at' = at /\ next[c] \in Nat \ {0}
            /\ next'[c] = next[c] + 1 /\ request' = request
        BY <2>3 DEF Visit, Skip, AtomicInv, IInv, TypeOK
      <3>2. Charged(next[c], request[c]) = {}
        BY <2>3 DEF Skip, Charged
      <3>3. Spent(request[c], next[c] + 1, k) = Spent(request[c], next[c], k)
        BY <3>1, <3>2, SpentCounts
      <3>4. Level[k] = Whole(buckets[k]) + Spent(request[c], next[c], k)
        BY <1>0, <3>1 DEF LevelsAre
      <3>5. Level'[k] = Whole(buckets'[k]) + Spent(request'[c], next'[c], k)
        BY <1>1, <3>1 DEF LevelsAre
      <3> QED BY <1>2, <3>1, <3>3, <3>4, <3>5
    <2> QED BY <2>1, <2>2, <2>3
  <1>4. Level' = Level
    BY <1>3 DEF Level
  <1> QED BY <1>2, <1>4

\* A handler calls.
LEMMA CallStep ==
    ASSUME AtomicInv, AtomicInv', NEW c \in Callers, NEW r \in Request, Call(c, r)
    PROVE  Atomic!Ask(c)
  <1>1. request[c] = Nil /\ request' = [request EXCEPT ![c] = r] /\ answer' = answer
    BY DEF Call, AtomicInv, Asking
  <1>2. UNCHANGED <<buckets, next>> /\ \A d \in Callers : at'[d] = "visiting" <=> at[d] = "visiting"
    BY DEF Call, AtomicInv, IInv, TypeOK
  <1>3. \A d \in Callers : at[d] = "visiting" => request'[d] = request[d]
    BY DEF Call, AtomicInv, IInv, TypeOK
  <1>4. \A k : PaidSoFar(k)' = PaidSoFar(k)
    BY <1>2, <1>3 DEF PaidSoFar
  <1>5. Level' = Level
    BY <1>2, <1>4 DEF Level
  <1> QED BY <1>1, <1>5 DEF Atomic!Ask

\* A visit to a bucket takes no token from it before it charges it; and none
\* is gained by one that this check has charged before.
LEMMA TokensStay ==
    ASSUME AtomicInv, NEW c \in Callers, at[c] = "visiting", next[c] \in DOMAIN Limits,
           buckets[KeyAt(c)] # Nil
    PROVE  /\ buckets[KeyAt(c)].tokens \in Nat
           /\ buckets[KeyAt(c)].tokens <= BucketAt(c).tokens
           /\ buckets[KeyAt(c)].last = time[c] => BucketAt(c).tokens = buckets[KeyAt(c)].tokens
  <1> DEFINE k == KeyAt(c)
             old == buckets[k]
             gain == Gain(old, time[c])
  <1>1. k \in Keys /\ time[c] \in Nat /\ old.last <= time[c]
    BY BucketAtSound DEF AtomicInv, IInv, Clock
  <1>2. old \in Bucket /\ old.tokens <= Capacity(old)
    BY <1>1 DEF AtomicInv, IInv, TypeOK
  <1>3. /\ old.tokens \in Nat /\ old.requests \in Nat /\ old.window \in Nat /\ old.last \in Nat
        /\ Capacity(old) \in Nat
    BY <1>2, Product DEF Bucket, Capacity
  <1>4. gain \in Nat /\ (old.last = time[c] => gain = 0)
    <2>1. time[c] - old.last \in Nat /\ (old.last = time[c] => time[c] - old.last = 0)
      BY <1>1, <1>3
    <2>2. old.requests * 0 = 0
      BY <1>3
    <2> QED BY <1>3, <2>1, <2>2, Product DEF Gain
  <1>5. BucketAt(c) = Refilled(old, time[c])
    BY DEF BucketAt
  <1> HIDE DEF old, gain, k
  <1>6. BucketAt(c).tokens
          = IF old.tokens + gain > Capacity(old) THEN Capacity(old) ELSE old.tokens + gain
    BY <1>2, <1>5 DEF Refilled, Bucket, gain
  <1> QED BY <1>2, <1>3, <1>4, <1>6 DEF old, k

\* A check that ends at the limit it has reached, or beyond the last, which
\* leaves every bucket as many whole tokens as it had, is a step Answer.
LEMMA EndsAtOnce ==
    ASSUME AtomicInv, AtomicInv', NEW c \in Callers, at[c] = "visiting",
           request' = [request EXCEPT ![c] = Nil],
           answer' = [answer EXCEPT ![c] = IF next[c] <= Len(Limits) THEN next[c] ELSE 0],
           \A d \in Callers : at'[d] # "visiting",
           \A k \in Keys : Whole(buckets'[k]) = Whole(buckets[k]),
           next[c] <= Len(Limits) =>
              \E k \in Keys : k \in Charged(next[c], request[c]) /\ Whole(buckets[k]) = 0
    PROVE  Atomic!Answer(c)
  <1> DEFINE r == request[c]
             n == next[c]
             charges_ == [i \in DOMAIN Limits |-> [q \in Request |-> Charged(i, q)]]
  <1>1. /\ r \in Request /\ r # Nil /\ n \in 1 .. Len(Limits) + 1
        /\ DOMAIN Limits = 1 .. Len(Limits) /\ Len(Limits) \in Nat
    BY LimiterAssumption, LenProperties DEF AtomicInv, IInv, TypeOK, Request
  <1>2. \A j \in 1 .. Len(Limits) : charges_[j][r] = Charged(j, r) /\ Charged(j, r) \subseteq Keys
    BY <1>1, KeyType DEF Charged
  <1>3. \A k \in Keys : /\ Whole(buckets[k]) \in Nat
                        /\ Level[k] = Whole(buckets[k]) + Spent(r, n, k)
                        /\ Level'[k] = Whole(buckets[k])
    <2>1. LevelsAre
      BY LevelsSeen
    <2>2. LevelsAre'
      BY LevelsSeen, PTL
    <2> QED BY <2>1, <2>2 DEF LevelsAre
  <1>4. \A k : Spent(r, n, k) \in Nat
    <2>1. n \in Nat \ {0}
      BY <1>1
    <2> QED BY <2>1, SpentCounts
  <1> HIDE DEF charges_, r, n
  <1>5. ASSUME NEW j \in 1 .. n - 1, NEW k \in charges_[j][r]
        PROVE  Level[k] > Atomic!Taken(r, j, k)
    <2>1. j \in 1 .. Len(Limits) /\ n \in Nat \ {0} /\ j \in 1 .. Len(Limits) + 1
      BY <1>1
    <2>2. k \in Charged(j, r) /\ k \in Keys
      BY <1>2, <2>1
    <2>3. Spent(r, j, k) < Spent(r, n, k) /\ Atomic!Taken(r, j, k) = Spent(r, j, k)
      BY <1>1, <2>1, <2>2, SpentBefore, TakenIs
    <2>4. Spent(r, j, k) \in Nat
      <3>1. j \in Nat \ {0}
        OBVIOUS
      <3> QED BY <3>1, SpentCounts
    <2> QED BY <1>3, <1>4, <2>2, <2>3, <2>4
  <1>6. ASSUME n <= Len(Limits)
        PROVE  \E k \in charges_[n][r] : Level[k] = Atomic!Taken(r, n, k)
    <2>1. PICK k \in Keys : k \in Charged(n, r) /\ Whole(buckets[k]) = 0
      BY <1>6 DEF r, n
    <2>2. k \in charges_[n][r]
      BY <1>1, <1>2, <1>6, <2>1
    <2>3. Level[k] = Atomic!Taken(r, n, k)
      BY <1>1, <1>3, <1>4, <2>1, TakenIs
    <2> QED BY <2>2, <2>3
  <1>7. Level' = [k \in Keys |-> Level[k] - Atomic!Taken(r, n, k)]
    <2>1. ASSUME NEW k \in Keys PROVE Level'[k] = Level[k] - Atomic!Taken(r, n, k)
      BY <1>1, <1>3, <1>4, TakenIs
    <2> QED BY <2>1 DEF Level
  <1>8. Atomic!Checked(r, n, Level, Level')
    BY <1>5, <1>6, <1>7 DEF Atomic!Checked, Atomic!Passes, Atomic!Stops, charges_
  <1> QED BY <1>1, <1>8 DEF Atomic!Answer, r, n

\* The two ways a check ends.
LEMMA AdmitStep ==
    ASSUME AtomicInv, AtomicInv', NEW c \in Callers, Admit(c)
    PROVE  Atomic!Answer(c)
  <1>1. /\ at[c] = "visiting" /\ next[c] \notin DOMAIN Limits /\ UNCHANGED buckets
        /\ at' = [at EXCEPT ![c] = "idle"] /\ request' = [request EXCEPT ![c] = Nil]
        /\ answer' = [answer EXCEPT ![c] = 0]
    BY DEF Admit, Return
  <1>2. ~ next[c] <= Len(Limits)
    <2>1. next[c] \in 1 .. Len(Limits) + 1 /\ DOMAIN Limits = 1 .. Len(Limits)
      BY LimiterAssumption, LenProperties DEF AtomicInv, IInv, TypeOK
    <2> QED BY <1>1, <2>1
  <1>3. \A d \in Callers : at'[d] # "visiting"
    BY <1>1 DEF AtomicInv, IInv, TypeOK, Mutex
  <1> QED BY <1>1, <1>2, <1>3, EndsAtOnce

LEMMA ExceedStep ==
    ASSUME AtomicInv, AtomicInv', NEW c \in Callers, Visit(c),
           request[c].tool \in Limits[next[c]].tools, Exceed(c, KeyAt(c), BucketAt(c))
    PROVE  Atomic!Answer(c)
  <1> DEFINE k == KeyAt(c)
             b == BucketAt(c)
  <1>1. /\ at[c] = "visiting" /\ next[c] \in DOMAIN Limits /\ request[c] \in Request
        /\ b.tokens < b.window /\ buckets' = [buckets EXCEPT ![k] = b]
        /\ at' = [at EXCEPT ![c] = "idle"] /\ request' = [request EXCEPT ![c] = Nil]
        /\ answer' = [answer EXCEPT ![c] = next[c]]
    BY DEF Visit, Exceed, Return, AtomicInv, IInv, TypeOK
  <1>2. next[c] <= Len(Limits)
    <2>1. next[c] \in 1 .. Len(Limits) + 1 /\ DOMAIN Limits = 1 .. Len(Limits)
      BY LimiterAssumption, LenProperties DEF AtomicInv, IInv, TypeOK
    <2> QED BY <1>1, <2>1
  <1>3. \A d \in Callers : at'[d] # "visiting"
    BY <1>1 DEF AtomicInv, IInv, TypeOK, Mutex
  <1>4. k \in Keys /\ k \in Charged(next[c], request[c])
    BY <1>1, KeyType DEF KeyAt, Charged
  <1>5. Whole(b) = 0 /\ Whole(buckets[k]) = 0
    <2>1. Sound(b, charges[k]) /\ (buckets[k] # Nil => b.window = buckets[k].window)
      BY <1>1, BucketAtSound DEF AtomicInv
    <2>2. b.tokens \in Nat /\ b.window \in Nat \ {0}
      BY <2>1 DEF Sound, Bucket
    <2>3. Whole(b) = 0
      BY <1>1, <2>2, WholeNone DEF Whole
    <2>4. CASE buckets[k] = Nil
      BY <2>3, <2>4 DEF Whole
    <2>5. CASE buckets[k] # Nil
      <3>1. buckets[k].tokens \in Nat /\ buckets[k].tokens <= b.tokens
        BY <1>4, <2>5, TokensStay, <1>1
      <3>2. buckets[k].tokens < buckets[k].window /\ buckets[k].window \in Nat \ {0}
        BY <1>1, <2>1, <2>2, <2>5, <3>1
      <3> QED BY <2>3, <2>5, <3>1, <3>2, WholeNone DEF Whole
    <2> QED BY <2>4, <2>5
  <1> HIDE DEF k, b
  <1>6. \A j \in Keys : Whole(buckets'[j]) = Whole(buckets[j])
    <2>1. buckets'[k] = b /\ \A j \in Keys : j # k => buckets'[j] = buckets[j]
      BY <1>1, <1>4 DEF AtomicInv, IInv, TypeOK
    <2> QED BY <1>5, <2>1
  <1> QED BY <1>1, <1>2, <1>3, <1>4, <1>5, <1>6, EndsAtOnce

\* A bucket that pays has been filled before, perhaps: the token it pays with
\* counts until the check ends.
LEMMA PayStep ==
    ASSUME AtomicInv, AtomicInv', NEW c \in Callers, Visit(c),
           request[c].tool \in Limits[next[c]].tools, Pay(c, KeyAt(c), BucketAt(c))
    PROVE  Atomic!Replenish
  <1> DEFINE k == KeyAt(c)
             b == BucketAt(c)
             d == [b EXCEPT !.tokens = @ - b.window]
             r == request[c]
             n == next[c]
  <1>1. /\ at[c] = "visiting" /\ n \in DOMAIN Limits /\ n \in Nat \ {0} /\ r \in Request
        /\ b.tokens >= b.window /\ buckets' = [buckets EXCEPT ![k] = d]
        /\ UNCHANGED <<at, request, answer>> /\ next'[c] = n + 1
        /\ DOMAIN Limits = 1 .. Len(Limits) /\ Len(Limits) \in Nat
    BY LimiterAssumption, LenProperties DEF Visit, Pay, AtomicInv, IInv, TypeOK
  <1>2. /\ k \in Keys /\ Charged(n, r) = {k} /\ Sound(b, charges[k])
        /\ buckets[k] # Nil => b.requests = buckets[k].requests /\ b.window = buckets[k].window
    BY <1>1, BucketAtSound DEF KeyAt, Charged, AtomicInv
  <1>3. /\ b \in Bucket /\ b.tokens \in Nat /\ b.window \in Nat \ {0} /\ b.requests \in Nat
        /\ b.tokens <= b.requests * b.window
    BY <1>2 DEF Sound, Bucket, Capacity
  <1>4. Whole(b) \in Nat /\ Whole(b) = Whole(d) + 1 /\ Whole(d) \in Nat /\ Whole(b) <= b.requests
    <2>1. b # Nil /\ d # Nil /\ d.tokens = b.tokens - b.window /\ d.window = b.window
          /\ b.tokens - b.window \in Nat
      <3>1. b.tokens - b.window \in Nat
        BY <1>1, <1>3
      <3>2. d \in Bucket
        BY <1>3, <3>1 DEF Bucket
      <3>3. d.tokens = b.tokens - b.window /\ d.window = b.window
        BY <1>3 DEF Bucket
      <3> QED BY <1>3, <3>1, <3>2, <3>3, LimiterAssumption DEF Bucket
    <2> HIDE DEF d, b
    <2>2. Whole(b) = b.tokens \div b.window /\ Whole(d) = (b.tokens - b.window) \div b.window
      BY <2>1 DEF Whole
    <2>3. /\ b.tokens \div b.window \in Nat /\ (b.tokens - b.window) \div b.window \in Nat
          /\ b.tokens \div b.window = (b.tokens - b.window) \div b.window + 1
          /\ b.tokens \div b.window <= b.requests
      <3>1. PICK t \in Nat, w \in Nat \ {0}, q \in Nat :
               t = b.tokens /\ w = b.window /\ q = b.requests /\ t - w \in Nat /\ w <= t /\ t <= q * w
        BY <1>1, <1>3, <2>1
      <3>2. t \div w \in Nat /\ (t - w) \div w \in Nat
        BY <3>1, WholeParts
      <3>3. t \div w = (t - w) \div w + 1 /\ t \div w <= q
        BY <3>1, WholePaid, WholeWithin
      <3> QED BY <3>1, <3>2, <3>3
    <2> QED BY <2>2, <2>3
  <1>5. buckets'[k] = d /\ \A j \in Keys : j # k => buckets'[j] = buckets[j]
    BY <1>1, <1>2 DEF AtomicInv, IInv, TypeOK
  <1>6. \A j \in Keys : /\ Whole(buckets[j]) \in Nat /\ Spent(r, n, j) \in Nat
                        /\ Level[j] = Whole(buckets[j]) + Spent(r, n, j)
                        /\ Level'[j] = Whole(buckets'[j]) + Spent(r, n + 1, j)
                        /\ Spent(r, n + 1, j) = IF j = k THEN Spent(r, n, j) + 1 ELSE Spent(r, n, j)
    <2>1. LevelsAre
      BY LevelsSeen
    <2>2. LevelsAre'
      BY LevelsSeen, PTL
    <2>3. \A j : /\ Spent(r, n, j) \in Nat
                 /\ Spent(r, n + 1, j) = IF j = k THEN Spent(r, n, j) + 1 ELSE Spent(r, n, j)
      <3> HIDE DEF k, n, r
      <3> QED BY <1>1, <1>2, SpentCounts
    <2> HIDE DEF k
    <2> QED BY <1>1, <2>1, <2>2, <2>3 DEF LevelsAre
  <1> HIDE DEF d
  <1>7. Level'[k] = Whole(b) + Spent(r, n, k) /\ \A j \in Keys : j # k => Level'[j] = Level[j]
    <2> HIDE DEF k, b, n, r
    <2> QED BY <1>2, <1>4, <1>5, <1>6
  <1>8. Whole(buckets[k]) <= Whole(b)
    <2>1. CASE buckets[k] = Nil
      BY <1>4, <2>1 DEF Whole
    <2>2. CASE buckets[k] # Nil
      <3>1. buckets[k].tokens \in Nat /\ buckets[k].tokens <= b.tokens
        BY <1>1, <2>2, TokensStay
      <3>2. b # Nil
        BY <1>3, LimiterAssumption DEF Bucket
      <3> HIDE DEF k, b
      <3>3. buckets[k].tokens \div b.window <= b.tokens \div b.window
        BY <1>3, <3>1, WholeGrows
      <3> QED BY <1>2, <2>2, <3>2, <3>3 DEF Whole
    <2> QED BY <2>1, <2>2
  <1>9. ASSUME Spent(r, n, k) # 0 PROVE Whole(b) = Whole(buckets[k])
    <2>1. PICK j \in 1 .. n - 1 : k \in Charged(j, r)
      <3>1. {j \in 1 .. n - 1 : k \in Charged(j, r)} # {}
        BY <1>9, FS_EmptySet DEF Spent
      <3> QED BY <3>1
    <2>2. buckets[k] # Nil /\ buckets[k].last = time[c]
      BY <1>1, <2>1 DEF AtomicInv, Recent
    <2>3. b.tokens = buckets[k].tokens
      BY <1>1, <2>2, TokensStay
    <2>4. b # Nil
      BY <1>3, LimiterAssumption DEF Bucket
    <2> QED BY <1>2, <2>2, <2>3, <2>4 DEF Whole
  <1>10. Atomic!Fits(k, Whole(b))
    <2>1. PICK i \in DOMAIN Limits, q \in Request : k \in Charged(i, q) /\ b.requests = Limits[i].requests
      <3>1. CASE buckets[k] = Nil
        <4>1. b.requests = Limits[n].requests
          BY <3>1 DEF BucketAt, Refilled, Fresh
        <4> QED BY <1>1, <1>2, <4>1
      <3>2. CASE buckets[k] # Nil
        BY <1>2, <3>2 DEF AtomicInv, Made
      <3> QED BY <3>1, <3>2
    <2>2. i \in 1 .. Len(Limits)
      BY <1>1
    <2> HIDE DEF k, b
    <2> QED BY <1>4, <2>1, <2>2 DEF Atomic!Fits
  <1> HIDE DEF k, b, r, n
  <1>11. ASSUME Level'[k] # Level[k] PROVE Level'[k] > Level[k] /\ Atomic!Fits(k, Level'[k])
    <2>1. Spent(r, n, k) = 0
      BY <1>2, <1>6, <1>7, <1>9, <1>11
    <2>2. Level'[k] = Whole(b) /\ Level[k] = Whole(buckets[k])
      BY <1>2, <1>4, <1>6, <1>7, <2>1
    <2> QED BY <1>2, <1>4, <1>6, <1>8, <1>10, <1>11, <2>2
  <1>12. DOMAIN Level' = Keys
    BY DEF Level
  <1> QED BY <1>1, <1>7, <1>11, <1>12 DEF Atomic!Replenish

\* Every Check of the limiter is one step, as TokenBuckets has it: for any
\* limits, handlers and clock, no check sees half of another.
THEOREM EveryCheckIsOneStep == Spec => ChecksAreAtomic
  <1>1. Init => Atomic!TokenInit
    <2> SUFFICES ASSUME Init PROVE Atomic!TokenInit
      OBVIOUS
    <2>1. Level = [k \in Keys |-> 0]
      <3>1. \A k : PaidSoFar(k) = {}
        BY DEF Init, PaidSoFar
      <3>2. ASSUME NEW k \in Keys PROVE Whole(buckets[k]) + Cardinality(PaidSoFar(k)) = 0
        <4>1. Whole(buckets[k]) = 0
          BY DEF Init, Whole
        <4>2. Cardinality(PaidSoFar(k)) = 0
          BY <3>1, FS_EmptySet
        <4> QED BY <4>1, <4>2
      <3> QED BY <3>2 DEF Level
    <2> QED BY <2>1 DEF Init, Atomic!TokenInit
  <1>2. AtomicInv /\ AtomicInv' /\ [Next]_vars => [Atomic!TokenNext]_(Atomic!tokenVars)
    <2> SUFFICES ASSUME AtomicInv, AtomicInv', [Next]_vars
                 PROVE  Atomic!TokenNext \/ UNCHANGED <<request, Level, answer>>
      BY DEF Atomic!tokenVars
    <2>1. CASE UNCHANGED vars \/ Tick \/ \E c \in Callers : Lock(c) \/ (Visit(c) /\ Skip(c))
      BY <2>1, UnseenStep
    <2>2. ASSUME NEW c \in Callers, NEW r \in Request, Call(c, r) PROVE Atomic!TokenNext
      BY <2>2, CallStep DEF Atomic!TokenNext
    <2>3. ASSUME NEW c \in Callers, Admit(c) PROVE Atomic!TokenNext
      BY <2>3, AdmitStep DEF Atomic!TokenNext
    <2>4. ASSUME NEW c \in Callers, Visit(c), Charge(c) PROVE Atomic!TokenNext
      BY <2>4, PayStep, ExceedStep DEF Charge, Atomic!TokenNext
    <2> QED BY <2>1, <2>2, <2>3, <2>4 DEF Next, Visit
  <1> QED BY <1>1, <1>2, AlwaysAtomic, PTL DEF Spec, ChecksAreAtomic, Atomic!TokenSpec
=============================================================================
