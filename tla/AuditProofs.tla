---------------------------- MODULE AuditProofs -----------------------------
(***************************************************************************)
(* For every channel and batch size, order of the emitters and number of   *)
(* records: the types, that the log is in order, that each record has one  *)
(* place and is lost only with a POST that failed, that batches are        *)
(* stretches of what was accepted, and that Close keeps everything.        *)
(***************************************************************************)
EXTENDS AuditPipeline, SequenceTheorems, FiniteSetTheorems, TLAPS

-----------------------------------------------------------------------------
(* The elements of a sequence, and sequences without repetition.           *)

Inj(s) == \A i, j \in DOMAIN s : s[i] = s[j] => i = j

LEMMA ElemsEmpty == Elems(<<>>) = {} /\ Inj(<<>>)
  BY DEF Elems, Inj

LEMMA ElemsOne == \A r : Elems(<<r>>) = {r} /\ Inj(<<r>>)
  BY DEF Elems, Inj

LEMMA ElemsConcat ==
    ASSUME NEW S, NEW s \in Seq(S), NEW t \in Seq(S)
    PROVE  Elems(s \o t) = Elems(s) \cup Elems(t)
  <1>1. /\ DOMAIN s = 1 .. Len(s) /\ DOMAIN t = 1 .. Len(t) /\ Len(s) \in Nat /\ Len(t) \in Nat
        /\ DOMAIN (s \o t) = 1 .. Len(s) + Len(t)
    BY ConcatProperties, LenProperties
  <1>2. ASSUME NEW i \in DOMAIN (s \o t) PROVE (s \o t)[i] \in Elems(s) \cup Elems(t)
    <2>1. CASE i <= Len(s)
      BY <1>1, <2>1, ConcatProperties DEF Elems
    <2>2. CASE ~ (i <= Len(s))
      <3>1. i - Len(s) \in DOMAIN t /\ (s \o t)[i] = t[i - Len(s)]
        BY <1>1, <2>2, ConcatProperties
      <3> QED
        BY <3>1 DEF Elems
    <2> QED
      BY <2>1, <2>2
  <1>3. ASSUME NEW i \in DOMAIN s PROVE s[i] \in Elems(s \o t)
    <2>1. i \in DOMAIN (s \o t) /\ (s \o t)[i] = s[i]
      BY <1>1, ConcatProperties
    <2> QED
      BY <2>1 DEF Elems
  <1>4. ASSUME NEW i \in DOMAIN t PROVE t[i] \in Elems(s \o t)
    <2>1. i + Len(s) \in DOMAIN (s \o t) /\ (s \o t)[i + Len(s)] = t[i]
      BY <1>1, ConcatProperties
    <2> QED
      BY <2>1 DEF Elems
  <1> QED
    BY <1>2, <1>3, <1>4 DEF Elems

LEMMA InjConcat ==
    ASSUME NEW S, NEW s \in Seq(S), NEW t \in Seq(S), Inj(s), Inj(t),
           Elems(s) \cap Elems(t) = {}
    PROVE  Inj(s \o t)
  <1>1. /\ DOMAIN s = 1 .. Len(s) /\ DOMAIN t = 1 .. Len(t) /\ Len(s) \in Nat /\ Len(t) \in Nat
        /\ DOMAIN (s \o t) = 1 .. Len(s) + Len(t)
    BY ConcatProperties, LenProperties
  <1>2. \A i \in DOMAIN (s \o t) : i <= Len(s) => i \in DOMAIN s /\ (s \o t)[i] = s[i]
    BY <1>1, ConcatProperties
  <1>3. \A i \in DOMAIN (s \o t) : ~ (i <= Len(s)) =>
            i - Len(s) \in DOMAIN t /\ (s \o t)[i] = t[i - Len(s)]
    BY <1>1, ConcatProperties
  <1>4. \A i \in DOMAIN s, j \in DOMAIN t : s[i] # t[j]
    BY DEF Elems
  <1> QED
    BY <1>1, <1>2, <1>3, <1>4 DEF Inj

LEMMA ElemsAppend ==
    ASSUME NEW S, NEW s \in Seq(S), NEW r \in S
    PROVE  Elems(Append(s, r)) = Elems(s) \cup {r}
  <1>1. PICK o \in Seq(S) : o = <<r>> /\ Elems(o) = {r} /\ Inj(o)
    <2>1. <<r>> \in Seq(S)
      OBVIOUS
    <2> QED
      BY <2>1, ElemsOne
  <1>2. Append(s, r) = s \o o
    BY <1>1, AppendIsConcat
  <1>3. Elems(s \o o) = Elems(s) \cup Elems(o)
    BY <1>1, ElemsConcat
  <1> QED
    BY <1>1, <1>2, <1>3

LEMMA InjAppend ==
    ASSUME NEW S, NEW s \in Seq(S), NEW r \in S, Inj(s), r \notin Elems(s)
    PROVE  Inj(Append(s, r))
  <1>1. PICK o \in Seq(S) : o = <<r>> /\ Elems(o) = {r} /\ Inj(o)
    <2>1. <<r>> \in Seq(S)
      OBVIOUS
    <2> QED
      BY <2>1, ElemsOne
  <1>2. Append(s, r) = s \o o
    BY <1>1, AppendIsConcat
  <1>3. Elems(s) \cap Elems(o) = {}
    BY <1>1
  <1> QED
    BY <1>1, <1>2, <1>3, InjConcat

LEMMA HeadAndTail ==
    ASSUME NEW S, NEW s \in Seq(S), s # <<>>
    PROVE  /\ <<Head(s)>> \in Seq(S) /\ Tail(s) \in Seq(S) /\ s = <<Head(s)>> \o Tail(s)
           /\ Elems(s) = {Head(s)} \cup Elems(Tail(s))
           /\ Inj(s) => Inj(Tail(s)) /\ Head(s) \notin Elems(Tail(s))
  <1>1. /\ Head(s) \in S /\ Tail(s) \in Seq(S) /\ Len(Tail(s)) = Len(s) - 1
        /\ \A i \in 1 .. Len(Tail(s)) : Tail(s)[i] = s[i + 1]
    BY HeadTailProperties
  <1>2. DOMAIN s = 1 .. Len(s) /\ Len(s) \in Nat \ {0} /\ DOMAIN Tail(s) = 1 .. Len(s) - 1
        /\ Head(s) = s[1]
    BY <1>1, LenProperties, EmptySeq
  <1>3. <<Head(s)>> \in Seq(S) /\ Len(<<Head(s)>>) = 1 /\ <<Head(s)>>[1] = Head(s)
    BY <1>1
  <1>4. s = <<Head(s)>> \o Tail(s)
    <2>1. /\ <<Head(s)>> \o Tail(s) \in Seq(S) /\ Len(<<Head(s)>> \o Tail(s)) = Len(s)
          /\ \A i \in 1 .. Len(s) : (<<Head(s)>> \o Tail(s))[i] =
                 IF i <= 1 THEN <<Head(s)>>[i] ELSE Tail(s)[i - 1]
      BY <1>1, <1>2, <1>3, ConcatProperties
    <2>2. \A i \in 1 .. Len(s) : (<<Head(s)>> \o Tail(s))[i] = s[i]
      BY <1>1, <1>2, <1>3, <2>1
    <2> QED
      BY <2>1, <2>2, SeqEqual
  <1>5. Elems(s) = {Head(s)} \cup Elems(Tail(s))
    <2>1. PICK o \in Seq(S) : o = <<Head(s)>> /\ Elems(o) = {Head(s)}
      BY <1>3, ElemsOne
    <2>2. Elems(o \o Tail(s)) = Elems(o) \cup Elems(Tail(s))
      BY <1>1, <2>1, ElemsConcat
    <2> QED
      BY <1>4, <2>1, <2>2
  <1>6. ASSUME Inj(s) PROVE Inj(Tail(s)) /\ Head(s) \notin Elems(Tail(s))
    BY <1>1, <1>2, <1>6 DEF Inj, Elems
  <1> QED
    BY <1>1, <1>3, <1>4, <1>5, <1>6

\* Without repetition there are as many elements as positions.
LEMMA InjCounts ==
    ASSUME NEW S, NEW s \in Seq(S), Inj(s)
    PROVE  Cardinality(Elems(s)) = Len(s)
  <1>1. Len(s) \in Nat /\ DOMAIN s = 1 .. Len(s) /\ s \in [1 .. Len(s) -> S]
    BY LenProperties
  <1>2. s \in [1 .. Len(s) -> Elems(s)]
    BY <1>1 DEF Elems
  <1>3. s \in Bijection(1 .. Len(s), Elems(s))
    BY <1>1, <1>2 DEF Bijection, Injection, Surjection, IsInjective, Inj, Elems
  <1>4. ExistsBijection(1 .. Len(s), Elems(s))
    BY <1>3 DEF ExistsBijection
  <1> QED
    BY <1>1, <1>4, FS_CountingElements, FS_NatSurjection, FS_Bijection, FS_Interval

-----------------------------------------------------------------------------
(* Families of places: what is in them, and that nothing is in two or is   *)
(* among what was lost.                                                    *)

All(P) == UNION {Elems(P[i]) : i \in DOMAIN P}
Apart(P, lost) ==
    /\ \A i, j \in DOMAIN P : i # j => Elems(P[i]) \cap Elems(P[j]) = {}
    /\ \A i \in DOMAIN P : Inj(P[i]) /\ Elems(P[i]) \cap lost = {}

\* Two places exchange what is in them.
LEMMA Exchanged ==
    ASSUME NEW P, NEW Q, NEW lost, NEW a \in DOMAIN P, NEW b \in DOMAIN P, a # b,
           Apart(P, lost), DOMAIN Q = DOMAIN P,
           \A i \in DOMAIN P \ {a, b} : Q[i] = P[i],
           Elems(Q[a]) \cup Elems(Q[b]) = Elems(P[a]) \cup Elems(P[b]),
           Elems(Q[a]) \cap Elems(Q[b]) = {}, Inj(Q[a]), Inj(Q[b])
    PROVE  Apart(Q, lost) /\ All(Q) = All(P)
  <1>1. \A i \in DOMAIN P \ {a, b} : /\ Elems(P[i]) \cap Elems(P[a]) = {}
                                      /\ Elems(P[i]) \cap Elems(P[b]) = {}
    BY DEF Apart
  <1>2. \A i \in DOMAIN P \ {a, b} : /\ Elems(Q[i]) \cap Elems(Q[a]) = {}
                                      /\ Elems(Q[i]) \cap Elems(Q[b]) = {}
    BY <1>1
  <1>3. \A i, j \in DOMAIN Q : i # j => Elems(Q[i]) \cap Elems(Q[j]) = {}
    <2> SUFFICES ASSUME NEW i \in DOMAIN P, NEW j \in DOMAIN P, i # j
                 PROVE  Elems(Q[i]) \cap Elems(Q[j]) = {}
      OBVIOUS
    <2>1. CASE i \in {a, b} /\ j \in {a, b}
      BY <2>1
    <2>2. CASE i \notin {a, b} /\ j \in {a, b}
      BY <1>2, <2>2
    <2>3. CASE i \in {a, b} /\ j \notin {a, b}
      BY <1>2, <2>3
    <2>4. CASE i \notin {a, b} /\ j \notin {a, b}
      BY <2>4 DEF Apart
    <2> QED
      BY <2>1, <2>2, <2>3, <2>4
  <1>4. ASSUME NEW i \in DOMAIN Q PROVE Inj(Q[i]) /\ Elems(Q[i]) \cap lost = {}
    BY DEF Apart
  <1>5. All(Q) = All(P)
    BY DEF All
  <1> QED
    BY <1>3, <1>4, <1>5 DEF Apart

\* What was in one place goes to a new one.
LEMMA Sent ==
    ASSUME NEW P, NEW Q, NEW lost, NEW a \in DOMAIN P, NEW b, b \notin DOMAIN P,
           Apart(P, lost), DOMAIN Q = DOMAIN P \cup {b},
           \A i \in DOMAIN P \ {a} : Q[i] = P[i], Q[a] = <<>>, Q[b] = P[a]
    PROVE  Apart(Q, lost) /\ All(Q) = All(P)
  <1>1. Elems(Q[a]) = {} /\ Inj(Q[a])
    BY ElemsEmpty
  <1>2. \A i, j \in DOMAIN Q : i # j => Elems(Q[i]) \cap Elems(Q[j]) = {}
    <2> SUFFICES ASSUME NEW i \in DOMAIN Q, NEW j \in DOMAIN Q, i # j
                 PROVE  Elems(Q[i]) \cap Elems(Q[j]) = {}
      OBVIOUS
    <2>1. CASE i = a \/ j = a
      BY <1>1, <2>1
    <2>2. CASE i = b /\ j # a
      BY <2>2 DEF Apart
    <2>3. CASE j = b /\ i # a
      BY <2>3 DEF Apart
    <2>4. CASE i \notin {a, b} /\ j \notin {a, b}
      BY <2>4 DEF Apart
    <2> QED
      BY <2>1, <2>2, <2>3, <2>4
  <1>3. ASSUME NEW i \in DOMAIN Q PROVE Inj(Q[i]) /\ Elems(Q[i]) \cap lost = {}
    BY <1>1 DEF Apart
  <1>4. All(Q) = All(P)
    BY <1>1 DEF All
  <1> QED
    BY <1>2, <1>3, <1>4 DEF Apart

\* What was in one place is lost.
LEMMA Lost ==
    ASSUME NEW P, NEW Q, NEW lost, NEW a \in DOMAIN P,
           Apart(P, lost), DOMAIN Q = DOMAIN P,
           \A i \in DOMAIN P \ {a} : Q[i] = P[i], Q[a] = <<>>
    PROVE  /\ Apart(Q, lost \cup Elems(P[a]))
           /\ (lost \cup Elems(P[a])) \cup All(Q) = lost \cup All(P)
  <1>1. Elems(Q[a]) = {} /\ Inj(Q[a])
    BY ElemsEmpty
  <1>2. \A i, j \in DOMAIN Q : i # j => Elems(Q[i]) \cap Elems(Q[j]) = {}
    BY <1>1 DEF Apart
  <1>3. ASSUME NEW i \in DOMAIN Q
        PROVE  Inj(Q[i]) /\ Elems(Q[i]) \cap (lost \cup Elems(P[a])) = {}
    <2>1. CASE i = a
      BY <1>1, <2>1
    <2>2. CASE i # a
      BY <2>2 DEF Apart
    <2> QED
      BY <2>1, <2>2
  <1>4. All(P) = All(Q) \cup Elems(P[a])
    BY <1>1 DEF All
  <1> QED
    BY <1>2, <1>3, <1>4 DEF Apart

\* A new record comes to one place.
LEMMA Entered ==
    ASSUME NEW P, NEW Q, NEW lost, NEW a \in DOMAIN P, NEW r,
           Apart(P, lost), DOMAIN Q = DOMAIN P,
           \A i \in DOMAIN P \ {a} : Q[i] = P[i],
           Elems(Q[a]) = Elems(P[a]) \cup {r}, Inj(Q[a]), r \notin All(P), r \notin lost
    PROVE  Apart(Q, lost) /\ All(Q) = All(P) \cup {r}
  <1>1. \A i \in DOMAIN P : r \notin Elems(P[i])
    BY DEF All
  <1>2. \A i, j \in DOMAIN Q : i # j => Elems(Q[i]) \cap Elems(Q[j]) = {}
    BY <1>1 DEF Apart
  <1>3. ASSUME NEW i \in DOMAIN Q PROVE Inj(Q[i]) /\ Elems(Q[i]) \cap lost = {}
    BY DEF Apart
  <1>4. All(Q) = All(P) \cup {r}
    BY DEF All
  <1> QED
    BY <1>2, <1>3, <1>4 DEF Apart

-----------------------------------------------------------------------------
(* The places of a state.                                                  *)

Slot(f) == IF f = "consumer" THEN 4 ELSE IF f = "ticker" THEN 5 ELSE 6

LEMMA AheadIsOne == TypeOK => \A kind : Ahead(kind) \in Seq(Records)
  <1>1. <<>> \in Seq(Records)
    BY EmptySeq
  <1> QED
    BY <1>1 DEF TypeOK, Ahead

PlacesFacts ==
    /\ DOMAIN Places = 1 .. 6 + Len(posted) /\ Len(posted) \in Nat
    /\ Places[1] = Ahead("webhook") /\ Places[2] = queue /\ Places[3] = batch
    /\ \A f \in Flushers : Places[Slot(f)] = inflight[f]
    /\ \A i \in 1 .. Len(posted) : Places[6 + i] = posted[i]
    /\ Places \in Seq(Seq(Records))

LEMMA PlacesAre == TypeOK => PlacesFacts
  <1> SUFFICES ASSUME TypeOK PROVE PlacesFacts
    OBVIOUS
  <1>1. PICK a \in Seq(Records) : a = Ahead("webhook")
    BY AheadIsOne
  <1>2. PICK c \in Seq(Records), t \in Seq(Records), m \in Seq(Records) :
            c = inflight["consumer"] /\ t = inflight["ticker"] /\ m = inflight["main"]
    BY DEF TypeOK, Flushers
  <1>3. queue \in Seq(Records) /\ batch \in Seq(Records) /\ posted \in Seq(Seq(Records))
    BY DEF TypeOK
  <1>4. PICK six \in Seq(Seq(Records)) :
            /\ six = <<a, queue, batch, c, t, m>> /\ Len(six) = 6
            /\ six[1] = a /\ six[2] = queue /\ six[3] = batch
            /\ six[4] = c /\ six[5] = t /\ six[6] = m
    <2>1. \A S : \A x1, x2, x3, x4, x5, x6 \in S : <<x1, x2, x3, x4, x5, x6>> \in Seq(S)
      OBVIOUS
    <2>2. <<a, queue, batch, c, t, m>> \in Seq(Seq(Records))
      BY <1>3, <2>1
    <2>3. \A x1, x2, x3, x4, x5, x6 :
              LET x == <<x1, x2, x3, x4, x5, x6>>
              IN  Len(x) = 6 /\ x[1] = x1 /\ x[2] = x2 /\ x[3] = x3
                  /\ x[4] = x4 /\ x[5] = x5 /\ x[6] = x6
      OBVIOUS
    <2> QED
      BY <2>2, <2>3
  <1>5. Places = six \o posted
    BY <1>1, <1>2, <1>4 DEF Places
  <1>6. /\ six \o posted \in Seq(Seq(Records)) /\ Len(six \o posted) = 6 + Len(posted)
        /\ \A i \in 1 .. 6 + Len(posted) :
               (six \o posted)[i] = IF i <= 6 THEN six[i] ELSE posted[i - 6]
    BY <1>3, <1>4, ConcatProperties
  <1>7. Len(posted) \in Nat
    BY <1>3, LenProperties
  <1>8. DOMAIN Places = 1 .. 6 + Len(posted)
    BY <1>5, <1>6, LenProperties
  <1>9. \A i \in 1 .. 6 : Places[i] = six[i]
    BY <1>5, <1>6, <1>7
  <1>10. \A i \in 1 .. Len(posted) : Places[6 + i] = posted[i]
    BY <1>5, <1>6, <1>7
  <1>11. \A f \in Flushers : Places[Slot(f)] = inflight[f]
    BY <1>2, <1>4, <1>9 DEF Flushers, Slot
  <1>12. Places[1] = Ahead("webhook") /\ Places[2] = queue /\ Places[3] = batch
    BY <1>1, <1>4, <1>9
  <1>13. Places \in Seq(Seq(Records))
    BY <1>5, <1>6
  <1> QED
    BY <1>7, <1>8, <1>10, <1>11, <1>12, <1>13 DEF PlacesFacts

-----------------------------------------------------------------------------
(* What each goroutine holds at each of its stages.                        *)

Stages ==
    /\ consumer \in {"ranging", "done"} => current = <<>>
    /\ consumer \notin {"ranging", "done"} =>
          at \in DOMAIN Outputs /\ \E r \in Records : current = <<r>>
    /\ consumer \in {"flushing", "posting"} => Outputs[at] = "webhook"
    /\ consumer # "flushing" => Len(batch) < MaxBatch
    /\ consumer # "posting" => inflight["consumer"] = <<>>
    /\ ticker # "posting" => inflight["ticker"] = <<>>
    /\ main \notin {"flushing", "lasting"} => inflight["main"] = <<>>
    /\ consumer = "done" => queue = <<>> /\ main # "running"
    /\ main \in {"flush", "flushing", "last", "lasting", "exited"} => consumer = "done"
    /\ main \in {"lasting", "exited"} /\ Webhook => batch = <<>>
Shape == TypeOK /\ Stages

LEMMA ElemsAreRecords == \A s \in Seq(Records) : Elems(s) \subseteq Records
  BY ElementOfSeq, LenProperties DEF Elems

LEMMA OutputsAre ==
    /\ DOMAIN Outputs = 1 .. Len(Outputs) /\ Len(Outputs) \in Nat \ {0}
    /\ \A i \in DOMAIN Outputs : Outputs[i] \in Kinds
    /\ \A i \in DOMAIN Outputs : Outputs[i] = "webhook" => Webhook
    /\ \A i, j \in DOMAIN Outputs : Outputs[i] = Outputs[j] => i = j
  BY PipelineAssumption, LenProperties, ElementOfSeq DEF Webhook, Elems

\* The consumer goes on to the next emitter, or to the next record.
LEMMA NextOutputShape ==
    ASSUME Shape, NextOutput, at \in DOMAIN Outputs, \E r \in Records : current = <<r>>
    PROVE  /\ consumer' \in {"ranging", "emitting"}
           /\ current' \in Seq(Records) /\ at' \in 0 .. Len(Outputs)
           /\ consumer' = "ranging" => current' = <<>>
           /\ consumer' = "emitting" => /\ at' \in DOMAIN Outputs
                                        /\ \E r \in Records : current' = <<r>>
  <1>1. CASE at = Len(Outputs)
    BY <1>1, OutputsAre, EmptySeq DEF NextOutput
  <1>2. CASE at # Len(Outputs)
    <2>1. consumer' = "emitting" /\ at' = at + 1 /\ current' = current
      BY <1>2 DEF NextOutput
    <2>2. at \in 1 .. Len(Outputs) /\ Len(Outputs) \in Nat
      BY OutputsAre
    <2>3. at + 1 \in 1 .. Len(Outputs)
      BY <1>2, <2>2
    <2>4. at' \in 0 .. Len(Outputs) /\ at' \in DOMAIN Outputs
      BY <2>1, <2>2, <2>3, OutputsAre
    <2>5. current' \in Seq(Records) /\ \E r \in Records : current' = <<r>>
      BY <2>1 DEF Shape, TypeOK
    <2> QED
      BY <2>1, <2>4, <2>5
  <1> QED
    BY <1>1, <1>2

LEMMA ShapeInit == Init => Shape
  <1> SUFFICES ASSUME Init PROVE Shape
    OBVIOUS
  <1>1. \A S : <<>> \in Seq(S) /\ Len(<<>>) = 0
    BY EmptySeq
  <1>2. TypeOK
    <2>1. inflight \in [Flushers -> Seq(Records)]
      BY <1>1 DEF Init
    <2>2. 0 \in 0 .. Len(Outputs)
      BY OutputsAre
    <2>3. Len(queue) <= Cap /\ Len(batch) <= MaxBatch
      BY <1>1, PipelineAssumption DEF Init
    <2> QED
      BY <1>1, <2>1, <2>2, <2>3 DEF Init, TypeOK
  <1>3. Stages
    <2>1. Len(batch) < MaxBatch
      BY <1>1, PipelineAssumption DEF Init
    <2> QED
      BY <2>1 DEF Init, Stages, Flushers
  <1> QED
    BY <1>2, <1>3 DEF Shape

\* What a goroutine takes or posts has its type.
LEMMA TakeTypes ==
    ASSUME Shape, NEW f \in Flushers, Take(f)
    PROVE  /\ inflight' \in [Flushers -> Seq(Records)] /\ batch' = <<>>
           /\ batch' \in Seq(Records) /\ Len(batch') = 0 /\ Len(batch') < MaxBatch
           /\ \A g \in Flushers \ {f} : inflight'[g] = inflight[g]
           /\ inflight'[f] = batch
  BY EmptySeq, PipelineAssumption DEF Take, Shape, TypeOK

LEMMA PostTypes ==
    ASSUME Shape, NEW f \in Flushers, Post(f)
    PROVE  /\ inflight' \in [Flushers -> Seq(Records)]
           /\ posted' \in Seq(Seq(Records)) /\ failed' \subseteq Records
           /\ inflight'[f] = <<>> /\ \A g \in Flushers \ {f} : inflight'[g] = inflight[g]
  <1>1. inflight[f] \in Seq(Records) /\ Elems(inflight[f]) \subseteq Records
    BY ElemsAreRecords DEF Shape, TypeOK
  <1>2. \A S : \A b \in S, s \in Seq(S) : Append(s, b) \in Seq(S)
    BY AppendProperties
  <1>3. <<>> \in Seq(Records)
    BY EmptySeq
  <1>4. posted' \in Seq(Seq(Records)) /\ failed' \subseteq Records
    BY <1>1, <1>2 DEF Post, Shape, TypeOK
  <1> QED
    BY <1>3, <1>4 DEF Post, Shape, TypeOK

LEMMA EmitShape == Shape /\ (\E r \in Records : Emit(r)) => Shape'
  <1> SUFFICES ASSUME Shape, NEW r \in Records, Emit(r) PROVE Shape'
    OBVIOUS
  <1>1. /\ queue' \in Seq(Records) /\ Len(queue') <= Cap /\ accepted' \in Seq(Records)
        /\ ~ Open => queue' = queue
    <2>1. /\ Append(queue, r) \in Seq(Records) /\ Append(accepted, r) \in Seq(Records)
          /\ Len(Append(queue, r)) = Len(queue) + 1 /\ Len(queue) \in Nat
      BY AppendProperties, LenProperties DEF Shape, TypeOK
    <2>2. /\ queue \in Seq(Records) /\ accepted \in Seq(Records) /\ Len(queue) <= Cap
          /\ Len(queue) < Cap => Len(Append(queue, r)) <= Cap
      BY <2>1, PipelineAssumption DEF Shape, TypeOK
    <2>3. CASE Open /\ Len(queue) < Cap
      BY <2>1, <2>2, <2>3 DEF Emit
    <2>4. CASE ~ (Open /\ Len(queue) < Cap)
      BY <2>2, <2>4 DEF Emit
    <2> QED
      BY <2>3, <2>4
  <1>2. held' \subseteq Records /\ refused' \subseteq Records
    BY DEF Emit, Shape, TypeOK
  <1>3. UNCHANGED <<consumer, current, at, file, batch, inflight, posted, failed, ticker, main>>
    BY DEF Emit, run, emitters
  <1>4. TypeOK'
    BY <1>1, <1>2, <1>3 DEF Shape, TypeOK
  <1>5. Stages'
    BY <1>1, <1>3 DEF Shape, Stages, Open, Webhook
  <1> QED
    BY <1>4, <1>5 DEF Shape

LEMMA DequeueShape == Shape /\ Dequeue => Shape'
  <1> SUFFICES ASSUME Shape, Dequeue PROVE Shape'
    OBVIOUS
  <1>1. /\ UNCHANGED <<held, accepted, refused, file, batch, inflight, posted, failed, ticker, main>>
        /\ queue # <<>> /\ queue' = Tail(queue) /\ current' = <<Head(queue)>>
        /\ consumer = "ranging" /\ consumer' = "emitting" /\ at' = 1
    BY DEF Dequeue, emitters
  <1>2. /\ Head(queue) \in Records /\ Tail(queue) \in Seq(Records)
        /\ Len(Tail(queue)) <= Cap
    BY <1>1, HeadTailProperties, LenProperties, PipelineAssumption DEF Shape, TypeOK
  <1>3. <<Head(queue)>> \in Seq(Records) /\ 1 \in DOMAIN Outputs /\ 1 \in 0 .. Len(Outputs)
    BY <1>2, OutputsAre
  <1>4. TypeOK'
    BY <1>1, <1>2, <1>3 DEF Shape, TypeOK
  <1>5. Stages'
    BY <1>1, <1>2, <1>3 DEF Shape, Stages, Webhook
  <1> QED
    BY <1>4, <1>5 DEF Shape

LEMMA WriteLineShape == Shape /\ WriteLine => Shape'
  <1> SUFFICES ASSUME Shape, WriteLine PROVE Shape'
    OBVIOUS
  <1>1. /\ UNCHANGED <<held, accepted, refused, queue, batch, inflight, posted, failed, ticker, main>>
        /\ consumer = "emitting" /\ file' = file \o current /\ NextOutput
    BY DEF WriteLine
  <1>2. file \o current \in Seq(Records)
    BY ConcatProperties DEF Shape, TypeOK
  <1>3. at \in DOMAIN Outputs /\ \E r \in Records : current = <<r>>
    BY <1>1 DEF Shape, Stages
  <1>4. TypeOK'
    BY <1>1, <1>2, <1>3, NextOutputShape DEF Shape, TypeOK
  <1>5. Stages'
    BY <1>1, <1>3, NextOutputShape DEF Shape, Stages, Webhook
  <1> QED
    BY <1>4, <1>5 DEF Shape

LEMMA AddToBatchShape == Shape /\ AddToBatch => Shape'
  <1> SUFFICES ASSUME Shape, AddToBatch PROVE Shape'
    OBVIOUS
  <1>1. /\ UNCHANGED <<held, accepted, refused, queue, file, inflight, posted, failed, ticker, main>>
        /\ consumer = "emitting" /\ batch' = batch \o current /\ Outputs[at] = "webhook"
        /\ IF Len(batch) + 1 >= MaxBatch
           THEN consumer' = "flushing" /\ UNCHANGED <<current, at>> ELSE NextOutput
    BY DEF AddToBatch
  <1>2. at \in DOMAIN Outputs /\ \E r \in Records : current = <<r>>
    BY <1>1 DEF Shape, Stages
  <1>3. Len(current) = 1
    BY <1>2
  <1>4. /\ batch \o current \in Seq(Records) /\ Len(batch \o current) = Len(batch) + 1
        /\ Len(batch) \in Nat /\ Len(batch) < MaxBatch
    <2>1. batch \in Seq(Records) /\ current \in Seq(Records) /\ Len(batch) < MaxBatch
      BY <1>1 DEF Shape, TypeOK, Stages
    <2>2. /\ batch \o current \in Seq(Records)
          /\ Len(batch \o current) = Len(batch) + Len(current) /\ Len(batch) \in Nat
      BY <2>1, ConcatProperties, LenProperties
    <2> QED
      BY <1>3, <2>1, <2>2
  <1>5. Len(batch') <= MaxBatch /\ (Len(batch) + 1 < MaxBatch => Len(batch') < MaxBatch)
    BY <1>1, <1>4, PipelineAssumption
  <1>6. CASE Len(batch) + 1 >= MaxBatch
    <2>1. consumer' = "flushing" /\ UNCHANGED <<current, at>>
      BY <1>1, <1>6
    <2>2. TypeOK'
      BY <1>1, <1>4, <1>5, <2>1 DEF Shape, TypeOK
    <2>3. Stages'
      BY <1>1, <1>2, <2>1 DEF Shape, Stages, Webhook
    <2> QED
      BY <2>2, <2>3 DEF Shape
  <1>7. CASE ~ (Len(batch) + 1 >= MaxBatch)
    <2>1. NextOutput /\ Len(batch') < MaxBatch
      BY <1>1, <1>4, <1>5, <1>7, PipelineAssumption
    <2>2. TypeOK'
      BY <1>1, <1>2, <1>4, <1>5, <2>1, NextOutputShape DEF Shape, TypeOK
    <2>3. Stages'
      BY <1>1, <1>2, <2>1, NextOutputShape DEF Shape, Stages, Webhook
    <2> QED
      BY <2>2, <2>3 DEF Shape
  <1> QED
    BY <1>6, <1>7

LEMMA ConsumerTakesShape == Shape /\ ConsumerTakes => Shape'
  <1> SUFFICES ASSUME Shape, ConsumerTakes PROVE Shape'
    OBVIOUS
  <1>1. /\ UNCHANGED <<held, accepted, refused, queue, file, posted, failed, ticker, main>>
        /\ consumer = "flushing"
    BY DEF ConsumerTakes
  <1>2. at \in DOMAIN Outputs /\ (\E r \in Records : current = <<r>>) /\ Outputs[at] = "webhook"
    BY <1>1 DEF Shape, Stages
  <1>3. CASE batch = <<>>
    <2>1. NextOutput /\ UNCHANGED <<batch, inflight>>
      BY <1>3 DEF ConsumerTakes
    <2>2. Len(batch') < MaxBatch
      BY <1>3, <2>1, EmptySeq, PipelineAssumption
    <2>3. TypeOK'
      BY <1>1, <1>2, <2>1, NextOutputShape DEF Shape, TypeOK
    <2>4. Stages'
      BY <1>1, <1>2, <2>1, <2>2, NextOutputShape DEF Shape, Stages, Webhook
    <2> QED
      BY <2>3, <2>4 DEF Shape
  <1>4. CASE batch # <<>>
    <2>1. Take("consumer") /\ consumer' = "posting" /\ UNCHANGED <<current, at>>
      BY <1>4 DEF ConsumerTakes
    <2>2. /\ inflight' \in [Flushers -> Seq(Records)] /\ batch' = <<>>
          /\ batch' \in Seq(Records) /\ Len(batch') <= MaxBatch /\ Len(batch') < MaxBatch
          /\ inflight'["ticker"] = inflight["ticker"] /\ inflight'["main"] = inflight["main"]
      BY <2>1, TakeTypes, PipelineAssumption DEF Flushers
    <2>3. TypeOK'
      BY <1>1, <2>1, <2>2 DEF Shape, TypeOK
    <2>4. Stages'
      BY <1>1, <1>2, <2>1, <2>2 DEF Shape, Stages, Webhook
    <2> QED
      BY <2>3, <2>4 DEF Shape
  <1> QED
    BY <1>3, <1>4

LEMMA ConsumerPostsShape == Shape /\ ConsumerPosts => Shape'
  <1> SUFFICES ASSUME Shape, ConsumerPosts PROVE Shape'
    OBVIOUS
  <1>1. /\ UNCHANGED <<held, accepted, refused, queue, file, batch, ticker, main>>
        /\ consumer = "posting" /\ Post("consumer") /\ NextOutput
    BY DEF ConsumerPosts
  <1>2. at \in DOMAIN Outputs /\ \E r \in Records : current = <<r>>
    BY <1>1 DEF Shape, Stages
  <1>3. /\ inflight' \in [Flushers -> Seq(Records)]
        /\ posted' \in Seq(Seq(Records)) /\ failed' \subseteq Records
        /\ inflight'["consumer"] = <<>>
        /\ inflight'["ticker"] = inflight["ticker"] /\ inflight'["main"] = inflight["main"]
    BY <1>1, PostTypes DEF Flushers
  <1>4. TypeOK'
    BY <1>1, <1>2, <1>3, NextOutputShape DEF Shape, TypeOK
  <1>5. Stages'
    BY <1>1, <1>2, <1>3, NextOutputShape DEF Shape, Stages, Webhook
  <1> QED
    BY <1>4, <1>5 DEF Shape

LEMMA TickerShape == Shape /\ Tick => Shape'
  <1> SUFFICES ASSUME Shape, Tick PROVE Shape'
    OBVIOUS
  <1>1. CASE TickerTakes
    <2>1. /\ UNCHANGED <<held, accepted, refused, queue, consumer, current, at, file,
                         posted, failed, main>>
          /\ Take("ticker") /\ ticker' = "posting"
      BY <1>1 DEF TickerTakes, run
    <2>2. /\ inflight' \in [Flushers -> Seq(Records)] /\ batch' = <<>>
          /\ batch' \in Seq(Records) /\ Len(batch') <= MaxBatch /\ Len(batch') < MaxBatch
          /\ inflight'["consumer"] = inflight["consumer"] /\ inflight'["main"] = inflight["main"]
      BY <2>1, TakeTypes, PipelineAssumption DEF Flushers
    <2>3. TypeOK'
      BY <2>1, <2>2 DEF Shape, TypeOK
    <2>4. Stages'
      BY <2>1, <2>2 DEF Shape, Stages, Webhook
    <2> QED
      BY <2>3, <2>4 DEF Shape
  <1>2. CASE TickerPosts
    <2>1. /\ UNCHANGED <<held, accepted, refused, queue, consumer, current, at, file, batch, main>>
          /\ Post("ticker") /\ ticker' = "looping"
      BY <1>2 DEF TickerPosts, run
    <2>2. /\ inflight' \in [Flushers -> Seq(Records)]
          /\ posted' \in Seq(Seq(Records)) /\ failed' \subseteq Records
          /\ inflight'["ticker"] = <<>>
          /\ inflight'["consumer"] = inflight["consumer"] /\ inflight'["main"] = inflight["main"]
      BY <2>1, PostTypes DEF Flushers
    <2>3. TypeOK'
      BY <2>1, <2>2 DEF Shape, TypeOK
    <2>4. Stages'
      BY <2>1, <2>2 DEF Shape, Stages, Webhook
    <2> QED
      BY <2>3, <2>4 DEF Shape
  <1>3. CASE TickerEnds
    <2>1. /\ UNCHANGED <<held, accepted, refused, queue, consumer, current, at, file, batch,
                         inflight, posted, failed, main>>
          /\ ticker = "looping" /\ ticker' = "ended"
      BY <1>3 DEF TickerEnds, run, emitters
    <2>2. TypeOK'
      BY <2>1 DEF Shape, TypeOK
    <2>3. Stages'
      BY <2>1 DEF Shape, Stages, Webhook
    <2> QED
      BY <2>2, <2>3 DEF Shape
  <1> QED
    BY <1>1, <1>2, <1>3 DEF Tick

\* One of main's two flushes.
LEMMA MainTakesShape ==
    ASSUME Shape, NEW from, NEW posting, NEW next, MainTakes(from, posting, next),
           <<from, posting, next>> \in {<<"flush", "flushing", "last">>,
                                        <<"last", "lasting", "exited">>}
    PROVE  Shape'
  <1>1. /\ UNCHANGED <<held, accepted, refused, queue, consumer, current, at, file,
                       posted, failed, ticker>>
        /\ main = from
    BY DEF MainTakes, run
  <1>2. /\ from \in {"flush", "last"} /\ posting \in {"flushing", "lasting"}
        /\ next \in {"last", "exited"} /\ consumer = "done"
    BY <1>1 DEF Shape, Stages
  <1>3. CASE batch = <<>>
    <2>1. main' = next /\ UNCHANGED <<batch, inflight>>
      BY <1>3 DEF MainTakes
    <2>2. TypeOK'
      BY <1>1, <1>2, <2>1 DEF Shape, TypeOK
    <2>3. Stages'
      BY <1>1, <1>2, <1>3, <2>1 DEF Shape, Stages, Webhook
    <2> QED
      BY <2>2, <2>3 DEF Shape
  <1>4. CASE batch # <<>>
    <2>1. main' = posting /\ Take("main")
      BY <1>4 DEF MainTakes
    <2>2. /\ inflight' \in [Flushers -> Seq(Records)] /\ batch' = <<>>
          /\ batch' \in Seq(Records) /\ Len(batch') <= MaxBatch /\ Len(batch') < MaxBatch
          /\ inflight'["consumer"] = inflight["consumer"]
          /\ inflight'["ticker"] = inflight["ticker"]
      BY <2>1, TakeTypes, PipelineAssumption DEF Flushers
    <2>3. TypeOK'
      BY <1>1, <1>2, <2>1, <2>2 DEF Shape, TypeOK
    <2>4. Stages'
      BY <1>1, <1>2, <2>1, <2>2 DEF Shape, Stages, Webhook
    <2> QED
      BY <2>3, <2>4 DEF Shape
  <1> QED
    BY <1>3, <1>4

LEMMA MainPostsShape ==
    ASSUME Shape, NEW posting, NEW next, MainPosts(posting, next),
           <<posting, next>> \in {<<"flushing", "last">>, <<"lasting", "exited">>}
    PROVE  Shape'
  <1>1. /\ UNCHANGED <<held, accepted, refused, queue, consumer, current, at, file, batch, ticker>>
        /\ main = posting /\ main' = next /\ Post("main")
    BY DEF MainPosts, run
  <1>2. /\ next \in {"last", "exited"} /\ consumer = "done"
        /\ next = "exited" => main = "lasting"
    BY <1>1 DEF Shape, Stages
  <1>3. /\ inflight' \in [Flushers -> Seq(Records)]
        /\ posted' \in Seq(Seq(Records)) /\ failed' \subseteq Records
        /\ inflight'["main"] = <<>>
        /\ inflight'["consumer"] = inflight["consumer"]
        /\ inflight'["ticker"] = inflight["ticker"]
    BY <1>1, PostTypes DEF Flushers
  <1>4. TypeOK'
    BY <1>1, <1>2, <1>3 DEF Shape, TypeOK
  <1>5. Stages'
    BY <1>1, <1>2, <1>3 DEF Shape, Stages, Webhook
  <1> QED
    BY <1>4, <1>5 DEF Shape

LEMMA ShapeStep == Shape /\ [Next]_vars => Shape'
  <1> SUFFICES ASSUME Shape, [Next]_vars PROVE Shape'
    OBVIOUS
  <1>1. ASSUME UNCHANGED <<held, accepted, refused, queue, consumer, current, at, file,
                           batch, inflight, posted, failed, ticker>>,
               \/ main' = main
               \/ main = "running" /\ main' \in {"draining", "aborted"}
               \/ main = "draining" /\ consumer = "done"
                  /\ main' = IF Webhook THEN "flush" ELSE "exited"
        PROVE  Shape'
    <2>1. TypeOK'
      BY <1>1 DEF Shape, TypeOK
    <2>2. Stages'
      BY <1>1 DEF Shape, Stages, Webhook
    <2> QED
      BY <2>1, <2>2 DEF Shape
  <1>2. CASE CloseChannel \/ Abort \/ Drained \/ UNCHANGED vars
    BY <1>1, <1>2 DEF CloseChannel, Abort, Drained, vars, run, emitters
  <1>3. CASE Finish
    <2>1. /\ UNCHANGED <<held, accepted, refused, queue, current, at, file, batch, inflight,
                         posted, failed, ticker, main>>
          /\ consumer = "ranging" /\ queue = <<>> /\ ~ Open /\ consumer' = "done"
      BY <1>3 DEF Finish, emitters
    <2>2. TypeOK'
      BY <2>1 DEF Shape, TypeOK
    <2>3. Stages'
      BY <2>1 DEF Shape, Stages, Webhook, Open
    <2> QED
      BY <2>2, <2>3 DEF Shape
  <1>4. CASE Flush \/ LastFlush
    BY <1>4, MainTakesShape, MainPostsShape DEF Flush, LastFlush
  <1> QED
    BY <1>2, <1>3, <1>4, EmitShape, DequeueShape, WriteLineShape, AddToBatchShape,
       ConsumerTakesShape, ConsumerPostsShape, TickerShape DEF Next, Consume, Close, Gone

-----------------------------------------------------------------------------
(* The log: what the consumer has still to write goes with the file.       *)

LEMMA AheadAt ==
    \A w \in DOMAIN Outputs :
        /\ Ahead(Outputs[w]) = IF at < w \/ (at = w /\ consumer = "emitting")
                               THEN current ELSE <<>>
        /\ Ahead(Outputs[w])' = IF at' < w \/ (at' = w /\ consumer' = "emitting")
                                THEN current' ELSE <<>>
  <1> SUFFICES ASSUME NEW w \in DOMAIN Outputs
               PROVE  /\ Ahead(Outputs[w]) = IF at < w \/ (at = w /\ consumer = "emitting")
                                             THEN current ELSE <<>>
                      /\ Ahead(Outputs[w])' = IF at' < w \/ (at' = w /\ consumer' = "emitting")
                                              THEN current' ELSE <<>>
    OBVIOUS
  <1>1. \A i \in DOMAIN Outputs : Outputs[i] = Outputs[w] <=> i = w
    BY OutputsAre
  <1> QED
    BY <1>1 DEF Ahead

LEMMA AheadOfNone ==
    \A kind : /\ current = <<>> \/ kind \notin Elems(Outputs) => Ahead(kind) = <<>>
              /\ current' = <<>> \/ kind \notin Elems(Outputs) => Ahead(kind)' = <<>>
  BY DEF Ahead, Elems

LEMMA AheadStill ==
    ASSUME UNCHANGED <<consumer, current, at>>
    PROVE  \A kind : Ahead(kind)' = Ahead(kind)
  BY DEF Ahead

\* The next emitter is ahead of no less, but for the one just served.
LEMMA AheadNext ==
    ASSUME Shape, at \in DOMAIN Outputs, NextOutput
    PROVE  \A w \in DOMAIN Outputs :
               Ahead(Outputs[w])' = IF w = at THEN <<>> ELSE Ahead(Outputs[w])
  <1> SUFFICES ASSUME NEW w \in DOMAIN Outputs
               PROVE  Ahead(Outputs[w])' = IF w = at THEN <<>> ELSE Ahead(Outputs[w])
    OBVIOUS
  <1>1. /\ w \in 1 .. Len(Outputs) /\ at \in 1 .. Len(Outputs) /\ Len(Outputs) \in Nat
    BY OutputsAre
  <1>2. /\ Ahead(Outputs[w]) = IF at < w \/ (at = w /\ consumer = "emitting")
                               THEN current ELSE <<>>
        /\ Ahead(Outputs[w])' = IF at' < w \/ (at' = w /\ consumer' = "emitting")
                                THEN current' ELSE <<>>
    BY AheadAt
  <1>3. CASE at = Len(Outputs)
    BY <1>1, <1>2, <1>3 DEF NextOutput
  <1>4. CASE at # Len(Outputs)
    BY <1>1, <1>2, <1>4 DEF NextOutput
  <1> QED
    BY <1>3, <1>4

\* The consumer stops at the webhook to flush.
LEMMA AheadFlushing ==
    ASSUME Shape, at \in DOMAIN Outputs, UNCHANGED <<current, at>>,
           Outputs[at] = "webhook", consumer' \in {"flushing", "posting"}
    PROVE  /\ Ahead("webhook")' = <<>>
           /\ Ahead("file")' = Ahead("file")
  <1>1. \A w \in DOMAIN Outputs :
            /\ Ahead(Outputs[w]) = IF at < w \/ (at = w /\ consumer = "emitting")
                                   THEN current ELSE <<>>
            /\ Ahead(Outputs[w])' = IF at' < w \/ (at' = w /\ consumer' = "emitting")
                                    THEN current' ELSE <<>>
    BY AheadAt
  <1>2. at \in 1 .. Len(Outputs) /\ Len(Outputs) \in Nat
    BY OutputsAre
  <1>3. Ahead("webhook")' = <<>>
    BY <1>1, <1>2
  <1>4. ASSUME "file" \in Elems(Outputs) PROVE Ahead("file")' = Ahead("file")
    <2>1. PICK w \in DOMAIN Outputs : Outputs[w] = "file"
      BY <1>4 DEF Elems
    <2>2. w # at /\ w \in 1 .. Len(Outputs)
      BY <2>1, OutputsAre
    <2> QED
      BY <1>1, <1>2, <2>1, <2>2
  <1>5. "file" \notin Elems(Outputs) => Ahead("file")' = Ahead("file")
    BY AheadOfNone
  <1> QED
    BY <1>3, <1>4, <1>5

LEMMA LogInit == Init => LogInOrder
  <1> SUFFICES ASSUME Init PROVE LogInOrder
    OBVIOUS
  <1>1. Ahead("file") = <<>>
    BY AheadOfNone DEF Init
  <1>2. \A s : s = <<>> => <<>> \o s \o <<>> = <<>>
    BY EmptySeq, ConcatEmptySeq
  <1> QED
    BY <1>1, <1>2 DEF Init, LogInOrder

LEMMA LogStill ==
    ASSUME LogInOrder, UNCHANGED <<file, queue, accepted>>, Ahead("file")' = Ahead("file")
    PROVE  LogInOrder'
  BY DEF LogInOrder

LEMMA LogStep == Shape /\ LogInOrder /\ [Next]_vars => LogInOrder'
  <1> SUFFICES ASSUME Shape, LogInOrder, [Next]_vars, "file" \in Elems(Outputs)
               PROVE  (file \o Ahead("file") \o queue = accepted)'
    BY DEF LogInOrder
  <1>1. file \o Ahead("file") \o queue = accepted
    BY DEF LogInOrder
  <1>2. PICK w \in DOMAIN Outputs : Outputs[w] = "file"
    BY DEF Elems
  <1>3. /\ file \in Seq(Records) /\ queue \in Seq(Records) /\ current \in Seq(Records)
        /\ accepted \in Seq(Records)
    BY DEF Shape, TypeOK
  <1>4. PICK ahead \in Seq(Records) : ahead = Ahead("file")
    BY AheadIsOne DEF Shape
  <1>5. file \o ahead \in Seq(Records) /\ (file \o ahead) \o queue = accepted
    BY <1>1, <1>3, <1>4, ConcatProperties
  <1>6. ASSUME NEW r \in Records, Emit(r) PROVE (file \o Ahead("file") \o queue = accepted)'
    <2>1. Ahead("file")' = Ahead("file") /\ file' = file
      BY <1>6, AheadStill DEF Emit, run, emitters
    <2>2. CASE UNCHANGED <<queue, accepted>>
      BY <1>1, <2>1, <2>2
    <2>3. CASE queue' = Append(queue, r) /\ accepted' = Append(accepted, r)
      <3>1. PICK o \in Seq(Records) : o = <<r>> /\ queue' = queue \o o /\ accepted' = accepted \o o
        <4>1. <<r>> \in Seq(Records)
          OBVIOUS
        <4> QED
          BY <1>3, <2>3, <4>1, AppendIsConcat
      <3>2. PICK log \in Seq(Records) : log = file \o ahead
        BY <1>5
      <3>3. log \o (queue \o o) = (log \o queue) \o o
        BY SMTT(20), <1>3, <3>1, ConcatAssociative
      <3> QED
        BY <1>4, <1>5, <2>1, <3>1, <3>2, <3>3
    <2> QED
      BY <1>6, <2>2, <2>3 DEF Emit
  <1>7. CASE Dequeue
    <2>1. /\ UNCHANGED <<file, accepted>> /\ consumer = "ranging" /\ queue # <<>>
          /\ current' = <<Head(queue)>> /\ queue' = Tail(queue) /\ at' = 1
          /\ consumer' = "emitting"
      BY <1>7 DEF Dequeue, emitters
    <2>2. PICK o \in Seq(Records) : o = <<Head(queue)>> /\ queue = o \o Tail(queue)
      BY <1>3, <2>1, HeadAndTail
    <2>3. ahead = <<>>
      BY <1>4, <2>1, AheadOfNone DEF Shape, Stages
    <2>4. Ahead("file")' = o
      <3>1. Ahead(Outputs[w])' = IF at' < w \/ (at' = w /\ consumer' = "emitting")
                                 THEN current' ELSE <<>>
        BY AheadAt
      <3>2. w \in Nat \ {0}
        BY OutputsAre
      <3> QED
        BY <1>2, <2>1, <2>2, <3>1, <3>2
    <2>5. Tail(queue) \in Seq(Records)
      BY <1>3, <2>1, HeadAndTail
    <2>6. file \o ahead = file
      BY <1>3, <2>3, ConcatEmptySeq
    <2>7. (file \o o) \o Tail(queue) = file \o (o \o Tail(queue))
      BY SMTT(20), <1>3, <2>2, <2>5, ConcatAssociative
    <2> QED
      BY <1>5, <2>1, <2>2, <2>4, <2>6, <2>7
  <1>8. CASE WriteLine
    <2>1. /\ UNCHANGED <<accepted, queue>> /\ consumer = "emitting" /\ Outputs[at] = "file"
          /\ file' = file \o current /\ NextOutput
      BY <1>8 DEF WriteLine
    <2>2. at \in DOMAIN Outputs /\ at = w
      BY <1>2, <2>1, OutputsAre DEF Shape, Stages
    <2>3. ahead = current
      BY <1>2, <1>4, <2>1, <2>2, AheadAt
    <2>4. Ahead("file")' = <<>>
      BY <1>2, <2>1, <2>2, AheadNext
    <2>5. (file \o ahead) \o <<>> = file \o ahead
      BY <1>5, ConcatEmptySeq
    <2> QED
      BY <1>5, <2>1, <2>3, <2>4, <2>5
  <1>9. CASE AddToBatch \/ ConsumerTakes \/ ConsumerPosts
    <2>1. /\ UNCHANGED <<file, queue, accepted>> /\ Outputs[at] = "webhook" /\ at \in DOMAIN Outputs
          /\ NextOutput \/ (consumer' \in {"flushing", "posting"} /\ UNCHANGED <<current, at>>)
      <3>1. UNCHANGED <<file, queue, accepted>> /\ consumer \notin {"ranging", "done"}
        BY <1>9 DEF AddToBatch, ConsumerTakes, ConsumerPosts
      <3>2. Outputs[at] = "webhook" /\ at \in DOMAIN Outputs
        BY <1>9, <3>1 DEF AddToBatch, ConsumerTakes, ConsumerPosts, Shape, Stages
      <3>3. NextOutput \/ (consumer' \in {"flushing", "posting"} /\ UNCHANGED <<current, at>>)
        BY <1>9 DEF AddToBatch, ConsumerTakes, ConsumerPosts
      <3> QED
        BY <3>1, <3>2, <3>3
    <2>2. Ahead("file")' = Ahead("file")
      <3>1. w # at
        BY <1>2, <2>1
      <3>2. CASE NextOutput
        BY <1>2, <2>1, <3>1, <3>2, AheadNext
      <3>3. CASE consumer' \in {"flushing", "posting"} /\ UNCHANGED <<current, at>>
        BY <2>1, <3>3, AheadFlushing
      <3> QED
        BY <2>1, <3>2, <3>3
    <2> QED
      BY <1>1, <2>1, <2>2
  <1>10. CASE Finish
    <2>1. UNCHANGED <<file, queue, accepted, current>> /\ current = <<>>
      BY <1>10 DEF Finish, emitters, Shape, Stages
    <2>2. Ahead("file") = <<>> /\ Ahead("file")' = <<>>
      BY <2>1, AheadOfNone
    <2> QED
      BY <1>1, <2>1, <2>2
  <1>11. CASE Tick \/ Close \/ CloseChannel \/ Abort \/ UNCHANGED vars
    <2>1. UNCHANGED <<file, queue, accepted, consumer, current, at>>
      BY <1>11 DEF Tick, TickerTakes, TickerPosts, TickerEnds, Close, Drained, Flush, LastFlush,
         MainTakes, MainPosts, CloseChannel, Abort, vars, run, emitters
    <2> QED
      BY <1>1, <2>1, AheadStill
  <1> QED
    BY <1>6, <1>7, <1>8, <1>9, <1>10, <1>11 DEF Next, Consume, Gone

-----------------------------------------------------------------------------
(* The webhook's records: each has one place, or was lost.                 *)

Placed ==
    /\ held \cap Elems(accepted) = {}
    /\ Webhook => Apart(Places, failed) /\ Elems(accepted) = failed \cup All(Places)

LEMMA EachPlace ==
    ASSUME PlacesFacts, NEW i \in DOMAIN Places
    PROVE  \/ i = 1 \/ i = 2 \/ i = 3 \/ \E f \in Flushers : i = Slot(f)
           \/ i - 6 \in 1 .. Len(posted) /\ i = 6 + (i - 6) /\ i > 6
  <1>1. i \in 1 .. 6 + Len(posted) /\ Len(posted) \in Nat
    BY DEF PlacesFacts
  <1>2. Slot("consumer") = 4 /\ Slot("ticker") = 5 /\ Slot("main") = 6
    BY DEF Slot
  <1>3. i \in {4, 5, 6} => \E f \in Flushers : i = Slot(f)
    BY <1>2 DEF Flushers
  <1> QED
    BY <1>1, <1>3

LEMMA SlotsAre ==
    /\ \A f \in Flushers : Slot(f) \in 4 .. 6
    /\ \A f, g \in Flushers : Slot(f) = Slot(g) => f = g
  BY DEF Slot, Flushers

\* The places of two states that differ in no more than some of them.
LEMMA PlacesStay ==
    ASSUME PlacesFacts, PlacesFacts', NEW A, posted' = posted,
           1 \in A \/ Ahead("webhook")' = Ahead("webhook"), 2 \in A \/ queue' = queue,
           3 \in A \/ batch' = batch,
           \A f \in Flushers : Slot(f) \in A \/ inflight'[f] = inflight[f]
    PROVE  /\ DOMAIN Places' = DOMAIN Places
           /\ \A i \in DOMAIN Places \ A : Places'[i] = Places[i]
  <1>1. DOMAIN Places' = DOMAIN Places
    BY DEF PlacesFacts
  <1>2. ASSUME NEW i \in DOMAIN Places, i \notin A PROVE Places'[i] = Places[i]
    <2>1. CASE i = 1 \/ i = 2 \/ i = 3
      BY <1>2, <2>1 DEF PlacesFacts
    <2>2. CASE \E f \in Flushers : i = Slot(f)
      BY <1>2, <2>2 DEF PlacesFacts
    <2>3. CASE i - 6 \in 1 .. Len(posted) /\ i = 6 + (i - 6)
      BY <2>3 DEF PlacesFacts
    <2> QED
      BY <2>1, <2>2, <2>3, EachPlace
  <1> QED
    BY <1>1, <1>2

LEMMA PlacedStill ==
    ASSUME Shape, Shape', Placed,
           UNCHANGED <<held, accepted, queue, batch, inflight, posted, failed>>,
           Ahead("webhook")' = Ahead("webhook")
    PROVE  Placed'
  <1>1. TypeOK /\ TypeOK'
    BY DEF Shape
  <1>2. PlacesFacts /\ PlacesFacts'
    BY <1>1, PlacesAre, PTL
  <1>3. Places' = Places
    BY <1>2 DEF Places
  <1> QED
    BY <1>3 DEF Placed, Webhook

LEMMA TakePlaced ==
    ASSUME Shape, Shape', Placed, NEW f \in Flushers, Take(f), inflight[f] = <<>>,
           UNCHANGED <<held, accepted, queue, posted, failed>>,
           Ahead("webhook")' = Ahead("webhook")
    PROVE  Placed'
  <1>1. TypeOK /\ TypeOK'
    BY DEF Shape
  <1>2. PlacesFacts /\ PlacesFacts'
    BY <1>1, PlacesAre, PTL
  <1>3. PICK P, Q, n : P = Places /\ Q = Places' /\ n = Slot(f)
    OBVIOUS
  <1>4. /\ batch' = <<>> /\ inflight'[f] = batch
        /\ \A g \in Flushers \ {f} : inflight'[g] = inflight[g]
    BY TakeTypes
  <1>5. DOMAIN Q = DOMAIN P /\ \A i \in DOMAIN P \ {3, n} : Q[i] = P[i]
    <2>1. PICK A : A = {3, n}
      OBVIOUS
    <2>2. 3 \in A /\ \A g \in Flushers : Slot(g) \in A \/ inflight'[g] = inflight[g]
      BY <1>3, <1>4, <2>1
    <2>3. /\ DOMAIN Places' = DOMAIN Places
          /\ \A i \in DOMAIN Places \ A : Places'[i] = Places[i]
      BY <1>2, <2>2, PlacesStay
    <2> QED
      BY <1>3, <2>1, <2>3
  <1>6. /\ 3 \in DOMAIN P /\ n \in DOMAIN P /\ n # 3
        /\ P[3] = batch /\ P[n] = <<>> /\ Q[3] = <<>> /\ Q[n] = batch
    <2>1. n \in 4 .. 6
      BY <1>3, SlotsAre
    <2>2. 3 \in DOMAIN P /\ n \in DOMAIN P
      BY SMTT(20), <1>2, <1>3, <2>1 DEF PlacesFacts
    <2>3. P[3] = batch /\ P[n] = inflight[f]
      BY <1>2, <1>3 DEF PlacesFacts
    <2>4. Q[3] = batch' /\ Q[n] = inflight'[f]
      BY <1>2, <1>3 DEF PlacesFacts
    <2> QED
      BY <1>4, <2>1, <2>2, <2>3, <2>4
  <1>7. ASSUME Apart(P, failed) PROVE Apart(Q, failed) /\ All(Q) = All(P)
    <2>1. Inj(batch)
      BY <1>6, <1>7 DEF Apart
    <2> QED
      BY <1>5, <1>6, <1>7, <2>1, ElemsEmpty, Exchanged
  <1> QED
    BY <1>3, <1>7 DEF Placed, Webhook

LEMMA PostPlaced ==
    ASSUME Shape, Shape', Placed, NEW f \in Flushers, Post(f),
           UNCHANGED <<held, accepted, queue, batch>>,
           Ahead("webhook")' = Ahead("webhook")
    PROVE  Placed'
  <1>1. TypeOK /\ TypeOK'
    BY DEF Shape
  <1>2. PlacesFacts /\ PlacesFacts'
    BY <1>1, PlacesAre, PTL
  <1>3. PICK P, Q, n : P = Places /\ Q = Places' /\ n = Slot(f)
    OBVIOUS
  <1>4. inflight'[f] = <<>> /\ \A g \in Flushers \ {f} : inflight'[g] = inflight[g]
    BY PostTypes
  <1>5. n \in DOMAIN P /\ P[n] = inflight[f] /\ Q[n] = <<>>
    <2>1. n \in 4 .. 6
      BY <1>3, SlotsAre
    <2>4. DOMAIN P = 1 .. 6 + Len(posted) /\ Len(posted) \in Nat
      BY <1>2, <1>3 DEF PlacesFacts
    <2>2. n \in DOMAIN P
      BY <2>1, <2>4
    <2>3. P[n] = inflight[f] /\ Q[n] = inflight'[f]
      BY <1>2, <1>3 DEF PlacesFacts
    <2> QED
      BY <1>4, <2>2, <2>3
  <1>6. CASE posted' = posted /\ failed' = failed \cup Elems(inflight[f])
    <2>1. DOMAIN Q = DOMAIN P /\ \A i \in DOMAIN P \ {n} : Q[i] = P[i]
      BY <1>2, <1>3, <1>4, <1>6, SlotsAre, PlacesStay
    <2>2. ASSUME Apart(P, failed)
          PROVE  Apart(Q, failed') /\ failed' \cup All(Q) = failed \cup All(P)
      <3>1. PICK lost : lost = failed
        OBVIOUS
      <3>2. /\ Apart(Q, lost \cup Elems(P[n]))
            /\ (lost \cup Elems(P[n])) \cup All(Q) = lost \cup All(P)
        BY <1>5, <2>1, <2>2, <3>1, Lost
      <3> QED
        BY <1>5, <1>6, <3>1, <3>2
    <2> QED
      BY <1>3, <2>2 DEF Placed, Webhook
  <1>7. CASE posted' = Append(posted, inflight[f]) /\ failed' = failed
    <2>1. /\ Len(posted') = Len(posted) + 1 /\ posted'[Len(posted) + 1] = inflight[f]
          /\ \A i \in 1 .. Len(posted) : posted'[i] = posted[i]
      BY <1>1, <1>7, AppendProperties DEF TypeOK
    <2>2. PICK b : b = 7 + Len(posted)
      OBVIOUS
    <2>3. b \notin DOMAIN P /\ DOMAIN Q = DOMAIN P \cup {b}
      <3>1. PICK l \in Nat : l = Len(posted)
        BY <1>2 DEF PlacesFacts
      <3>2. DOMAIN P = 1 .. 6 + l
        BY <1>2, <1>3, <3>1 DEF PlacesFacts
      <3>3. DOMAIN Q = 1 .. 6 + (l + 1)
        BY <1>2, <1>3, <2>1, <3>1 DEF PlacesFacts
      <3>4. b = 7 + l
        BY <2>2, <3>1
      <3> QED
        BY <3>2, <3>3, <3>4
    <2>4. Q[b] = P[n]
      <3>1. b = 6 + (Len(posted) + 1) /\ Len(posted) + 1 \in 1 .. Len(posted')
        BY <1>2, <2>1, <2>2 DEF PlacesFacts
      <3> QED
        BY <1>2, <1>3, <1>5, <2>1, <3>1 DEF PlacesFacts
    <2>5. ASSUME NEW i \in DOMAIN P, i # n PROVE Q[i] = P[i]
      <3>1. CASE i = 1 \/ i = 2 \/ i = 3
        BY <1>2, <1>3, <3>1 DEF PlacesFacts
      <3>2. CASE \E g \in Flushers : i = Slot(g)
        BY SMTT(20), <1>2, <1>3, <1>4, <2>5, <3>2 DEF PlacesFacts
      <3>3. CASE i - 6 \in 1 .. Len(posted) /\ i = 6 + (i - 6)
        <4>1. i - 6 \in 1 .. Len(posted')
          BY <1>2, <2>1, <3>3 DEF PlacesFacts
        <4> QED
          BY <1>2, <1>3, <2>1, <3>3, <4>1 DEF PlacesFacts
      <3> QED
        BY <1>2, <1>3, <3>1, <3>2, <3>3, EachPlace
    <2>6. ASSUME Apart(P, failed) PROVE Apart(Q, failed) /\ All(Q) = All(P)
      BY <1>5, <2>3, <2>4, <2>5, <2>6, Sent
    <2> QED
      BY <1>3, <1>7, <2>6 DEF Placed, Webhook
  <1> QED
    BY <1>6, <1>7 DEF Post

LEMMA AheadDequeued ==
    ASSUME Shape, Dequeue, Webhook
    PROVE  Ahead("webhook") = <<>> /\ Ahead("webhook")' = <<Head(queue)>>
  <1>1. /\ current' = <<Head(queue)>> /\ at' = 1
        /\ consumer = "ranging" /\ consumer' = "emitting"
    BY DEF Dequeue
  <1>2. Ahead("webhook") = <<>>
    BY <1>1, AheadOfNone DEF Shape, Stages
  <1>3. PICK w \in DOMAIN Outputs : Outputs[w] = "webhook"
    BY DEF Webhook, Elems
  <1>4. Ahead(Outputs[w])' = IF at' < w \/ (at' = w /\ consumer' = "emitting")
                             THEN current' ELSE <<>>
    BY AheadAt
  <1>5. w \in Nat \ {0}
    BY OutputsAre
  <1> QED
    BY <1>1, <1>2, <1>3, <1>4, <1>5

LEMMA AheadAdded ==
    ASSUME Shape, AddToBatch
    PROVE  Ahead("webhook") = current /\ Ahead("webhook")' = <<>>
  <1>1. /\ consumer = "emitting" /\ Outputs[at] = "webhook"
        /\ NextOutput \/ (consumer' = "flushing" /\ UNCHANGED <<current, at>>)
    BY DEF AddToBatch
  <1>2. at \in DOMAIN Outputs
    BY <1>1 DEF Shape, Stages
  <1>3. Ahead("webhook") = current
    BY <1>1, <1>2, AheadAt
  <1>4. CASE NextOutput
    BY <1>1, <1>2, <1>3, <1>4, AheadNext
  <1>5. CASE consumer' = "flushing" /\ UNCHANGED <<current, at>>
    BY <1>1, <1>2, <1>3, <1>5, AheadFlushing
  <1> QED
    BY <1>1, <1>4, <1>5

LEMMA EmitPlaced ==
    ASSUME Shape, Shape', Placed, NEW r \in Records, Emit(r)
    PROVE  Placed'
  <1>1. /\ UNCHANGED <<consumer, current, at, batch, inflight, posted, failed>>
        /\ r \in held /\ held' = held \ {r}
    BY DEF Emit, run, emitters
  <1>2. Ahead("webhook")' = Ahead("webhook")
    BY <1>1, AheadStill
  <1>3. TypeOK /\ TypeOK'
    BY DEF Shape
  <1>4. PlacesFacts /\ PlacesFacts'
    BY <1>3, PlacesAre, PTL
  <1>5. CASE UNCHANGED <<queue, accepted>>
    <2>1. Places' = Places
      BY <1>1, <1>2, <1>5 DEF Places
    <2> QED
      BY <1>1, <1>5, <2>1 DEF Placed, Webhook
  <1>6. CASE queue' = Append(queue, r) /\ accepted' = Append(accepted, r)
    <2>1. Elems(accepted') = Elems(accepted) \cup {r} /\ Elems(queue') = Elems(queue) \cup {r}
      BY <1>3, <1>6, ElemsAppend DEF TypeOK
    <2>2. r \notin Elems(accepted)
      BY <1>1 DEF Placed
    <2>3. PICK P, Q, A : P = Places /\ Q = Places' /\ A = {2}
      OBVIOUS
    <2>4. /\ 2 \in A /\ 2 \in DOMAIN P /\ P[2] = queue /\ Q[2] = queue'
      BY <1>4, <2>3 DEF PlacesFacts
    <2>5. /\ DOMAIN Places' = DOMAIN Places
          /\ \A i \in DOMAIN Places \ A : Places'[i] = Places[i]
      BY <1>1, <1>2, <1>4, <2>4, PlacesStay
    <2>6. ASSUME Webhook PROVE Apart(Q, failed) /\ All(Q) = All(P) \cup {r}
      <3>1. Apart(P, failed) /\ r \notin All(P) /\ r \notin failed
        BY <2>2, <2>3, <2>6 DEF Placed
      <3>2. Inj(queue) /\ r \notin Elems(queue)
        BY <2>4, <3>1 DEF Apart, All
      <3>3. Inj(queue')
        BY <1>3, <1>6, <3>2, InjAppend DEF TypeOK
      <3> QED
        BY <2>1, <2>3, <2>4, <2>5, <3>1, <3>3, Entered
    <2>7. held' \cap Elems(accepted') = {}
      BY <1>1, <2>1 DEF Placed
    <2> QED
      BY <1>1, <2>1, <2>3, <2>6, <2>7 DEF Placed, Webhook
  <1> QED
    BY <1>5, <1>6 DEF Emit

LEMMA DequeuePlaced ==
    ASSUME Shape, Shape', Placed, Dequeue
    PROVE  Placed'
  <1>1. /\ UNCHANGED <<held, accepted, batch, inflight, posted, failed>>
        /\ queue # <<>> /\ queue' = Tail(queue) /\ current' = <<Head(queue)>>
        /\ consumer = "ranging" /\ consumer' = "emitting" /\ at' = 1
    BY DEF Dequeue, emitters
  <1>2. TypeOK /\ TypeOK'
    BY DEF Shape
  <1>3. PlacesFacts /\ PlacesFacts'
    BY <1>2, PlacesAre, PTL
  <1>4. PICK P, Q, A : P = Places /\ Q = Places' /\ A = {1, 2}
    OBVIOUS
  <1>5. /\ 1 \in A /\ 2 \in A /\ 1 \in DOMAIN P /\ 2 \in DOMAIN P
        /\ P[1] = Ahead("webhook") /\ Q[1] = Ahead("webhook")' /\ P[2] = queue /\ Q[2] = queue'
    BY <1>3, <1>4 DEF PlacesFacts
  <1>6. /\ DOMAIN Places' = DOMAIN Places
        /\ \A i \in DOMAIN Places \ A : Places'[i] = Places[i]
    BY <1>1, <1>3, <1>5, PlacesStay
  <1>7. ASSUME Webhook PROVE Apart(Q, failed) /\ All(Q) = All(P)
    <2>1. P[1] = <<>>
      BY <1>5, <1>7, AheadDequeued
    <2>3. Ahead("webhook")' = <<Head(queue)>>
      BY <1>7, AheadDequeued
    <2>4. Apart(P, failed)
      BY <1>4, <1>7 DEF Placed
    <2>5. Inj(queue)
      BY <1>5, <2>4 DEF Apart
    <2>6. /\ Elems(queue) = {Head(queue)} \cup Elems(Tail(queue))
          /\ Inj(Tail(queue)) /\ Head(queue) \notin Elems(Tail(queue))
      BY <1>1, <1>2, <2>5, HeadAndTail DEF TypeOK
    <2>7. /\ Elems(Q[1]) = {Head(queue)} /\ Inj(Q[1]) /\ Elems(P[1]) = {}
          /\ Elems(Q[2]) = Elems(Tail(queue)) /\ Inj(Q[2])
      <3>1. Elems(<<Head(queue)>>) = {Head(queue)} /\ Inj(<<Head(queue)>>)
        BY ElemsOne
      <3> QED
        BY <1>1, <1>5, <2>1, <2>3, <2>6, <3>1, ElemsEmpty
    <2>8. /\ Elems(Q[1]) \cup Elems(Q[2]) = Elems(P[1]) \cup Elems(P[2])
          /\ Elems(Q[1]) \cap Elems(Q[2]) = {}
      BY <1>5, <2>6, <2>7
    <2> QED
      BY <1>4, <1>5, <1>6, <2>4, <2>7, <2>8, Exchanged
  <1> QED
    BY <1>1, <1>4, <1>7 DEF Placed, Webhook

LEMMA AddToBatchPlaced ==
    ASSUME Shape, Shape', Placed, AddToBatch
    PROVE  Placed'
  <1>1. /\ UNCHANGED <<held, accepted, queue, inflight, posted, failed>>
        /\ batch' = batch \o current
    BY DEF AddToBatch
  <1>2. Ahead("webhook") = current /\ Ahead("webhook")' = <<>>
    BY AheadAdded
  <1>3. TypeOK /\ TypeOK'
    BY DEF Shape
  <1>4. PlacesFacts /\ PlacesFacts'
    BY <1>3, PlacesAre, PTL
  <1>5. PICK P, Q, A : P = Places /\ Q = Places' /\ A = {1, 3}
    OBVIOUS
  <1>6. /\ 1 \in A /\ 3 \in A /\ 1 \in DOMAIN P /\ 3 \in DOMAIN P
        /\ P[1] = current /\ Q[1] = <<>> /\ P[3] = batch /\ Q[3] = batch'
    BY SMTT(20), <1>2, <1>4, <1>5 DEF PlacesFacts
  <1>7. /\ DOMAIN Places' = DOMAIN Places
        /\ \A i \in DOMAIN Places \ A : Places'[i] = Places[i]
    BY <1>1, <1>4, <1>6, PlacesStay
  <1>8. ASSUME Webhook PROVE Apart(Q, failed) /\ All(Q) = All(P)
    <2>1. Apart(P, failed)
      BY <1>5, <1>8 DEF Placed
    <2>2. Inj(batch) /\ Inj(current) /\ Elems(batch) \cap Elems(current) = {}
      BY <1>6, <2>1 DEF Apart
    <2>3. batch \in Seq(Records) /\ current \in Seq(Records)
      BY <1>3 DEF TypeOK
    <2>4. /\ Elems(batch \o current) = Elems(batch) \cup Elems(current)
          /\ Inj(batch \o current)
      BY <2>2, <2>3, ElemsConcat, InjConcat
    <2>5. /\ Elems(Q[1]) = {} /\ Inj(Q[1]) /\ Inj(Q[3])
          /\ Elems(Q[3]) = Elems(P[1]) \cup Elems(P[3])
      BY <1>1, <1>6, <2>4, ElemsEmpty
    <2>6. /\ Elems(Q[1]) \cup Elems(Q[3]) = Elems(P[1]) \cup Elems(P[3])
          /\ Elems(Q[1]) \cap Elems(Q[3]) = {}
      BY <2>5
    <2> QED
      BY <1>5, <1>6, <1>7, <2>1, <2>5, <2>6, Exchanged
  <1> QED
    BY <1>1, <1>5, <1>8 DEF Placed, Webhook

\* Any other step exchanges at most the batch and what a goroutine holds, or
\* posts it.
Effect ==
    /\ UNCHANGED <<held, accepted, queue>> /\ Ahead("webhook")' = Ahead("webhook")
    /\ \/ UNCHANGED <<batch, inflight, posted, failed>>
       \/ \E f \in Flushers : Take(f) /\ inflight[f] = <<>> /\ UNCHANGED <<posted, failed>>
       \/ \E f \in Flushers : Post(f) /\ UNCHANGED batch

\* What the consumer does at the webhook, but for adding to the batch.
LEMMA ConsumerEffect ==
    ASSUME Shape, ConsumerTakes \/ ConsumerPosts
    PROVE  Effect
  <1>1. UNCHANGED <<held, accepted, queue>> /\ consumer \in {"flushing", "posting"}
    BY DEF ConsumerTakes, ConsumerPosts
  <1>2. at \in DOMAIN Outputs /\ Outputs[at] = "webhook"
    BY <1>1 DEF Shape, Stages
  <1>3. Ahead("webhook") = <<>>
    <2>1. Ahead(Outputs[at]) = IF at < at \/ (at = at /\ consumer = "emitting")
                               THEN current ELSE <<>>
      BY <1>2, AheadAt
    <2>2. ~ (at < at)
      BY <1>2, OutputsAre
    <2> QED
      BY <1>1, <1>2, <2>1, <2>2
  <1>4. NextOutput => Ahead("webhook")' = <<>>
    BY <1>2, AheadNext
  <1>5. CASE ConsumerTakes /\ batch = <<>>
    <2>1. NextOutput /\ UNCHANGED <<batch, inflight, posted, failed>>
      BY <1>5 DEF ConsumerTakes
    <2> QED
      BY <1>1, <1>3, <1>4, <2>1 DEF Effect
  <1>6. CASE ConsumerTakes /\ batch # <<>>
    <2>1. /\ UNCHANGED <<posted, failed, current, at>> /\ Take("consumer")
          /\ consumer = "flushing" /\ consumer' = "posting"
      BY <1>6 DEF ConsumerTakes
    <2>2. inflight["consumer"] = <<>>
      BY <2>1 DEF Shape, Stages
    <2>3. Ahead("webhook")' = <<>>
      BY <1>2, <2>1, AheadFlushing
    <2> QED
      BY <1>1, <1>3, <2>1, <2>2, <2>3 DEF Effect, Flushers
  <1>7. CASE ConsumerPosts
    <2>1. Post("consumer") /\ NextOutput /\ UNCHANGED batch
      BY <1>7 DEF ConsumerPosts
    <2> QED
      BY <1>1, <1>3, <1>4, <2>1 DEF Effect, Flushers
  <1> QED
    BY <1>5, <1>6, <1>7

LEMMA Effects ==
    Shape /\ [Next]_vars => Effect \/ Dequeue \/ AddToBatch \/ \E r \in Records : Emit(r)
  <1> SUFFICES ASSUME Shape, [Next]_vars
               PROVE  Effect \/ Dequeue \/ AddToBatch \/ \E r \in Records : Emit(r)
    OBVIOUS
  <1>1. ConsumerTakes \/ ConsumerPosts => Effect
    BY ConsumerEffect
  <1>2. ASSUME WriteLine PROVE Effect
    <2>1. /\ UNCHANGED <<held, accepted, queue, batch, inflight, posted, failed>>
          /\ consumer = "emitting" /\ Outputs[at] = "file" /\ NextOutput
      BY <1>2 DEF WriteLine
    <2>2. at \in DOMAIN Outputs
      BY <2>1 DEF Shape, Stages
    <2>3. ASSUME NEW w \in DOMAIN Outputs, Outputs[w] = "webhook"
          PROVE  Ahead("webhook")' = Ahead("webhook")
      <3>1. w # at
        BY <2>1, <2>3
      <3> QED
        BY <2>1, <2>2, <2>3, <3>1, AheadNext
    <2>4. "webhook" \notin Elems(Outputs) => Ahead("webhook")' = Ahead("webhook")
      BY AheadOfNone
    <2>5. Ahead("webhook")' = Ahead("webhook")
      BY <2>3, <2>4 DEF Elems
    <2> QED
      BY <2>1, <2>5 DEF Effect
  <1>3. ASSUME Finish PROVE Effect
    <2>1. /\ UNCHANGED <<held, accepted, queue, batch, inflight, posted, failed, current>>
          /\ current = <<>>
      BY <1>3 DEF Finish, emitters, Shape, Stages
    <2>2. Ahead("webhook") = <<>> /\ Ahead("webhook")' = <<>>
      BY <2>1, AheadOfNone
    <2> QED
      BY <2>1, <2>2 DEF Effect
  <1>4. ASSUME UNCHANGED <<consumer, current, at, held, accepted, queue>>,
               \/ UNCHANGED <<batch, inflight, posted, failed>>
               \/ \E f \in Flushers : /\ Take(f) /\ inflight[f] = <<>>
                                      /\ UNCHANGED <<posted, failed>>
               \/ \E f \in Flushers : Post(f) /\ UNCHANGED batch
        PROVE  Effect
    <2>1. Ahead("webhook")' = Ahead("webhook")
      BY <1>4, AheadStill
    <2> QED
      BY <1>4, <2>1 DEF Effect
  <1>5. ASSUME CloseChannel \/ Abort \/ Drained \/ TickerEnds \/ UNCHANGED vars PROVE Effect
    BY <1>4, <1>5 DEF CloseChannel, Abort, Drained, TickerEnds, vars, run, emitters
  <1>6. ASSUME TickerTakes \/ TickerPosts PROVE Effect
    <2>1. CASE TickerTakes
      BY <1>4, <2>1 DEF TickerTakes, run, Flushers, Shape, Stages
    <2>2. CASE TickerPosts
      BY <1>4, <2>2 DEF TickerPosts, run, Flushers
    <2> QED
      BY <1>6, <2>1, <2>2
  <1>7. ASSUME NEW from, NEW posting, NEW next, from \in {"flush", "last"},
                MainTakes(from, posting, next) \/ MainPosts(posting, next)
         PROVE  Effect
    <2>1. CASE MainTakes(from, posting, next)
      BY <1>4, <1>7, <2>1 DEF MainTakes, run, Flushers, Shape, Stages
    <2>2. CASE MainPosts(posting, next)
      BY <1>4, <2>2 DEF MainPosts, run, Flushers
    <2> QED
      BY <1>7, <2>1, <2>2
  <1>8. ASSUME Flush \/ LastFlush PROVE Effect
    BY <1>7, <1>8 DEF Flush, LastFlush
  <1> QED
    BY <1>1, <1>2, <1>3, <1>5, <1>6, <1>8 DEF Next, Consume, Tick, Close, Gone

LEMMA PlacedInit == Init => Placed
  <1> SUFFICES ASSUME Init PROVE Placed
    OBVIOUS
  <1>1. Shape
    BY ShapeInit
  <1>2. TypeOK
    BY <1>1 DEF Shape
  <1>3. PlacesFacts
    BY <1>2, PlacesAre
  <1>4. ASSUME NEW i \in DOMAIN Places PROVE Places[i] = <<>>
    <2>1. Ahead("webhook") = <<>>
      BY AheadOfNone DEF Init
    <2>2. CASE i = 1 \/ i = 2 \/ i = 3
      BY <1>3, <2>1, <2>2 DEF PlacesFacts, Init
    <2>3. CASE \E f \in Flushers : i = Slot(f)
      BY <1>3, <2>3 DEF PlacesFacts, Init
    <2>4. ~ (i - 6 \in 1 .. Len(posted))
      BY EmptySeq DEF Init
    <2> QED
      BY <1>3, <2>2, <2>3, <2>4, EachPlace
  <1>5. Apart(Places, failed) /\ All(Places) = {}
    BY <1>4, ElemsEmpty DEF Apart, All
  <1>6. Elems(accepted) = {} /\ failed = {}
    BY ElemsEmpty DEF Init
  <1> QED
    BY <1>5, <1>6 DEF Placed

LEMMA PlacedStep == Shape /\ Placed /\ [Next]_vars => Placed'
  <1> SUFFICES ASSUME Shape, Placed, [Next]_vars PROVE Placed'
    OBVIOUS
  <1>1. Shape'
    BY ShapeStep
  <1>2. CASE Effect
    BY <1>1, <1>2, PlacedStill, TakePlaced, PostPlaced DEF Effect
  <1> QED
    BY <1>1, <1>2, Effects, EmitPlaced, DequeuePlaced, AddToBatchPlaced

-----------------------------------------------------------------------------
(* Batches are cut from what was accepted, and the present one is followed *)
(* by what the consumer holds for the webhook and by the channel.          *)

Rec == Seq(Records)
Cut(s, b) == \E pre, post \in Rec : s = pre \o (b \o post)
Fit(s, b) == Cut(s, b) /\ Len(b) <= MaxBatch
Cuts ==
    /\ Webhook => \E pre \in Rec : accepted = pre \o (batch \o (Ahead("webhook") \o queue))
    /\ Fit(accepted, batch)
    /\ \A f \in Flushers : Fit(accepted, inflight[f])
    /\ \A i \in 1 .. Len(posted) : Fit(accepted, posted[i])

LEMMA RecAssociative == \A x, y, z \in Rec : (x \o y) \o z = x \o (y \o z)
  BY ConcatAssociative DEF Rec

LEMMA CutIsAStretch ==
    ASSUME NEW s \in Rec, NEW b \in Rec, Cut(s, b)
    PROVE  \E k \in 0 .. Len(s) : b = SubSeq(s, k + 1, k + Len(b))
  <1>1. PICK pre \in Rec, post \in Rec : s = pre \o (b \o post)
    BY DEF Cut
  <1>2. /\ b \o post \in Rec /\ Len(b \o post) = Len(b) + Len(post)
        /\ \A i \in 1 .. Len(b) + Len(post) :
               (b \o post)[i] = IF i <= Len(b) THEN b[i] ELSE post[i - Len(b)]
    BY ConcatProperties DEF Rec
  <1>3. PICK rest \in Rec : rest = b \o post
    BY <1>2
  <1>4. /\ Len(s) = Len(pre) + Len(rest)
        /\ \A i \in 1 .. Len(pre) + Len(rest) :
               s[i] = IF i <= Len(pre) THEN pre[i] ELSE rest[i - Len(pre)]
    BY <1>1, <1>3, ConcatProperties DEF Rec
  <1>5. Len(pre) \in Nat /\ Len(b) \in Nat /\ Len(post) \in Nat
    BY LenProperties DEF Rec
  <1>6. PICK k, n : k = Len(pre) /\ n = Len(b)
    OBVIOUS
  <1>7. \A i \in 1 .. n : k + i \in 1 .. Len(s) /\ s[k + i] = b[i]
    <2> SUFFICES ASSUME NEW i \in 1 .. n PROVE k + i \in 1 .. Len(s) /\ s[k + i] = b[i]
      OBVIOUS
    <2>1. k \in Nat /\ n \in Nat /\ Len(post) \in Nat /\ Len(s) = k + (n + Len(post))
      BY <1>2, <1>3, <1>4, <1>5, <1>6
    <2>2. k + i \in 1 .. k + (n + Len(post)) /\ ~ (k + i <= k) /\ (k + i) - k = i
          /\ i \in 1 .. n + Len(post) /\ i <= n
      BY <2>1
    <2>3. s[k + i] = rest[(k + i) - k]
      BY <1>2, <1>3, <1>4, <1>6, <2>2
    <2>4. rest[i] = b[i]
      BY <1>2, <1>3, <1>6, <2>2
    <2> QED
      BY <2>1, <2>2, <2>3, <2>4
  <1>8. \A i \in k + 1 .. k + n : s[i] \in Records
    <2> SUFFICES ASSUME NEW i \in k + 1 .. k + n PROVE s[i] \in Records
      OBVIOUS
    <2>1. i \in 1 .. Len(s)
      BY <1>2, <1>3, <1>4, <1>5, <1>6
    <2> QED
      BY <2>1, ElementOfSeq DEF Rec
  <1>9. PICK c : c = SubSeq(s, k + 1, k + n)
    OBVIOUS
  <1>10. /\ c \in Seq(Records) /\ Len(c) = n
         /\ \A i \in 1 .. n : c[i] = s[k + i]
    <2>1. k + 1 \in Int /\ k + n \in Int
      BY <1>5, <1>6
    <2>2. /\ c \in Seq(Records)
          /\ Len(c) = IF k + 1 <= k + n THEN (k + n) - (k + 1) + 1 ELSE 0
          /\ \A i \in 1 .. (k + n) - (k + 1) + 1 : c[i] = s[(k + 1) + i - 1]
      BY <1>8, <1>9, <2>1, SubSeqProperties
    <2>3. n \in Nat /\ k \in Nat
      BY <1>5, <1>6
    <2>4. Len(c) = n
      BY <2>2, <2>3
    <2>5. ASSUME NEW i \in 1 .. n PROVE c[i] = s[k + i]
      <3>1. i \in 1 .. (k + n) - (k + 1) + 1 /\ (k + 1) + i - 1 = k + i
        BY <2>3
      <3> QED
        BY <2>2, <3>1
    <2> QED
      BY <2>2, <2>4, <2>5
  <1>11. b = c
    BY <1>6, <1>7, <1>10, SeqEqual DEF Rec
  <1>12. k \in 0 .. Len(s)
    BY <1>2, <1>3, <1>4, <1>5, <1>6
  <1> QED
    BY <1>6, <1>9, <1>11, <1>12

LEMMA CutOfNone == \A s \in Rec : Cut(s, <<>>)
  <1> SUFFICES ASSUME NEW s \in Rec PROVE Cut(s, <<>>)
    OBVIOUS
  <1>1. <<>> \in Rec
    BY EmptySeq DEF Rec
  <1>2. <<>> \o <<>> = <<>> /\ s \o <<>> = s
    BY <1>1, ConcatEmptySeq DEF Rec
  <1>3. s = s \o (<<>> \o <<>>)
    BY <1>2
  <1> QED
    BY <1>1, <1>3 DEF Cut

LEMMA CutGrows ==
    ASSUME NEW s \in Rec, NEW o \in Rec, NEW b \in Rec, Cut(s, b)
    PROVE  Cut(s \o o, b)
  <1>1. PICK pre \in Rec, post \in Rec : s = pre \o (b \o post)
    BY DEF Cut
  <1>2. PICK rest \in Rec : rest = b \o post
    BY ConcatProperties DEF Rec
  <1>3. (pre \o rest) \o o = pre \o (rest \o o)
    BY SMTT(20), ConcatAssociative DEF Rec
  <1>4. (b \o post) \o o = b \o (post \o o)
    BY SMTT(20), ConcatAssociative DEF Rec
  <1>5. post \o o \in Rec
    BY ConcatProperties DEF Rec
  <1>6. s \o o = pre \o (b \o (post \o o))
    BY <1>1, <1>2, <1>3, <1>4
  <1> QED
    BY <1>5, <1>6 DEF Cut

LEMMA CutsInit == Init => Cuts
  <1> SUFFICES ASSUME Init PROVE Cuts
    OBVIOUS
  <1>1. <<>> \in Rec /\ Len(<<>>) = 0 /\ <<>> \o <<>> = <<>>
    BY EmptySeq, ConcatEmptySeq DEF Rec
  <1>2. Fit(<<>>, <<>>)
    BY <1>1, CutOfNone, PipelineAssumption DEF Fit
  <1>3. Ahead("webhook") = <<>>
    BY AheadOfNone DEF Init
  <1>4. \A e : e = <<>> => e = e \o (e \o (e \o e))
    BY <1>1
  <1> QED
    BY <1>1, <1>2, <1>3, <1>4 DEF Init, Cuts

LEMMA CutsTypes ==
    ASSUME Shape
    PROVE  /\ accepted \in Rec /\ queue \in Rec /\ batch \in Rec /\ current \in Rec
           /\ Ahead("webhook") \in Rec /\ \A f \in Flushers : inflight[f] \in Rec
           /\ posted \in Seq(Rec) /\ \A i \in 1 .. Len(posted) : posted[i] \in Rec
  <1>1. TypeOK
    BY DEF Shape
  <1>2. Ahead("webhook") \in Rec
    BY <1>1, AheadIsOne DEF Rec
  <1>3. posted \in Seq(Rec)
    BY <1>1 DEF TypeOK, Rec
  <1>4. \A i \in 1 .. Len(posted) : posted[i] \in Rec
    BY <1>3, ElementOfSeq
  <1> QED
    BY <1>1, <1>2, <1>3, <1>4 DEF TypeOK, Rec

LEMMA EmitCuts ==
    ASSUME Shape, Cuts, NEW r \in Records, Emit(r)
    PROVE  Cuts'
  <1>1. /\ UNCHANGED <<consumer, current, at, batch, inflight, posted>>
        /\ \/ UNCHANGED <<queue, accepted>>
           \/ queue' = Append(queue, r) /\ accepted' = Append(accepted, r)
    BY DEF Emit, run, emitters
  <1>2. Ahead("webhook")' = Ahead("webhook")
    BY <1>1, AheadStill
  <1>3. CASE UNCHANGED <<queue, accepted>>
    BY <1>1, <1>2, <1>3 DEF Cuts, Webhook
  <1>4. CASE queue' = Append(queue, r) /\ accepted' = Append(accepted, r)
    <2>1. PICK o \in Rec : queue' = queue \o o /\ accepted' = accepted \o o
      <3>1. <<r>> \in Seq(Records)
        OBVIOUS
      <3> QED
        BY <1>4, <3>1, CutsTypes, AppendIsConcat DEF Rec
    <2>2. \A b \in Rec : Fit(accepted, b) => Fit(accepted', b)
      BY <2>1, CutsTypes, CutGrows DEF Fit
    <2>3. ASSUME Webhook
          PROVE  \E pre \in Rec : accepted' = pre \o (batch \o (Ahead("webhook") \o queue'))
      <3>1. PICK pre \in Rec : accepted = pre \o (batch \o (Ahead("webhook") \o queue))
        BY <2>3 DEF Cuts
      <3>2. PICK b \in Rec, h \in Rec, q \in Rec :
                b = batch /\ h = Ahead("webhook") /\ q = queue
        BY CutsTypes
      <3>3. PICK hq \in Rec, bhq \in Rec : hq = h \o q /\ bhq = b \o hq
        BY ConcatProperties DEF Rec
      <3>4. (pre \o bhq) \o o = pre \o (bhq \o o)
        BY SMTT(20), RecAssociative
      <3>5. (b \o hq) \o o = b \o (hq \o o)
        BY SMTT(20), RecAssociative
      <3>6. (h \o q) \o o = h \o (q \o o)
        BY SMTT(20), RecAssociative
      <3>7. accepted \o o = pre \o (b \o (h \o (q \o o)))
        BY <3>1, <3>2, <3>3, <3>4, <3>5, <3>6
      <3> QED
        BY <2>1, <3>2, <3>7
    <2>4. /\ Fit(accepted', batch) /\ \A f \in Flushers : Fit(accepted', inflight[f])
          /\ \A i \in 1 .. Len(posted) : Fit(accepted', posted[i])
      BY <2>2, CutsTypes DEF Cuts
    <2> QED
      BY <1>1, <1>2, <2>3, <2>4 DEF Cuts, Webhook
  <1> QED
    BY <1>1, <1>3, <1>4

LEMMA DequeueCuts ==
    ASSUME Shape, Cuts, Dequeue
    PROVE  Cuts'
  <1>1. /\ UNCHANGED <<accepted, batch, inflight, posted>>
        /\ queue # <<>> /\ queue' = Tail(queue)
    BY DEF Dequeue, emitters
  <1>2. ASSUME Webhook PROVE Ahead("webhook")' \o queue' = Ahead("webhook") \o queue
    <2>1. queue = <<Head(queue)>> \o Tail(queue) /\ <<>> \o queue = queue
      BY <1>1, CutsTypes, HeadAndTail, ConcatEmptySeq DEF Rec
    <2> QED
      BY <1>1, <1>2, <2>1, AheadDequeued
  <1> QED
    BY <1>1, <1>2 DEF Cuts, Webhook

LEMMA AddToBatchCuts ==
    ASSUME Shape, Shape', Cuts, AddToBatch
    PROVE  Cuts'
  <1>1. /\ UNCHANGED <<accepted, queue, inflight, posted>> /\ batch' = batch \o current
        /\ consumer = "emitting" /\ Outputs[at] = "webhook"
    BY DEF AddToBatch
  <1>2. Webhook /\ Len(batch') <= MaxBatch
    BY <1>1, OutputsAre DEF Shape, Stages, TypeOK
  <1>3. PICK pre \in Rec : accepted = pre \o (batch \o (current \o queue))
    BY <1>2, AheadAdded DEF Cuts
  <1>4. PICK b \in Rec : b = batch \o current
    BY CutsTypes, ConcatProperties DEF Rec
  <1>5. batch \o (current \o queue) = b \o queue /\ <<>> \o queue = queue
    <2>1. PICK x \in Rec, y \in Rec, z \in Rec : x = batch /\ y = current /\ z = queue
      BY CutsTypes
    <2>2. (x \o y) \o z = x \o (y \o z) /\ <<>> \o z = z
      BY RecAssociative, ConcatEmptySeq DEF Rec
    <2> QED
      BY <1>4, <2>1, <2>2
  <1>6. accepted = pre \o (b \o queue)
    BY <1>3, <1>5
  <1>7. Fit(accepted, b)
    BY <1>1, <1>2, <1>4, <1>6, CutsTypes DEF Fit, Cut
  <1> QED
    BY <1>1, <1>4, <1>5, <1>6, <1>7, AheadAdded DEF Cuts

LEMMA TakeCuts ==
    ASSUME Shape, Cuts, NEW f \in Flushers, Take(f),
           UNCHANGED <<accepted, queue, posted>>, Ahead("webhook")' = Ahead("webhook")
    PROVE  Cuts'
  <1>1. /\ batch' = <<>> /\ Len(batch') = 0 /\ inflight'[f] = batch
        /\ \A g \in Flushers \ {f} : inflight'[g] = inflight[g]
    BY TakeTypes
  <1>2. Fit(accepted, <<>>)
    BY <1>1, CutsTypes, CutOfNone, PipelineAssumption DEF Fit
  <1>3. \A g \in Flushers : Fit(accepted, inflight'[g])
    BY <1>1 DEF Cuts
  <1>4. ASSUME Webhook
        PROVE  \E pre \in Rec : accepted = pre \o (<<>> \o (Ahead("webhook") \o queue))
    <2>1. PICK pre \in Rec : accepted = pre \o (batch \o (Ahead("webhook") \o queue))
      BY <1>4 DEF Cuts
    <2>2. PICK b \in Rec, hq \in Rec : b = batch /\ hq = Ahead("webhook") \o queue
      BY CutsTypes, ConcatProperties DEF Rec
    <2>3. PICK head \in Rec : head = pre \o b
      BY ConcatProperties DEF Rec
    <2>4. (pre \o b) \o hq = pre \o (b \o hq) /\ <<>> \o hq = hq
      BY ConcatAssociative, ConcatEmptySeq DEF Rec
    <2>5. accepted = head \o (<<>> \o hq)
      BY <2>1, <2>2, <2>3, <2>4
    <2> QED
      BY <2>2, <2>5
  <1> QED
    BY <1>1, <1>2, <1>3, <1>4 DEF Cuts, Webhook

LEMMA PostCuts ==
    ASSUME Shape, Cuts, NEW f \in Flushers, Post(f),
           UNCHANGED <<accepted, queue, batch>>, Ahead("webhook")' = Ahead("webhook")
    PROVE  Cuts'
  <1>1. inflight'[f] = <<>> /\ \A g \in Flushers \ {f} : inflight'[g] = inflight[g]
    BY PostTypes
  <1>2. Fit(accepted, <<>>)
    <2>1. Len(<<>>) = 0
      BY EmptySeq
    <2> QED
      BY <2>1, CutsTypes, CutOfNone, PipelineAssumption DEF Fit
  <1>3. \A g \in Flushers : Fit(accepted, inflight'[g])
    BY <1>1, <1>2 DEF Cuts
  <1>4. \A i \in 1 .. Len(posted') : Fit(accepted, posted'[i])
    <2>1. CASE posted' = posted
      BY <2>1 DEF Cuts
    <2>2. CASE posted' = Append(posted, inflight[f])
      <3>1. /\ Len(posted') = Len(posted) + 1 /\ posted'[Len(posted) + 1] = inflight[f]
            /\ \A i \in 1 .. Len(posted) : posted'[i] = posted[i]
        BY <2>2, CutsTypes, AppendProperties
      <3>2. Len(posted) \in Nat
        BY CutsTypes, LenProperties
      <3>3. ASSUME NEW i \in 1 .. Len(posted') PROVE Fit(accepted, posted'[i])
        <4>1. CASE i = Len(posted) + 1
          BY <3>1, <4>1 DEF Cuts
        <4>2. CASE i # Len(posted) + 1
          <5>1. i \in 1 .. Len(posted)
            BY <3>1, <3>2, <4>2
          <5> QED
            BY <3>1, <5>1 DEF Cuts
        <4> QED
          BY <4>1, <4>2
      <3> QED
        BY <3>3
    <2> QED
      BY <2>1, <2>2 DEF Post
  <1> QED
    BY <1>3, <1>4 DEF Cuts, Webhook

LEMMA CutsStep == Shape /\ Cuts /\ [Next]_vars => Cuts'
  <1> SUFFICES ASSUME Shape, Cuts, [Next]_vars PROVE Cuts'
    OBVIOUS
  <1>1. Shape'
    BY ShapeStep
  <1>2. CASE Effect
    <2>1. UNCHANGED <<accepted, queue>> /\ Ahead("webhook")' = Ahead("webhook")
      BY <1>2 DEF Effect
    <2>2. CASE UNCHANGED <<batch, inflight, posted>>
      BY <2>1, <2>2 DEF Cuts, Webhook
    <2> QED
      BY <1>2, <2>1, <2>2, TakeCuts, PostCuts DEF Effect
  <1> QED
    BY <1>1, <1>2, Effects, EmitCuts, DequeueCuts, AddToBatchCuts

-----------------------------------------------------------------------------
(* The theorems.                                                           *)

IInv == Shape /\ LogInOrder /\ Placed /\ Cuts

LEMMA IInvHolds == Spec => []IInv
  <1>1. Init => IInv
    BY ShapeInit, LogInit, PlacedInit, CutsInit DEF IInv
  <1>2. IInv /\ [Next]_vars => IInv'
    BY ShapeStep, LogStep, PlacedStep, CutsStep DEF IInv
  <1> QED
    BY <1>1, <1>2, PTL DEF Spec

\* Every variable of the pipeline has its type; the channel and the batch keep
\* to their sizes (Pipeline.Emit, WebhookEmitter.Emit).
THEOREM PipelineTyping == Spec => []TypeOK
  <1>1. IInv => TypeOK
    BY DEF IInv, Shape
  <1> QED
    BY <1>1, IInvHolds, PTL

\* The log is the accepted records in their order, wherever the file comes
\* among the emitters (Pipeline.run, FileEmitter.Emit).
THEOREM TheLogIsInOrder == Spec => []LogInOrder
  <1>1. IInv => LogInOrder
    BY DEF IInv
  <1> QED
    BY <1>1, IInvHolds, PTL

\* A record is in one place only and lost only with a POST that failed
\* (WebhookEmitter.Emit, Flush, flushLoop, Pipeline.Close).
THEOREM RecordsAreAccounted == Spec => []Accounted
  <1>1. IInv => Accounted
    <2> SUFFICES ASSUME IInv, Webhook
                 PROVE  /\ Elems(accepted) = failed \cup All(Places)
                        /\ Apart(Places, failed)
                        /\ \A i \in DOMAIN Places : Cardinality(Elems(Places[i])) = Len(Places[i])
      BY DEF Accounted, Apart, All
    <2>1. Apart(Places, failed) /\ Elems(accepted) = failed \cup All(Places)
      BY DEF IInv, Placed
    <2>2. PlacesFacts
      BY PlacesAre DEF IInv, Shape
    <2>3. ASSUME NEW i \in DOMAIN Places PROVE Cardinality(Elems(Places[i])) = Len(Places[i])
      <3>1. Places[i] \in Seq(Records)
        BY <2>2, ElementOfSeq, LenProperties DEF PlacesFacts
      <3>2. Inj(Places[i])
        BY <2>1 DEF Apart
      <3> QED
        BY <3>1, <3>2, InjCounts
    <2> QED
      BY <2>1, <2>3
  <1> QED
    BY <1>1, IInvHolds, PTL

\* A batch is a stretch of the accepted records of no more than max_size
\* (WebhookEmitter.Emit, Flush).
THEOREM BatchesAreCut == Spec => []BatchesAreStretches
  <1>1. IInv => BatchesAreStretches
    <2> SUFFICES ASSUME IInv, NEW i \in 3 .. Len(Places)
                 PROVE  Stretch(Places[i]) /\ Len(Places[i]) <= MaxBatch
      BY DEF BatchesAreStretches
    <2>1. Shape /\ Cuts
      BY DEF IInv
    <2>2. PlacesFacts
      BY <2>1, PlacesAre DEF Shape
    <2>3. i \in DOMAIN Places /\ i # 1 /\ i # 2
      BY <2>2, LenProperties DEF PlacesFacts
    <2>4. Fit(accepted, Places[i])
      BY <2>1, <2>2, <2>3, EachPlace DEF PlacesFacts, Cuts
    <2>5. Places[i] \in Rec /\ accepted \in Rec
      BY <2>1, <2>2, <2>3, CutsTypes, ElementOfSeq, LenProperties DEF PlacesFacts, Rec
    <2> QED
      BY <2>4, <2>5, CutIsAStretch DEF Fit, Stretch
  <1> QED
    BY <1>1, IInvHolds, PTL

\* When Close has returned every accepted record is in the log, and posted,
\* lost with a failed POST, or with the ticker's goroutine (Pipeline.Close).
THEOREM CloseKeepsEverything == Spec => []CloseKeepsAll
  <1>1. IInv => CloseKeepsAll
    <2> SUFFICES ASSUME IInv, main = "exited"
                 PROVE  /\ "file" \in Elems(Outputs) => file = accepted
                        /\ Webhook => Elems(accepted) = failed \cup Elems(inflight["ticker"])
                                          \cup UNION {Elems(posted[i]) : i \in DOMAIN posted}
      BY DEF CloseKeepsAll
    <2>1. Shape /\ LogInOrder /\ Placed
      BY DEF IInv
    <2>2. /\ queue = <<>> /\ current = <<>> /\ (Webhook => batch = <<>>)
          /\ inflight["consumer"] = <<>> /\ inflight["main"] = <<>>
      BY <2>1 DEF Shape, Stages
    <2>3. Ahead("file") = <<>> /\ Ahead("webhook") = <<>>
      BY <2>2, AheadOfNone
    <2>4. file \o <<>> = file
      BY <2>1, ConcatEmptySeq DEF Shape, TypeOK
    <2>5. "file" \in Elems(Outputs) => file = accepted
      BY <2>1, <2>2, <2>3, <2>4 DEF LogInOrder
    <2>6. PlacesFacts
      BY <2>1, PlacesAre DEF Shape
    <2>7. DOMAIN posted = 1 .. Len(posted)
      BY <2>1, LenProperties DEF Shape, TypeOK
    <2>8. ASSUME Webhook
          PROVE  All(Places) = Elems(inflight["ticker"])
                               \cup UNION {Elems(posted[i]) : i \in DOMAIN posted}
      <3>1. ASSUME NEW i \in DOMAIN Places
            PROVE  \/ Elems(Places[i]) = {} \/ Places[i] = inflight["ticker"]
                   \/ \E k \in DOMAIN posted : Places[i] = posted[k]
        <4>1. CASE i = 1 \/ i = 2 \/ i = 3
          BY <2>2, <2>3, <2>6, <2>8, <4>1, ElemsEmpty DEF PlacesFacts
        <4>2. CASE \E f \in Flushers : i = Slot(f)
          BY <2>2, <2>6, <4>2, ElemsEmpty DEF PlacesFacts, Flushers
        <4>3. CASE i - 6 \in 1 .. Len(posted) /\ i = 6 + (i - 6)
          BY <2>6, <2>7, <4>3 DEF PlacesFacts
        <4> QED
          BY <2>6, <4>1, <4>2, <4>3, EachPlace
      <3>2. \E i \in DOMAIN Places : Places[i] = inflight["ticker"]
        <4>1. Slot("ticker") = 5 /\ 5 \in DOMAIN Places
          BY <2>6 DEF Slot, PlacesFacts
        <4> QED
          BY <2>6, <4>1 DEF PlacesFacts, Flushers
      <3>3. ASSUME NEW k \in DOMAIN posted
            PROVE  \E i \in DOMAIN Places : Places[i] = posted[k]
        <4>1. 6 + k \in DOMAIN Places
          BY <2>6, <2>7 DEF PlacesFacts
        <4> QED
          BY <2>6, <2>7, <4>1 DEF PlacesFacts
      <3> QED
        BY <3>1, <3>2, <3>3 DEF All
    <2> QED
      BY <2>1, <2>5, <2>8 DEF Placed
  <1> QED
    BY <1>1, IInvHolds, PTL
=============================================================================
