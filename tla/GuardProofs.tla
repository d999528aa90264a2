---------------------------- MODULE GuardProofs -----------------------------
(***************************************************************************)
(* Theorems about Guard, for every set of calls, every transport and every *)
(* collection of policy documents.                                         *)
(***************************************************************************)
EXTENDS Guard, SequenceTheorems, FiniteSetTheorems, TLAPS

(***************************************************************************)
(* Plans: sequences with one decisive effect among records and alerts.     *)
(***************************************************************************)

\* One effect is a plan by itself.
LEMMA SingleEffect ==
    ASSUME NEW e \in Effects
    PROVE  /\ OneOf(e.op, <<e>>)
           /\ e.op \in Quiet => QuietSeq(<<e>>)
  <1>1. <<e>> \in Seq(Effects) /\ DOMAIN <<e>> = {1} /\ <<e>>[1] = e
    OBVIOUS
  <1> HIDE DEF Effects
  <1> QED BY <1>1 DEF OneOf, QuietSeq

\* Records and alerts may be put before or after a plan.
LEMMA QuietAround ==
    ASSUME NEW op, NEW p, NEW q, OneOf(op, p), QuietSeq(q)
    PROVE  OneOf(op, p \o q) /\ OneOf(op, q \o p)
  <1>1. p \in Seq(Effects) /\ q \in Seq(Effects)
    BY DEF OneOf, QuietSeq
  <1>2. PICK k \in DOMAIN p : /\ p[k].op = op
                              /\ \A i \in (DOMAIN p) \ {k} : p[i].op \in Quiet
    BY DEF OneOf
  <1>3. \A i \in DOMAIN q : q[i].op \in Quiet
    BY DEF QuietSeq
  <1>4. /\ DOMAIN p = 1 .. Len(p) /\ Len(p) \in Nat
        /\ DOMAIN q = 1 .. Len(q) /\ Len(q) \in Nat
    BY <1>1, LenProperties
  <1> HIDE DEF Effects
  <1>5. OneOf(op, p \o q)
    <2>1. /\ p \o q \in Seq(Effects) /\ Len(p \o q) = Len(p) + Len(q)
          /\ \A i \in 1 .. Len(p) + Len(q) :
                (p \o q)[i] = IF i <= Len(p) THEN p[i] ELSE q[i - Len(p)]
      BY <1>1, ConcatProperties
    <2>2. DOMAIN (p \o q) = 1 .. Len(p) + Len(q)
      BY <2>1, LenProperties
    <2>3. k \in DOMAIN (p \o q) /\ (p \o q)[k].op = op
      BY <1>2, <1>4, <2>1, <2>2
    <2>4. ASSUME NEW i \in (DOMAIN (p \o q)) \ {k}
          PROVE  (p \o q)[i].op \in Quiet
      <3>1. CASE i <= Len(p) BY <3>1, <1>2, <1>4, <2>1, <2>2
      <3>2. CASE ~ (i <= Len(p))
        <4>1. i - Len(p) \in DOMAIN q BY <3>2, <1>4, <2>2
        <4> QED BY <4>1, <3>2, <1>3, <1>4, <2>1, <2>2
      <3> QED BY <3>1, <3>2
    <2> QED BY <2>1, <2>3, <2>4 DEF OneOf
  <1>6. OneOf(op, q \o p)
    <2>1. /\ q \o p \in Seq(Effects) /\ Len(q \o p) = Len(q) + Len(p)
          /\ \A i \in 1 .. Len(q) + Len(p) :
                (q \o p)[i] = IF i <= Len(q) THEN q[i] ELSE p[i - Len(q)]
      BY <1>1, ConcatProperties
    <2>2. DOMAIN (q \o p) = 1 .. Len(q) + Len(p)
      BY <2>1, LenProperties
    <2> DEFINE m == Len(q) + k
    <2>3. m \in DOMAIN (q \o p) /\ (q \o p)[m].op = op
      <3>1. m \in 1 .. Len(q) + Len(p) /\ ~ (m <= Len(q)) /\ m - Len(q) = k
        BY <1>2, <1>4
      <3> QED BY <3>1, <1>2, <2>1, <2>2
    <2>4. ASSUME NEW i \in (DOMAIN (q \o p)) \ {m}
          PROVE  (q \o p)[i].op \in Quiet
      <3>1. CASE i <= Len(q) BY <3>1, <1>3, <1>4, <2>1, <2>2
      <3>2. CASE ~ (i <= Len(q))
        <4>1. i - Len(q) \in (DOMAIN p) \ {k} BY <3>2, <1>4, <2>2
        <4> QED BY <4>1, <3>2, <1>2, <1>4, <2>1, <2>2
      <3> QED BY <3>1, <3>2
    <2> QED BY <2>1, <2>3, <2>4 DEF OneOf
  <1> QED BY <1>5, <1>6

\* Performing the first effect of a plan leaves the plan, if that effect was
\* a record or an alert, and otherwise only records and alerts.
LEMMA TailOfPlan ==
    ASSUME NEW op \in {"forward", "reply", "ask"}, NEW p, OneOf(op, p)
    PROVE  /\ p # <<>>
           /\ Head(p).op \in Quiet => OneOf(op, Tail(p))
           /\ Head(p).op \notin Quiet => Head(p).op = op /\ QuietSeq(Tail(p))
  <1>1. p \in Seq(Effects) BY DEF OneOf
  <1>2. PICK k \in DOMAIN p : /\ p[k].op = op
                              /\ \A i \in (DOMAIN p) \ {k} : p[i].op \in Quiet
    BY DEF OneOf
  <1>3. DOMAIN p = 1 .. Len(p) /\ Len(p) \in Nat
    BY <1>1, LenProperties
  <1> HIDE DEF Effects
  <1>4. p # <<>> BY <1>1, <1>2, <1>3, EmptySeq
  <1>5. /\ Tail(p) \in Seq(Effects) /\ Len(Tail(p)) = Len(p) - 1
        /\ \A i \in 1 .. Len(Tail(p)) : Tail(p)[i] = p[i + 1]
    BY <1>1, <1>4, HeadTailProperties
  <1>6. DOMAIN Tail(p) = 1 .. Len(p) - 1
    BY <1>5, LenProperties
  <1>7. Head(p) = p[1] /\ 1 \in DOMAIN p
    BY <1>1, <1>2, <1>3, <1>4
  <1>8. ASSUME Head(p).op \in Quiet PROVE OneOf(op, Tail(p))
    <2>1. k # 1 BY <1>2, <1>7, <1>8 DEF Quiet
    <2>2. k - 1 \in DOMAIN Tail(p) /\ Tail(p)[k - 1] = p[k]
      BY <2>1, <1>2, <1>3, <1>5, <1>6
    <2>3. ASSUME NEW i \in (DOMAIN Tail(p)) \ {k - 1} PROVE Tail(p)[i].op \in Quiet
      <3>1. i + 1 \in (DOMAIN p) \ {k} BY <1>2, <1>3, <1>6
      <3> QED BY <3>1, <1>2, <1>5, <1>6
    <2> QED BY <1>2, <1>5, <2>2, <2>3 DEF OneOf
  <1>9. ASSUME Head(p).op \notin Quiet PROVE Head(p).op = op /\ QuietSeq(Tail(p))
    <2>1. k = 1 BY <1>2, <1>7, <1>9
    <2>2. ASSUME NEW i \in DOMAIN Tail(p) PROVE Tail(p)[i].op \in Quiet
      <3>1. i + 1 \in (DOMAIN p) \ {k} BY <2>1, <1>3, <1>6
      <3> QED BY <3>1, <1>2, <1>5, <1>6
    <2> QED BY <1>2, <1>5, <1>7, <2>1, <2>2 DEF QuietSeq
  <1> QED BY <1>4, <1>8, <1>9

\* A plan of records and alerts stays one as it is performed.
LEMMA TailOfQuiet ==
    ASSUME NEW p, QuietSeq(p), p # <<>>
    PROVE  Head(p).op \in Quiet /\ QuietSeq(Tail(p))
  <1>1. p \in Seq(Effects) BY DEF QuietSeq
  <1>2. DOMAIN p = 1 .. Len(p) /\ Len(p) \in Nat
    BY <1>1, LenProperties
  <1> HIDE DEF Effects
  <1>3. /\ Tail(p) \in Seq(Effects) /\ Len(Tail(p)) = Len(p) - 1
        /\ \A i \in 1 .. Len(Tail(p)) : Tail(p)[i] = p[i + 1]
    BY <1>1, HeadTailProperties
  <1>4. DOMAIN Tail(p) = 1 .. Len(p) - 1 BY <1>3, LenProperties
  <1>5. Head(p) = p[1] /\ 1 \in DOMAIN p
    BY <1>1, <1>2
  <1>6. ASSUME NEW i \in DOMAIN Tail(p) PROVE Tail(p)[i].op \in Quiet
    <2>1. i + 1 \in DOMAIN p BY <1>2, <1>4
    <2> QED BY <2>1, <1>3, <1>4 DEF QuietSeq
  <1> QED BY <1>3, <1>5, <1>6 DEF QuietSeq

\* Two effects one after the other.
LEMMA ConcatTwo ==
    ASSUME NEW a \in Effects, NEW b \in Effects
    PROVE  <<a>> \o <<b>> = <<a, b>>
  <1> DEFINE s == <<a>> \o <<b>>
             t == <<a, b>>
  <1> HIDE DEF Effects
  <1>1. <<a>> \in Seq(Effects) /\ <<b>> \in Seq(Effects) /\ t \in Seq(Effects)
    OBVIOUS
  <1>2. Len(<<a>>) = 1 /\ Len(<<b>>) = 1 /\ Len(t) = 2
    OBVIOUS
  <1>3. /\ s \in Seq(Effects) /\ Len(s) = 2
        /\ \A i \in 1 .. 2 : s[i] = IF i <= 1 THEN <<a>>[i] ELSE <<b>>[i - 1]
    BY <1>1, <1>2, ConcatProperties
  <1>4. \A i \in 1 .. 2 : s[i] = t[i]
    BY <1>3
  <1> QED BY <1>1, <1>2, <1>3, <1>4, SeqEqual

\* Optional alerts and records are quiet.
LEMMA OptionalIsQuiet ==
    /\ \A ch \in AlertChannels \cup {Nil} : QuietSeq(AlertOn(ch))
    /\ \A flag \in BOOLEAN, what \in Records : QuietSeq(RecordIf(flag, what))
  <1>1. QuietSeq(<<>>)
    BY EmptySeq DEF QuietSeq
  <1>2. \A ch \in AlertChannels : QuietSeq(<<Alert(ch)>>)
    BY SingleEffect DEF Alert, Effects, Quiet
  <1>3. \A what \in Records : QuietSeq(<<Record(what)>>)
    BY SingleEffect DEF Record, Effects, Quiet
  <1> QED BY <1>1, <1>2, <1>3 DEF AlertOn, RecordIf

\* The plans the three transports are made of.
LEMMA ForwardPlan ==
    ASSUME NEW body \in Bodies, NEW flag \in BOOLEAN, NEW what \in Records
    PROVE  /\ OneOf("forward", <<Forward(body)>>)
           /\ OneOf("forward", <<Forward(body)>> \o RecordIf(flag, what))
           /\ OneOf("forward", <<Forward(body), Record(what)>>)
  <1>1. OneOf("forward", <<Forward(body)>>)
    BY SingleEffect DEF Forward, Effects
  <1>2. OneOf("forward", <<Forward(body)>> \o RecordIf(flag, what))
    BY <1>1, OptionalIsQuiet, QuietAround
  <1>3. OneOf("forward", <<Forward(body)>> \o RecordIf(TRUE, what))
    BY <1>1, OptionalIsQuiet, QuietAround
  <1>4. <<Forward(body)>> \o RecordIf(TRUE, what) = <<Forward(body), Record(what)>>
    BY ConcatTwo DEF RecordIf, Forward, Record, Effects
  <1> QED BY <1>1, <1>2, <1>3, <1>4

\* A refusal, with the records and alerts put around it.
LEMMA ReplyPlan ==
    ASSUME NEW code \in Refusals, NEW flag \in BOOLEAN, NEW what \in Records,
           NEW ch \in AlertChannels \cup {Nil}
    PROVE  /\ OneOf("reply", <<Reply(code)>>)
           /\ OneOf("reply", <<Reply(code)>> \o RecordIf(flag, what))
           /\ OneOf("reply", <<Reply(code), Record(what)>>)
           /\ OneOf("reply", <<Reply(code), Record(what)>> \o AlertOn(ch))
  <1>1. OneOf("reply", <<Reply(code)>>)
    BY SingleEffect DEF Reply, Effects
  <1>2. OneOf("reply", <<Reply(code)>> \o RecordIf(flag, what))
    BY <1>1, OptionalIsQuiet, QuietAround
  <1>3. OneOf("reply", <<Reply(code)>> \o RecordIf(TRUE, what))
    BY <1>1, OptionalIsQuiet, QuietAround
  <1>4. <<Reply(code)>> \o RecordIf(TRUE, what) = <<Reply(code), Record(what)>>
    BY ConcatTwo DEF RecordIf, Reply, Record, Effects
  <1>5. OneOf("reply", <<Reply(code), Record(what)>>)
    BY <1>3, <1>4
  <1>6. OneOf("reply", <<Reply(code), Record(what)>> \o AlertOn(ch))
    BY <1>5, OptionalIsQuiet, QuietAround
  <1> QED BY <1>1, <1>2, <1>5, <1>6

\* A question to an approver is a plan by itself.
LEMMA AskPlan ==
    ASSUME NEW ch \in Channels
    PROVE  OneOf("ask", <<Ask(ch)>>)
  BY SingleEffect DEF Ask, Effects

\* A rate limit or a blocking filter only ever refuses.
LEMMA LimitedOrBlockedRefuses ==
    ASSUME NEW md \in Modes
    PROVE  /\ \A limit \in Limit : OneOf("reply", OnLimited(md, limit))
           /\ \A filter \in Filter : OneOf("reply", OnBlocked(md, filter))
  <1>1. /\ {"rate_limited", "content_blocked"} \subseteq Refusals \cap Records
        /\ \A limit \in Limit : limit.escalate \in AlertChannels \cup {Nil}
        /\ \A filter \in Filter : filter.escalate \in AlertChannels \cup {Nil}
    BY DEF Refusals, Records, Limit, Filter
  <1>2. ASSUME NEW limit \in Limit PROVE OneOf("reply", OnLimited(md, limit))
    <2>1. /\ OneOf("reply", <<Reply("rate_limited"), Record("rate_limited")>>)
          /\ OneOf("reply", <<Reply("rate_limited"), Record("rate_limited")>>
                            \o AlertOn(limit.escalate))
      BY <1>1, ReplyPlan
    <2> QED BY <2>1 DEF OnLimited, StdioLimited, HttpLimited, BridgeLimited, Modes
  <1>3. ASSUME NEW filter \in Filter PROVE OneOf("reply", OnBlocked(md, filter))
    <2>1. /\ OneOf("reply", <<Reply("content_blocked")>>)
          /\ OneOf("reply", <<Reply("content_blocked"), Record("content_blocked")>>)
          /\ OneOf("reply", <<Reply("content_blocked"), Record("content_blocked")>>
                            \o AlertOn(filter.escalate))
      BY <1>1, ReplyPlan
    <2> QED BY <2>1 DEF OnBlocked, StdioBlocked, HttpBlocked, BridgeBlocked, Modes
  <1> QED BY <1>2, <1>3

\* What a decision makes a handler do: a denial refuses, an approval asks or
\* refuses, and anything else forwards.
LEMMA DecidedPlan ==
    ASSUME NEW md \in Modes, NEW r \in EvalResult, NEW content
    PROVE  LET plan == OnDecided(md, r, content) IN
           /\ r.decision = "deny" => OneOf("reply", plan)
           /\ r.decision = "require_approval" => OneOf("reply", plan) \/ OneOf("ask", plan)
           /\ r.decision \notin {"deny", "require_approval"} => OneOf("forward", plan)
  <1> DEFINE alert == IF r.rule = Nil THEN <<>> ELSE AlertOn(r.rule.escalate)
             act == CASE md = "stdio" -> StdioDecided(r, content)
                      [] md = "http" -> HttpDecided(r, content)
                      [] md = "bridge" -> BridgeDecided(r, content)
  <1>1. /\ r.decision \in Decision /\ r.audit \in BOOLEAN
        /\ r.rule # Nil => r.rule \in Rule
    BY DEF EvalResult
  <1>2. QuietSeq(alert)
    <2>1. r.rule # Nil => r.rule.escalate \in AlertChannels \cup {Nil}
      BY <1>1 DEF Rule
    <2>2. QuietSeq(<<>>) BY EmptySeq DEF QuietSeq
    <2> QED BY <2>1, <2>2, OptionalIsQuiet
  <1>3. r.decision = "deny" => OneOf("reply", act)
    <2>1. OneOf("reply", <<Reply("denied")>> \o RecordIf(r.audit, "deny"))
      BY <1>1, ReplyPlan DEF Refusals, Records, Decision, RuleActions
    <2> QED BY <2>1 DEF Modes, StdioDecided, HttpDecided, BridgeDecided
  <1>4. r.decision = "require_approval" => OneOf("reply", act) \/ OneOf("ask", act)
    <2>1. OneOf("reply", <<Reply("no_channel")>>)
      <3>1. "no_channel" \in Refusals /\ "deny" \in Records /\ Nil \in AlertChannels \cup {Nil}
        BY DEF Refusals, Records, Decision, RuleActions
      <3> QED BY <3>1, <1>1, ReplyPlan
    <2>2. r.rule # Nil /\ r.rule.approval # Nil => OneOf("ask", <<Ask(r.rule.approval)>>)
      BY <1>1, AskPlan DEF Rule
    <2> QED BY <2>1, <2>2 DEF Modes, StdioDecided, HttpDecided, BridgeDecided,
                              StdioApproval, HttpApproval, BridgeApproval
  <1>5. r.decision \notin {"deny", "require_approval"} => OneOf("forward", act)
    <2>1. /\ OneOf("forward", <<Forward("original")>>)
          /\ OneOf("forward", <<Forward("mutated")>>)
          /\ OneOf("forward", <<Forward("mutated")>> \o RecordIf(r.audit, "mutated"))
          /\ OneOf("forward", <<Forward("original")>> \o RecordIf(r.audit, r.decision))
      <3>1. {"original", "mutated"} \subseteq Bodies /\ {"mutated", r.decision} \subseteq Records
        BY <1>1 DEF Bodies, Records
      <3> QED BY <3>1, <1>1, ForwardPlan
    <2>2. r.decision \in {"allow", "audit_only", "mutate", "deny", "require_approval"}
      BY <1>1 DEF Decision, RuleActions
    <2>3. CASE r.decision \in {"allow", "audit_only"}
      BY <2>1, <2>3 DEF Modes, StdioDecided, HttpDecided, BridgeDecided
    <2>4. CASE r.decision = "mutate"
      BY <2>1, <2>4 DEF Modes, StdioDecided, HttpDecided, BridgeDecided,
                        StdioMutation, HttpMutation
    <2> QED BY <2>2, <2>3, <2>4
  <1>6. \A op : OneOf(op, act) => OneOf(op, alert \o act)
    BY <1>2, QuietAround
  <1>7. OnDecided(md, r, content) = alert \o act
    BY DEF OnDecided
  <1> HIDE DEF alert, act
  <1> QED BY <1>3, <1>4, <1>5, <1>6, <1>7

\* The end of an approval: consent forwards, anything else refuses.
LEMMA SettledPlan ==
    ASSUME NEW md \in Modes, NEW how
    PROVE  IF how = "approved" THEN OneOf("forward", OnSettled(md, how))
           ELSE OneOf("reply", OnSettled(md, how))
  <1>1. /\ OneOf("forward", <<Forward("original")>>)
        /\ OneOf("forward", <<Forward("original"), Record("approved")>>)
    BY ForwardPlan DEF Bodies, Records
  <1>2. /\ OneOf("reply", <<Reply("rejected")>>)
        /\ OneOf("reply", <<Reply("rejected"), Record("rejected")>>)
    BY ReplyPlan DEF Refusals, Records
  <1> QED BY <1>1, <1>2 DEF OnSettled, StdioSettled, HttpSettled, BridgeSettled, Modes

(***************************************************************************)
(* Type correctness.                                                       *)
(***************************************************************************)

\* The engine decides every call with a well-formed result.
LEMMA EvaluateType ==
    ASSUME NEW e \in EngineState, NEW open, NEW tool, NEW agent, NEW content
    PROVE  Evaluate(e, open, tool, agent, content) \in EvalResult
  <1> DEFINE first == FirstMatch(e.rules, open, tool, agent, content)
  <1>1. e.rules \in Seq(Rule) /\ e.defaults \in EffectiveDefault
    BY DEF EngineState
  <1>2. CASE first = {}
    <2>1. ResultFromDefaults(e.defaults) \in EvalResult
      BY <1>1 DEF ResultFromDefaults, EvalResult, EffectiveDefault, Decision, RuleActions
    <2> QED BY <1>2, <2>1 DEF Evaluate
  <1>3. CASE first # {}
    <2> DEFINE i == CHOOSE j \in first : TRUE
    <2>1. i \in first BY <1>3
    <2>2. i \in DOMAIN e.rules BY <2>1 DEF FirstMatch
    <2>3. e.rules[i] \in Rule BY <1>1, <2>2, ElementOfSeq, LenProperties
    <2>4. ResultFromRule(e.rules[i], e.defaults) \in EvalResult
      <3> HIDE DEF i
      <3> QED BY <1>1, <2>3 DEF ResultFromRule, EvalResult, EffectiveDefault,
                                Decision, RuleActions, Rule, Flag
    <2> QED BY <1>3, <2>4 DEF Evaluate
  <1> QED BY <1>2, <1>3

\* A loaded document makes a well-formed engine, at startup and on reload.
LEMMA EngineType ==
    ASSUME NEW file \in PolicyFile
    PROVE  StartEngine(file) \in EngineState /\ ReloadedEngine(file) \in EngineState
  <1>1. file.rules \in Seq(Rule) /\ file.card \in Card \cup {Nil}
    BY DEF PolicyFile
  <1>2. EffectiveDefaults(file) \in EffectiveDefault
    BY DEF PolicyFile, Defaults, EffectiveDefaults, EffectiveDefault
  <1>3. ASSUME NEW pattern \in SUBSET Tools, NEW oversight
        PROVE  CardRule(pattern, oversight) \in Rule
    BY TerminalAssumption DEF CardRule, Rule, RuleActions, Flag, Content
  <1>4. ASSUME NEW card \in Card PROVE DeriveRules(card) \in Seq(Rule)
    <2>1. card.approved \in Seq(SUBSET Tools) BY DEF Card
    <2>2. /\ DOMAIN card.approved = 1 .. Len(card.approved) /\ Len(card.approved) \in Nat
          /\ \A i \in DOMAIN card.approved : card.approved[i] \in SUBSET Tools
      BY <2>1, LenProperties
    <2>3. DeriveRules(card) \in [1 .. Len(card.approved) -> Rule]
      <3> HIDE DEF Rule, CardRule
      <3> QED BY <2>2, <1>3 DEF DeriveRules
    <2> QED BY <2>2, <2>3, SeqDef
  <1>5. file.card # Nil => MergeRules(file.rules, DeriveRules(file.card)) \in Seq(Rule)
    BY <1>1, <1>4, ConcatProperties DEF MergeRules
  <1> QED BY <1>1, <1>2, <1>5 DEF StartEngine, ReloadedEngine, EngineState

\* The argument of an effect is of the kind its operation takes.
LEMMA EffectArgument ==
    ASSUME NEW e \in Effects
    PROVE  /\ e.op = "forward" => e.as \in Bodies
           /\ e.op = "reply" => e.as \in Refusals
           /\ e.op = "record" => e.as \in Records
           /\ e.op = "alert" => e.as \in AlertChannels
           /\ e.op \in {"forward", "reply", "record", "alert", "ask"}
  BY DEF Effects

\* What a handler does next is an effect, and what it leaves a plan.
LEMMA NextEffect ==
    ASSUME TypeOK, NEW c \in Calls, todo[c] # <<>>
    PROVE  Head(todo[c]) \in Effects /\ Tail(todo[c]) \in Seq(Effects)
  <1> HIDE DEF Effects
  <1> QED BY HeadTailProperties DEF TypeOK, Types

\* The limits of the startup document are well-formed, and their capacities
\* are counts of requests.
LEMMA LimitsType ==
    ASSUME boot \in PolicyFile
    PROVE  \A i \in DOMAIN boot.limits : boot.limits[i] \in Limit /\ Full(i) \in Nat
  <1>1. boot.limits \in Seq(Limit) BY DEF PolicyFile
  <1>2. \A i \in DOMAIN boot.limits : boot.limits[i] \in Limit
    BY <1>1, ElementOfSeq, LenProperties
  <1> QED BY <1>2 DEF Limit, Full

\* Charging a message keeps every bucket between empty and full.
LEMMA ChargeType ==
    ASSUME TypeOK, NEW m \in Message, NEW level \in Levels(m)
    PROVE  /\ Charge(m, level) \in [LimitKeys(boot) -> Nat]
           /\ \A k \in LimitKeys(boot) : Charge(m, level)[k] <= Full(k[1])
  <1>1. \A k \in LimitKeys(boot) : budget[k] \in Nat /\ budget[k] <= Full(k[1])
    BY DEF TypeOK, Types, Full
  <1>2. \A i \in Applying(m) : i \in DOMAIN boot.limits /\ boot.limits[i] \in Limit
                               /\ Full(i) \in Nat
    BY LimitsType DEF TypeOK, Types, Applying
  <1>3. \A i \in Applying(m) : BucketKey(i, m) \in LimitKeys(boot) /\ BucketKey(i, m)[1] = i
    BY <1>2 DEF BucketKey, KeyValue, LimitKeys, Limit, Message
  <1>4. \A i \in Applying(m) : level[i] \in Nat /\ level[i] <= Full(i)
    <2>1. level \in [Applying(m) -> UNION {0 .. Full(i) : i \in Applying(m)}]
      BY DEF Levels
    <2>2. UNION {0 .. Full(i) : i \in Applying(m)} \subseteq Nat
      BY <1>2
    <2>3. \A i \in Applying(m) : level[i] <= Full(i)
      BY DEF Levels
    <2> QED BY <2>1, <2>2, <2>3
  <1>5. DOMAIN budget = LimitKeys(boot)
    BY DEF TypeOK, Types
  <1>6. ASSUME NEW k \in LimitKeys(boot)
        PROVE  Charge(m, level)[k] \in Nat /\ Charge(m, level)[k] <= Full(k[1])
    <2>1. CASE \E i \in Visited(m, level) : k = BucketKey(i, m)
      <3>1. k[1] \in Applying(m)
        BY <2>1, <1>3 DEF Visited
      <3>2. Charge(m, level)[k] = IF level[k[1]] = 0 THEN 0 ELSE level[k[1]] - 1
        BY <2>1, <1>5 DEF Charge
      <3> QED BY <3>1, <3>2, <1>2, <1>4
    <2>2. CASE ~ \E i \in Visited(m, level) : k = BucketKey(i, m)
      BY <2>2, <1>1, <1>5 DEF Charge
    <2> QED BY <2>1, <2>2
  <1> QED BY <1>5, <1>6 DEF Charge

\* The state is well-typed, and a handler at work has its message and, while
\* it waits for an approver or a server, the effect it waits for.
THEOREM Typing == Spec => []TypeOK
  <1>1. Init => TypeOK
    <2> SUFFICES ASSUME Init PROVE TypeOK
      OBVIOUS
    <2>1. mode \in Modes /\ boot \in PolicyFile
      BY GuardAssumption DEF Init
    <2>2. eng \in EngineState
      BY <2>1, EngineType DEF Init
    <2>3. /\ budget \in [LimitKeys(boot) -> Nat]
          /\ \A k \in LimitKeys(boot) : budget[k] <= boot.limits[k[1]].requests
      <3>1. boot.limits \in Seq(Limit) BY <2>1 DEF PolicyFile
      <3>2. \A i \in DOMAIN boot.limits : boot.limits[i].requests \in Nat
        <4>1. \A i \in DOMAIN boot.limits : boot.limits[i] \in Limit
          BY <3>1, ElementOfSeq, LenProperties
        <4> QED BY <4>1 DEF Limit
      <3>3. \A k \in LimitKeys(boot) : k[1] \in DOMAIN boot.limits
        BY DEF LimitKeys
      <3>4. budget = FullBudget(boot) BY DEF Init
      <3> QED BY <3>2, <3>3, <3>4 DEF FullBudget
    <2>4. <<>> \in Seq(Effects) /\ <<>> \in Seq(Bodies) /\ <<>> \in Seq(Answers)
          /\ <<>> \in Seq(Records)
      BY EmptySeq
    <2> QED BY <2>1, <2>2, <2>3, <2>4 DEF Init, TypeOK, Types, WellPlaced, Stages
  <1>2. TypeOK /\ [Next]_vars => Types'
    <2> SUFFICES ASSUME TypeOK, [Next]_vars PROVE Types'
      OBVIOUS
    <2> USE DEF TypeOK, Types
    <2>1. ASSUME NEW c \in Calls, NEW m \in Messages, Receive(c, m) PROVE Types'
      <3>1. Verbatim \in Seq(Effects)
        BY ForwardPlan DEF Verbatim, OneOf, Bodies, Records
      <3> QED BY <2>1, <3>1 DEF Receive, fixed, shared, world, Stages
    <2>2. ASSUME NEW c \in Calls, CheckLimits(c) PROVE Types'
      <3> DEFINE m == request[c]
      <3>1. m \in Message
        BY <2>2, GuardAssumption DEF CheckLimits, WellPlaced
      <3>2. PICK level \in Levels(m) :
              /\ budget' = Charge(m, level)
              /\ IF Short(m, level) = {}
                 THEN stage' = [stage EXCEPT ![c] = "filters"] /\ UNCHANGED todo
                 ELSE \E i \in Short(m, level) : Plan(c, OnLimited(mode, boot.limits[i]))
        BY <2>2 DEF CheckLimits
      <3>3. /\ budget' \in [LimitKeys(boot) -> Nat]
            /\ \A k \in LimitKeys(boot) : budget'[k] <= Full(k[1])
        <4> HIDE DEF m
        <4> QED BY <3>1, <3>2, ChargeType
      <3>4. todo' \in [Calls -> Seq(Effects)] /\ stage' \in [Calls -> Stages]
        <4>1. CASE Short(m, level) = {}
          BY <3>2, <4>1 DEF Stages
        <4>2. CASE Short(m, level) # {}
          <5>1. PICK i \in Short(m, level) : Plan(c, OnLimited(mode, boot.limits[i]))
            BY <3>2, <4>2
          <5>2. i \in DOMAIN boot.limits
            BY <5>1 DEF Short, Visited, Applying
          <5>3. OnLimited(mode, boot.limits[i]) \in Seq(Effects)
            BY <5>2, LimitsType, LimitedOrBlockedRefuses DEF OneOf
          <5> QED BY <5>1, <5>3 DEF Plan, Stages
        <4> QED BY <4>1, <4>2
      <3> QED BY <2>2, <3>3, <3>4 DEF CheckLimits, fixed, world, Full
    <2>3. ASSUME NEW c \in Calls, CheckFilters(c) PROVE Types'
      <3>1. \A i \in DOMAIN boot.filters : boot.filters[i] \in Filter
        BY ElementOfSeq, LenProperties DEF PolicyFile
      <3>2. ASSUME NEW i \in Blocking(boot.filters, request[c].tool, request[c].content)
            PROVE  OnBlocked(mode, boot.filters[i]) \in Seq(Effects)
        BY <3>1, LimitedOrBlockedRefuses DEF Blocking, FirstFinding, OneOf
      <3>3. todo' \in [Calls -> Seq(Effects)] /\ stage' \in [Calls -> Stages]
        <4>1. CASE Blocking(boot.filters, request[c].tool, request[c].content) = {}
          BY <2>3, <4>1 DEF CheckFilters, Stages
        <4>2. CASE Blocking(boot.filters, request[c].tool, request[c].content) # {}
          <5>1. PICK i \in Blocking(boot.filters, request[c].tool, request[c].content) :
                   Plan(c, OnBlocked(mode, boot.filters[i]))
            BY <2>3, <4>2 DEF CheckFilters
          <5> QED BY <5>1, <3>2 DEF Plan, Stages
        <4> QED BY <4>1, <4>2
      <3> QED BY <2>3, <3>3 DEF CheckFilters, fixed, shared, world
    <2>4. ASSUME NEW c \in Calls, EvaluateRules(c) PROVE Types'
      <3>1. PICK open \in SUBSET Windows :
              LET verdict == Evaluate(eng, open, request[c].tool, request[c].agent,
                                      request[c].content)
              IN /\ result' = [result EXCEPT ![c] = verdict]
                 /\ basis' = [basis EXCEPT ![c] = [eng |-> eng, open |-> open]]
                 /\ Plan(c, OnDecided(mode, verdict, request[c].content))
        BY <2>4 DEF EvaluateRules
      <3> DEFINE verdict == Evaluate(eng, open, request[c].tool, request[c].agent,
                                     request[c].content)
      <3>2. verdict \in EvalResult BY EvaluateType
      <3>3. OnDecided(mode, verdict, request[c].content) \in Seq(Effects)
        <4> HIDE DEF verdict
        <4> QED BY <3>2, DecidedPlan DEF OneOf
      <3>4. [eng |-> eng, open |-> open] \in Basis BY DEF Basis
      <3> HIDE DEF verdict
      <3> QED BY <2>4, <3>1, <3>2, <3>3, <3>4
               DEF EvaluateRules, Plan, fixed, shared, world, Stages, verdict
    <2>5. ASSUME NEW c \in Calls, WriteToChild(c) PROVE Types'
      <3>1. /\ Head(todo[c]).as \in Bodies /\ Tail(todo[c]) \in Seq(Effects)
        BY <2>5, NextEffect, EffectArgument DEF WriteToChild, Doing
      <3> QED BY <2>5, <3>1, AppendProperties
               DEF WriteToChild, Deliver, Proceed, fixed, shared, Stages
    <2>6. ASSUME NEW c \in Calls, ChildAnswers(c) PROVE Types'
      BY <2>6 DEF ChildAnswers, fixed, shared, Answers
    <2>7. ASSUME NEW c \in Calls, PostUpstream(c) PROVE Types'
      <3>1. Head(todo[c]).as \in Bodies
        BY <2>7, NextEffect, EffectArgument DEF PostUpstream, Doing
      <3> QED BY <2>7, <3>1 DEF PostUpstream, Deliver, fixed, shared, Stages
    <2>8. ASSUME NEW c \in Calls, UpstreamAnswers(c) PROVE Types'
      <3>1. Tail(todo[c]) \in Seq(Effects)
        BY <2>8, NextEffect DEF UpstreamAnswers, WellPlaced
      <3> QED BY <2>8, <3>1 DEF UpstreamAnswers, Proceed, fixed, shared, Stages, Answers
    <2>9. ASSUME NEW c \in Calls, UpstreamFails(c) PROVE Types'
      <3>1. Tail(todo[c]) \in Seq(Effects)
        BY <2>9, NextEffect DEF UpstreamFails, WellPlaced
      <3> QED BY <2>9, <3>1 DEF UpstreamFails, Proceed, fixed, shared, Stages, Answers
    <2>10. ASSUME NEW c \in Calls, ReplyError(c) PROVE Types'
      <3>1. Head(todo[c]).as \in Refusals /\ Tail(todo[c]) \in Seq(Effects)
        BY <2>10, NextEffect, EffectArgument DEF ReplyError, Doing
      <3> QED BY <2>10, <3>1 DEF ReplyError, Proceed, fixed, shared, Stages, Answers
    <2>11. ASSUME NEW c \in Calls, EmitAudit(c) PROVE Types'
      <3>1. Head(todo[c]).as \in Records /\ Tail(todo[c]) \in Seq(Effects)
        BY <2>11, NextEffect, EffectArgument DEF EmitAudit, Doing
      <3> QED BY <2>11, <3>1 DEF EmitAudit, Proceed, fixed, shared, Stages
    <2>12. ASSUME NEW c \in Calls, FireEscalation(c) PROVE Types'
      <3>1. Head(todo[c]).as \in AlertChannels /\ Tail(todo[c]) \in Seq(Effects)
        BY <2>12, NextEffect, EffectArgument DEF FireEscalation, Doing
      <3> QED BY <2>12, <3>1 DEF FireEscalation, Proceed, fixed, shared, Stages
    <2>13. ASSUME NEW c \in Calls, AskApproval(c) PROVE Types'
      BY <2>13 DEF AskApproval, fixed, shared, world, Stages
    <2>14. ASSUME NEW c \in Calls, Settle(c) PROVE Types'
      <3>1. \A how \in Outcomes : OnSettled(mode, how) \in Seq(Effects)
        BY SettledPlan DEF OneOf
      <3> QED BY <2>14, <3>1 DEF Settle, EndsFor, Plan, fixed, shared, world, Stages, Outcomes
    <2>15. ASSUME NEW file \in Files, Reload(file) PROVE Types'
      <3>1. ReloadedEngine(file) \in EngineState BY GuardAssumption, EngineType
      <3> QED BY <2>15, <3>1 DEF Reload, fixed, world
    <2>16. CASE UNCHANGED vars
      BY <2>16 DEF vars, fixed, shared, world
    <2> QED BY <2>1, <2>2, <2>3, <2>4, <2>5, <2>6, <2>7, <2>8, <2>9, <2>10, <2>11,
               <2>12, <2>13, <2>14, <2>15, <2>16 DEF Next, Handler
  <1>3. TypeOK /\ [Next]_vars => WellPlaced'
    <2> SUFFICES ASSUME TypeOK, [Next]_vars PROVE WellPlaced'
      OBVIOUS
    <2> USE DEF TypeOK, Types, WellPlaced
    <2>1. ASSUME NEW c \in Calls, NEW m \in Messages, Receive(c, m) PROVE WellPlaced'
      BY <2>1 DEF Receive
    <2>2. ASSUME NEW c \in Calls, CheckLimits(c) PROVE WellPlaced'
      BY <2>2 DEF CheckLimits, Plan
    <2>3. ASSUME NEW c \in Calls, CheckFilters(c) PROVE WellPlaced'
      BY <2>3 DEF CheckFilters, Plan
    <2>4. ASSUME NEW c \in Calls, EvaluateRules(c) PROVE WellPlaced'
      BY <2>4 DEF EvaluateRules, Plan
    <2>5. ASSUME NEW c \in Calls, Handler(c),
                 todo' = [todo EXCEPT ![c] = Tail(@)], UNCHANGED request,
                 stage[c] # "idle",
                 stage' = [stage EXCEPT ![c] = IF Tail(todo[c]) = <<>> THEN "done" ELSE "effects"]
          PROVE  WellPlaced'
      BY <2>5
    <2>6. ASSUME NEW c \in Calls,
                 \/ WriteToChild(c) \/ UpstreamAnswers(c) \/ UpstreamFails(c)
                 \/ ReplyError(c) \/ EmitAudit(c) \/ FireEscalation(c)
          PROVE  WellPlaced'
      BY <2>5, <2>6 DEF WriteToChild, UpstreamAnswers, UpstreamFails, ReplyError, EmitAudit,
                        FireEscalation, Proceed, Doing, Handler
    <2>7. ASSUME NEW c \in Calls, PostUpstream(c) \/ AskApproval(c) PROVE WellPlaced'
      BY <2>7 DEF PostUpstream, AskApproval, Doing
    <2>8. ASSUME NEW c \in Calls, Settle(c) PROVE WellPlaced'
      BY <2>8 DEF Settle, Plan
    <2>9. ASSUME NEW c \in Calls, ChildAnswers(c) PROVE WellPlaced'
      BY <2>9 DEF ChildAnswers
    <2>10. ASSUME NEW file \in Files, Reload(file) PROVE WellPlaced'
      BY <2>10 DEF Reload
    <2>11. CASE UNCHANGED vars
      BY <2>11 DEF vars
    <2> QED BY <2>1, <2>2, <2>3, <2>4, <2>6, <2>7, <2>8, <2>9, <2>10, <2>11
            DEF Next, Handler
  <1> QED BY <1>1, <1>2, <1>3, PTL DEF Spec, TypeOK

(***************************************************************************)
(* What a plan carries, and in which order.                                *)
(***************************************************************************)

Carried(p) == {p[i] : i \in DOMAIN p}

\* Nothing follows a question, and only alerts follow a record.
Ordered(p) ==
    /\ p \in Seq(Effects)
    /\ \A i, j \in DOMAIN p : i < j => /\ p[i].op # "ask"
                                       /\ p[i].op = "record" => p[j].op = "alert"

\* What performing the first effect of a plan leaves.
LEMMA OrderedTail ==
    ASSUME NEW p, Ordered(p), p # <<>>
    PROVE  /\ Head(p) \in Effects /\ Ordered(Tail(p))
           /\ Carried(p) = {Head(p)} \cup Carried(Tail(p))
           /\ Head(p).op = "ask" => Carried(Tail(p)) = {}
           /\ Head(p).op = "record" => \A e \in Carried(Tail(p)) : e.op = "alert"
  <1> HIDE DEF Effects
  <1>1. p \in Seq(Effects) BY DEF Ordered
  <1>2. /\ DOMAIN p = 1 .. Len(p) /\ Len(p) \in Nat /\ Len(p) > 0
        /\ Tail(p) \in Seq(Effects) /\ DOMAIN Tail(p) = 1 .. Len(p) - 1
        /\ \A i \in 1 .. Len(p) - 1 : Tail(p)[i] = p[i + 1]
        /\ Head(p) = p[1] /\ Head(p) \in Effects
    <2>1. Len(p) \in Nat /\ DOMAIN p = 1 .. Len(p) BY <1>1, LenProperties
    <2>2. Len(p) > 0 BY <1>1, <2>1, EmptySeq
    <2> QED BY <1>1, <2>1, <2>2, HeadTailProperties
  <1>3. \A i \in 1 .. Len(p) - 1 : i + 1 \in DOMAIN p /\ 1 < i + 1 /\ 1 \in DOMAIN p
    BY <1>2
  <1>4. Ordered(Tail(p))
    BY <1>2, <1>3 DEF Ordered
  <1>5. Carried(p) = {Head(p)} \cup Carried(Tail(p))
    <2>1. ASSUME NEW i \in DOMAIN p PROVE p[i] \in {Head(p)} \cup Carried(Tail(p))
      <3>1. CASE i = 1 BY <1>2, <3>1
      <3>2. CASE i # 1
        <4>1. i - 1 \in 1 .. Len(p) - 1 /\ Tail(p)[i - 1] = p[i] BY <1>2, <3>2
        <4> QED BY <1>2, <4>1 DEF Carried
      <3> QED BY <3>1, <3>2
    <2>2. ASSUME NEW i \in DOMAIN Tail(p) PROVE Tail(p)[i] \in Carried(p)
      BY <1>2, <1>3 DEF Carried
    <2>3. Head(p) \in Carried(p) BY <1>2 DEF Carried
    <2> QED BY <2>1, <2>2, <2>3 DEF Carried
  <1>6. ASSUME Head(p).op = "ask" PROVE Carried(Tail(p)) = {}
    BY <1>2, <1>3, <1>6 DEF Ordered, Carried
  <1>7. ASSUME Head(p).op = "record" PROVE \A e \in Carried(Tail(p)) : e.op = "alert"
    BY <1>2, <1>3, <1>7 DEF Ordered, Carried
  <1> QED BY <1>2, <1>4, <1>5, <1>6, <1>7

\* The shapes of the plans: a decisive effect and a record after it ...
LEMMA Cores ==
    ASSUME NEW d \in Effects, NEW r \in Effects,
           r.op = "record", d.op # "record", d.op # "alert"
    PROVE  /\ Ordered(<<d>>) /\ Carried(<<d>>) = {d}
           /\ d.op # "ask" => Ordered(<<d, r>>)
           /\ Carried(<<d, r>>) = {d, r}
  <1> HIDE DEF Effects
  <1>1. /\ <<d>> \in Seq(Effects) /\ DOMAIN <<d>> = {1} /\ <<d>>[1] = d
    OBVIOUS
  <1>2. PICK p : p = <<d, r>>
    OBVIOUS
  <1>3. p \in Seq(Effects) /\ DOMAIN p = {1, 2} /\ p[1] = d /\ p[2] = r
    BY <1>2
  <1>4. Ordered(<<d>>) /\ Carried(<<d>>) = {d}
    BY <1>1 DEF Ordered, Carried
  <1>5. (d.op # "ask" => Ordered(p)) /\ Carried(p) = {d, r}
    BY <1>3 DEF Ordered, Carried
  <1> QED BY <1>2, <1>4, <1>5

\* ... and an alert before or after both.
LEMMA AlertBefore ==
    ASSUME NEW a \in Effects, NEW p, Ordered(p), a.op = "alert"
    PROVE  Ordered(<<a>> \o p) /\ Carried(<<a>> \o p) = {a} \cup Carried(p)
  <1> HIDE DEF Effects
  <1>1. PICK one : one = <<a>>
    OBVIOUS
  <1>2. one \in Seq(Effects) /\ Len(one) = 1 /\ one[1] = a
    BY <1>1
  <1>3. p \in Seq(Effects) /\ Len(p) \in Nat /\ DOMAIN p = 1 .. Len(p)
    BY LenProperties DEF Ordered
  <1>4. PICK s : s = one \o p
    OBVIOUS
  <1>5. /\ s \in Seq(Effects) /\ Len(s) = Len(one) + Len(p)
        /\ \A i \in 1 .. Len(one) + Len(p) :
              s[i] = IF i <= Len(one) THEN one[i] ELSE p[i - Len(one)]
    BY <1>2, <1>3, <1>4, ConcatProperties
  <1>6. /\ DOMAIN s = 1 .. 1 + Len(p) /\ s[1] = a
        /\ \A i \in DOMAIN p : i + 1 \in DOMAIN s /\ s[i + 1] = p[i]
        /\ \A i \in DOMAIN s : i # 1 => i - 1 \in DOMAIN p /\ s[i] = p[i - 1]
    <2>1. DOMAIN s = 1 .. Len(s) BY <1>5, LenProperties
    <2> QED BY <1>2, <1>3, <1>5, <2>1
  <1>7. Ordered(s)
    <2> SUFFICES ASSUME NEW i \in DOMAIN s, NEW j \in DOMAIN s, i < j
                 PROVE  s[i].op # "ask" /\ (s[i].op = "record" => s[j].op = "alert")
      BY <1>5 DEF Ordered
    <2>1. CASE i = 1 BY <1>6, <2>1
    <2>2. CASE i # 1
      <3>1. /\ i - 1 \in DOMAIN p /\ j - 1 \in DOMAIN p /\ i - 1 < j - 1
            /\ s[i] = p[i - 1] /\ s[j] = p[j - 1]
        BY <1>3, <1>6, <2>2
      <3> QED BY <3>1 DEF Ordered
    <2> QED BY <2>1, <2>2
  <1>8. Carried(s) = {a} \cup Carried(p)
    <2>1. Carried(s) \subseteq {a} \cup Carried(p) BY <1>6 DEF Carried
    <2>2. {a} \cup Carried(p) \subseteq Carried(s)
      <3>1. 1 \in DOMAIN s BY <1>3, <1>6
      <3> QED BY <1>6, <3>1 DEF Carried
    <2> QED BY <2>1, <2>2
  <1> QED BY <1>1, <1>4, <1>7, <1>8

\* An alert after a plan that asks nobody.
LEMMA AlertAfter ==
    ASSUME NEW a \in Effects, NEW p, Ordered(p), a.op = "alert",
           \A e \in Carried(p) : e.op # "ask"
    PROVE  Ordered(p \o <<a>>) /\ Carried(p \o <<a>>) = {a} \cup Carried(p)
  <1> HIDE DEF Effects
  <1>1. PICK one : one = <<a>>
    OBVIOUS
  <1>2. one \in Seq(Effects) /\ Len(one) = 1 /\ one[1] = a
    BY <1>1
  <1>3. p \in Seq(Effects) /\ Len(p) \in Nat /\ DOMAIN p = 1 .. Len(p)
    BY LenProperties DEF Ordered
  <1>4. PICK s : s = p \o one
    OBVIOUS
  <1>5. /\ s \in Seq(Effects) /\ Len(s) = Len(p) + Len(one)
        /\ \A i \in 1 .. Len(p) + Len(one) :
              s[i] = IF i <= Len(p) THEN p[i] ELSE one[i - Len(p)]
    BY <1>2, <1>3, <1>4, ConcatProperties
  <1>6. /\ DOMAIN s = 1 .. Len(p) + 1 /\ s[Len(p) + 1] = a
        /\ \A i \in DOMAIN p : i \in DOMAIN s /\ s[i] = p[i]
        /\ \A i \in DOMAIN s : i # Len(p) + 1 => i \in DOMAIN p
    <2>1. DOMAIN s = 1 .. Len(s) BY <1>5, LenProperties
    <2> QED BY <1>2, <1>3, <1>5, <2>1
  <1>7. Ordered(s)
    <2> SUFFICES ASSUME NEW i \in DOMAIN s, NEW j \in DOMAIN s, i < j
                 PROVE  s[i].op # "ask" /\ (s[i].op = "record" => s[j].op = "alert")
      BY <1>5 DEF Ordered
    <2>1. i \in DOMAIN p /\ s[i] = p[i]
      BY <1>3, <1>6
    <2>2. CASE j = Len(p) + 1 BY <1>6, <2>1, <2>2 DEF Carried
    <2>3. CASE j # Len(p) + 1 BY <1>6, <2>1, <2>3 DEF Ordered
    <2> QED BY <2>2, <2>3
  <1>8. Carried(s) = {a} \cup Carried(p)
    <2>1. Carried(s) \subseteq {a} \cup Carried(p) BY <1>6 DEF Carried
    <2>2. {a} \cup Carried(p) \subseteq Carried(s)
      <3>1. Len(p) + 1 \in DOMAIN s BY <1>3, <1>6
      <3> QED BY <1>6, <3>1 DEF Carried
    <2> QED BY <2>1, <2>2
  <1> QED BY <1>1, <1>4, <1>7, <1>8

\* A decisive effect and the record that may follow it.
LEMMA CoreIs ==
    ASSUME NEW d \in Effects, NEW flag, NEW x \in Records
    PROVE  <<d>> \o RecordIf(flag, x) = IF flag THEN <<d, Record(x)>> ELSE <<d>>
  <1> HIDE DEF Records
  <1>1. Record(x) \in Effects BY DEF Record, Effects
  <1>2. <<d>> \o <<Record(x)>> = <<d, Record(x)>>
    BY <1>1, ConcatTwo
  <1>3. <<d>> \o <<>> = <<d>>
    <2> HIDE DEF Effects
    <2>1. <<d>> \in Seq(Effects) OBVIOUS
    <2> QED BY <2>1, ConcatEmptySeq
  <1> QED BY <1>2, <1>3 DEF RecordIf

\* What a result says of the forwarded call and of the record of it.
BodyOf(r, content) == IF /\ r.decision = "mutate" /\ r.rule.mutates # Nil
                         /\ Mutates(r.rule, content)
                      THEN "mutated" ELSE "original"
DueOf(r) == CASE r.decision = "require_approval" -> "approved"
              [] r.decision = "mutate" -> "mutated" [] OTHER -> r.decision

\* A result of an engine whose rules name the channels they ask.
Sound(r) == /\ r \in EvalResult
            /\ r.decision \in {"mutate", "require_approval"} => r.rule # Nil
            /\ r.decision = "require_approval" => r.rule.approval # Nil

\* The result asks for a record of a call forwarded or refused at once.
AsksForARecord(r, content) == r.audit /\ (r.decision = "mutate" => BodyOf(r, content) = "mutated")

Act(md, r, content) == CASE md = "stdio" -> StdioDecided(r, content)
                         [] md = "http" -> HttpDecided(r, content)
                         [] md = "bridge" -> BridgeDecided(r, content)

\* What the switch on a decision makes of it.
Decisive(act, d, md, r, content) ==
    /\ d.op \in {"forward", "reply", "ask"}
    /\ \/ act = <<d>>
       \/ act = <<d, Record(DueOf(r))>> /\ d.op # "ask" /\ DueOf(r) \in Records
                                        /\ r.decision # "require_approval"
    /\ d.op = "forward" => d.as = BodyOf(r, content)
    /\ md # "bridge" /\ (r.decision = "require_approval" \/ AsksForARecord(r, content))
          => d.op = "ask" \/ act = <<d, Record(DueOf(r))>>
\* The switch always comes to one decisive effect and at most one record.
LEMMA ActIs ==
    ASSUME NEW md \in Modes, NEW r, Sound(r), NEW content
    PROVE  \E d \in Effects : Decisive(Act(md, r, content), d, md, r, content)
  <1> DEFINE act == Act(md, r, content)
             Fwd == Forward("original")
             Mut == Forward("mutated")
             Den == Reply("denied")
  <1>1. /\ r.decision \in Decision /\ r.audit \in BOOLEAN
        /\ r.rule # Nil => r.rule \in Rule
    BY DEF Sound, EvalResult
  <1>2. /\ Fwd \in Effects /\ Mut \in Effects /\ Den \in Effects
        /\ Fwd.op = "forward" /\ Mut.op = "forward" /\ Den.op = "reply"
        /\ Fwd.as = "original" /\ Mut.as = "mutated"
    BY DEF Forward, Reply, Effects, Bodies, Refusals
  <1>3. {"allow", "audit_only", "deny", "mutated"} \subseteq Records
    BY DEF Records, Decision, RuleActions
  <1> HIDE DEF Fwd, Mut, Den
  <1>4. CASE r.decision \in {"allow", "audit_only"}
    <2>1. act = <<Fwd>> \o RecordIf(r.audit, r.decision)
      BY <1>4 DEF Act, StdioDecided, HttpDecided, BridgeDecided, Modes, Fwd
    <2>2. act = IF r.audit THEN <<Fwd, Record(r.decision)>> ELSE <<Fwd>>
      BY <1>2, <1>3, <1>4, <2>1, CoreIs
    <2>3. DueOf(r) = r.decision /\ BodyOf(r, content) = "original"
      BY <1>4 DEF DueOf, BodyOf
    <2>4. Decisive(act, Fwd, md, r, content)
      BY <1>2, <1>3, <1>4, <2>2, <2>3 DEF Decisive, AsksForARecord
    <2> QED BY <1>2, <2>4
  <1>5. CASE r.decision = "deny"
    <2>1. act = <<Den>> \o RecordIf(r.audit, "deny")
      BY <1>5 DEF Act, StdioDecided, HttpDecided, BridgeDecided, Modes, Den
    <2>2. act = IF r.audit THEN <<Den, Record("deny")>> ELSE <<Den>>
      BY <1>2, <1>3, <2>1, CoreIs
    <2>3. DueOf(r) = "deny"
      BY <1>5 DEF DueOf
    <2>4. Decisive(act, Den, md, r, content)
      BY <1>2, <1>3, <1>5, <2>2, <2>3 DEF Decisive, AsksForARecord
    <2> QED BY <1>2, <2>4
  <1>6. CASE r.decision = "require_approval"
    <2> DEFINE q == Ask(r.rule.approval)
    <2>1. r.rule # Nil /\ r.rule.approval # Nil /\ r.rule \in Rule
      BY <1>1, <1>6 DEF Sound
    <2>2. act = <<q>>
      BY <1>6, <2>1 DEF Act, StdioDecided, HttpDecided, BridgeDecided, Modes, StdioApproval,
                        HttpApproval, BridgeApproval
    <2>3. q \in Effects /\ q.op = "ask"
      BY <2>1 DEF Ask, Effects, Rule
    <2> HIDE DEF q
    <2>4. Decisive(act, q, md, r, content)
      BY <2>2, <2>3 DEF Decisive
    <2> QED BY <2>3, <2>4
  <1>7. CASE r.decision = "mutate"
    <2>1. r.rule # Nil BY <1>7 DEF Sound
    <2>2. DueOf(r) = "mutated" BY <1>7 DEF DueOf
    <2>3. CASE r.rule.mutates = Nil \/ ~ Mutates(r.rule, content)
      <3>1. act = <<Fwd>> /\ BodyOf(r, content) = "original"
        BY <1>7, <2>1, <2>3 DEF Act, StdioDecided, HttpDecided, BridgeDecided, Modes,
           StdioMutation, HttpMutation, Fwd, BodyOf
      <3>2. Decisive(act, Fwd, md, r, content)
        BY <1>2, <1>7, <3>1 DEF Decisive, AsksForARecord
      <3> QED BY <1>2, <3>2
    <2>4. CASE ~ (r.rule.mutates = Nil \/ ~ Mutates(r.rule, content))
      <3>1. BodyOf(r, content) = "mutated"
        BY <1>7, <2>4 DEF BodyOf
      <3>2. act = IF md = "bridge" THEN <<Mut>> ELSE <<Mut>> \o RecordIf(r.audit, "mutated")
        BY <1>7, <2>1, <2>4 DEF Act, StdioDecided, HttpDecided, BridgeDecided, Modes,
           StdioMutation, HttpMutation, Mut
      <3>3. act = IF md # "bridge" /\ r.audit THEN <<Mut, Record("mutated")>> ELSE <<Mut>>
        BY <1>2, <1>3, <3>2, CoreIs
      <3>4. Decisive(act, Mut, md, r, content)
        BY <1>2, <1>3, <1>7, <2>2, <3>1, <3>3 DEF Decisive, AsksForARecord
      <3> QED BY <1>2, <3>4
    <2> QED BY <2>3, <2>4
  <1> QED BY <1>1, <1>4, <1>5, <1>6, <1>7 DEF Decision, RuleActions

\* What the plan of a decision carries: the forwarding the decision calls for,
\* the record that names it where one is asked for, and the rule's alert.
LEMMA DecidedCarries ==
    ASSUME NEW md \in Modes, NEW r, Sound(r), NEW content
    PROVE  LET plan == OnDecided(md, r, content) IN
           /\ Ordered(plan)
           /\ \A e \in Carried(plan) :
                 /\ e.op = "forward" => e.as = BodyOf(r, content)
                 /\ e.op = "record" => e.as = DueOf(r) /\ r.decision # "require_approval"
           /\ r.rule # Nil /\ r.rule.escalate # Nil => Alert(r.rule.escalate) \in Carried(plan)
           /\ md # "bridge" /\ (r.decision = "require_approval" \/ AsksForARecord(r, content))
                 => \E e \in Carried(plan) : e.op \in {"record", "ask"}
  <1>1. PICK act : act = Act(md, r, content)
    OBVIOUS
  <1>2. PICK d \in Effects : Decisive(act, d, md, r, content)
    BY <1>1, ActIs
  <1>3. PICK x \in Records : DueOf(r) \in Records => x = DueOf(r)
    BY DEF Records
  <1>4. PICK rec : rec = Record(x)
    OBVIOUS
  <1>5. rec \in Effects /\ rec.op = "record" /\ rec.as = x
    BY <1>4 DEF Record, Effects
  <1>6. PICK alert : alert = IF r.rule = Nil THEN <<>> ELSE AlertOn(r.rule.escalate)
    OBVIOUS
  <1>7. OnDecided(md, r, content) = alert \o act
    BY <1>1, <1>6 DEF OnDecided, Act
  <1>8. /\ d.op \in {"forward", "reply", "ask"}
        /\ act = <<d>> \/ (act = <<d, rec>> /\ d.op # "ask" /\ x = DueOf(r)
                                            /\ r.decision # "require_approval")
        /\ d.op = "forward" => d.as = BodyOf(r, content)
        /\ md # "bridge" /\ (r.decision = "require_approval" \/ AsksForARecord(r, content))
              => d.op = "ask" \/ act = <<d, rec>>
    BY <1>2, <1>3, <1>4 DEF Decisive
  <1>9. /\ Ordered(act)
        /\ \/ act = <<d>> /\ Carried(act) = {d}
           \/ act = <<d, rec>> /\ Carried(act) = {d, rec}
    BY <1>5, <1>8, Cores
  <1>10. /\ \A e \in Carried(act) :
               /\ e.op = "forward" => e.as = BodyOf(r, content)
               /\ e.op = "record" => e.as = DueOf(r) /\ r.decision # "require_approval"
         /\ md # "bridge" /\ (r.decision = "require_approval" \/ AsksForARecord(r, content))
               => \E e \in Carried(act) : e.op \in {"record", "ask"}
    <2>1. CASE act = <<d>> /\ Carried(act) = {d}
      <3>1. <<d>> # <<d, rec>>
        <4>1. Len(<<d>>) = 1 /\ Len(<<d, rec>>) = 2 OBVIOUS
        <4> QED BY <4>1
      <3> QED BY <1>8, <2>1, <3>1
    <2>2. CASE act = <<d, rec>> /\ Carried(act) = {d, rec}
      <3>1. <<d>> # <<d, rec>>
        <4>1. Len(<<d>>) = 1 /\ Len(<<d, rec>>) = 2 OBVIOUS
        <4> QED BY <4>1
      <3> QED BY <1>5, <1>8, <2>2, <3>1
    <2> QED BY <1>9, <2>1, <2>2
  <1>11. CASE r.rule = Nil \/ r.rule.escalate = Nil
    <2>1. alert = <<>> BY <1>6, <1>11 DEF AlertOn
    <2>2. act \in Seq(Effects) BY <1>9 DEF Ordered
    <2>3. alert \o act = act
      <3> HIDE DEF Effects
      <3> QED BY <2>1, <2>2, ConcatEmptySeq
    <2> QED BY <1>7, <1>9, <1>10, <1>11, <2>3
  <1>12. CASE ~ (r.rule = Nil \/ r.rule.escalate = Nil)
    <2>1. PICK a : a = Alert(r.rule.escalate)
      OBVIOUS
    <2>2. r.rule \in Rule BY <1>12 DEF Sound, EvalResult
    <2>3. r.rule.escalate \in AlertChannels BY <1>12, <2>2 DEF Rule
    <2>4. a \in Effects /\ a.op = "alert" BY <2>1, <2>3 DEF Alert, Effects
    <2>5. alert = <<a>> BY <1>6, <1>12, <2>1 DEF AlertOn
    <2>6. /\ Ordered(<<a>> \o act) /\ Carried(<<a>> \o act) = {a} \cup Carried(act)
      BY <1>9, <2>4, AlertBefore
    <2>7. OnDecided(md, r, content) = <<a>> \o act BY <1>7, <2>5
    <2> QED BY <1>10, <2>1, <2>4, <2>6, <2>7
  <1> QED BY <1>11, <1>12

\* A plan that refuses and records it under the name x, or nowhere.
Refuses(plan, x, recorded) ==
    /\ Ordered(plan)
    /\ \A e \in Carried(plan) : /\ e.op # "ask" /\ e.op # "forward"
                                /\ e.op = "record" => e.as = x
    /\ recorded => \E e \in Carried(plan) : e.op = "record"

\* The shapes a refusal takes.
LEMMA RefusingPlans ==
    ASSUME NEW x \in Refusals \cap Records, NEW ch \in AlertChannels \cup {Nil}
    PROVE  /\ Refuses(<<Reply(x)>>, x, FALSE)
           /\ Refuses(<<Reply(x), Record(x)>>, x, TRUE)
           /\ Refuses(<<Reply(x), Record(x)>> \o AlertOn(ch), x, TRUE)
  <1>1. PICK d, r : d = Reply(x) /\ r = Record(x)
    OBVIOUS
  <1>2. /\ d \in Effects /\ r \in Effects /\ d.op = "reply" /\ r.op = "record" /\ r.as = x
    BY <1>1 DEF Reply, Record, Effects
  <1>3. PICK core : core = <<d, r>>
    OBVIOUS
  <1>4. /\ Ordered(core) /\ Carried(core) = {d, r}
        /\ Ordered(<<d>>) /\ Carried(<<d>>) = {d}
    BY <1>2, <1>3, Cores
  <1>5. Refuses(<<d>>, x, FALSE) /\ Refuses(core, x, TRUE)
    BY <1>2, <1>4 DEF Refuses
  <1>6. Refuses(core \o AlertOn(ch), x, TRUE)
    <2>1. CASE ch = Nil
      <3>1. core \o <<>> = core
        <4> HIDE DEF Effects
        <4>1. core \in Seq(Effects) BY <1>4 DEF Ordered
        <4> QED BY <4>1, ConcatEmptySeq
      <3> QED BY <1>5, <2>1, <3>1 DEF AlertOn
    <2>2. CASE ch # Nil
      <3>1. PICK a : a = Alert(ch)
        OBVIOUS
      <3>2. a \in Effects /\ a.op = "alert" BY <2>2, <3>1 DEF Alert, Effects
      <3>3. AlertOn(ch) = <<a>> BY <2>2, <3>1 DEF AlertOn
      <3>4. \A e \in Carried(core) : e.op # "ask" BY <1>2, <1>4
      <3>5. /\ Ordered(core \o <<a>>) /\ Carried(core \o <<a>>) = {a} \cup Carried(core)
        BY <1>4, <3>2, <3>4, AlertAfter
      <3> QED BY <1>2, <1>4, <3>2, <3>3, <3>5 DEF Refuses
    <2> QED BY <2>1, <2>2
  <1> QED BY <1>1, <1>3, <1>5, <1>6

\* A limit's or a filter's refusal is recorded under its own name, and always
\* but for the bridge's filters.
LEMMA RefusalCarries ==
    ASSUME NEW md \in Modes
    PROVE  /\ \A limit \in Limit : Refuses(OnLimited(md, limit), "rate_limited", TRUE)
           /\ \A filter \in Filter :
                Refuses(OnBlocked(md, filter), "content_blocked", md # "bridge")
  <1>1. "rate_limited" \in Refusals \cap Records /\ "content_blocked" \in Refusals \cap Records
    BY DEF Refusals, Records
  <1>2. ASSUME NEW limit \in Limit
        PROVE  Refuses(OnLimited(md, limit), "rate_limited", TRUE)
    <2>1. limit.escalate \in AlertChannels \cup {Nil} BY DEF Limit
    <2>2. /\ Refuses(<<Reply("rate_limited"), Record("rate_limited")>>, "rate_limited", TRUE)
          /\ Refuses(<<Reply("rate_limited"), Record("rate_limited")>> \o AlertOn(limit.escalate),
                     "rate_limited", TRUE)
      BY <1>1, <2>1, RefusingPlans
    <2> QED BY <2>2 DEF OnLimited, StdioLimited, HttpLimited, BridgeLimited, Modes
  <1>3. ASSUME NEW filter \in Filter
        PROVE  Refuses(OnBlocked(md, filter), "content_blocked", md # "bridge")
    <2>1. filter.escalate \in AlertChannels \cup {Nil} BY DEF Filter
    <2>2. /\ Refuses(<<Reply("content_blocked")>>, "content_blocked", FALSE)
          /\ Refuses(<<Reply("content_blocked"), Record("content_blocked")>>,
                     "content_blocked", TRUE)
          /\ Refuses(<<Reply("content_blocked"), Record("content_blocked")>>
                     \o AlertOn(filter.escalate), "content_blocked", TRUE)
      BY <1>1, <2>1, RefusingPlans
    <2> QED BY <2>2 DEF OnBlocked, StdioBlocked, HttpBlocked, BridgeBlocked, Modes
  <1> QED BY <1>2, <1>3

\* What the end of an approval makes a handler do, and record.
LEMMA SettledCarries ==
    ASSUME NEW md \in Modes, NEW how
    PROVE  LET plan == OnSettled(md, how) IN
           /\ Ordered(plan)
           /\ \A e \in Carried(plan) :
                 /\ e.op = "forward" => e.as = "original"
                 /\ e.op = "record" => e.as = IF how = "approved" THEN "approved" ELSE "rejected"
                 /\ e.op # "ask"
           /\ md # "bridge" => \E e \in Carried(plan) : e.op = "record"
  <1>1. PICK d, r : IF how = "approved"
                    THEN d = Forward("original") /\ r = Record("approved")
                    ELSE d = Reply("rejected") /\ r = Record("rejected")
    OBVIOUS
  <1>2. /\ d \in Effects /\ r \in Effects /\ r.op = "record" /\ d.op \in {"forward", "reply"}
        /\ d.op = "forward" => d.as = "original"
        /\ r.as = IF how = "approved" THEN "approved" ELSE "rejected"
    BY <1>1 DEF Forward, Reply, Record, Effects, Bodies, Refusals, Records
  <1>3. OnSettled(md, how) = IF md = "bridge" THEN <<d>> ELSE <<d, r>>
    BY <1>1 DEF OnSettled, StdioSettled, HttpSettled, BridgeSettled, Modes
  <1>4. /\ Ordered(<<d>>) /\ Carried(<<d>>) = {d} /\ Ordered(<<d, r>>)
        /\ Carried(<<d, r>>) = {d, r}
    BY <1>2, Cores
  <1> QED BY <1>2, <1>3, <1>4

\* Every document that loads makes an engine whose approvals name a channel,
\* and such an engine's results are sound (validate, DeriveRules, Evaluate).
NamesItsChannels(e) == \A i \in DOMAIN e.rules :
                          e.rules[i].action = "require_approval" => e.rules[i].approval # Nil

LEMMA LoadedNamesItsChannels ==
    ASSUME NEW file \in PolicyFile, Loadable(file)
    PROVE  NamesItsChannels(StartEngine(file)) /\ NamesItsChannels(ReloadedEngine(file))
  <1>1. /\ file.rules \in Seq(Rule) /\ file.channels \subseteq Channels
        /\ file.card \in Card \cup {Nil}
    BY DEF PolicyFile
  <1>2. Nil \notin Channels BY NilAssumption
  <1>3. NamesItsChannels(ReloadedEngine(file))
    BY <1>1, <1>2 DEF NamesItsChannels, ReloadedEngine, Loadable
  <1>4. CASE file.card = Nil
    BY <1>1, <1>2, <1>3, <1>4 DEF NamesItsChannels, StartEngine, Loadable
  <1>5. CASE file.card # Nil
    <2>1. file.card.approved \in Seq(SUBSET Tools) BY <1>1, <1>5 DEF Card
    <2>2. PICK n \in Nat : DOMAIN file.card.approved = 1 .. n
      BY <2>1, LenProperties
    <2>3. PICK derived : derived = DeriveRules(file.card)
      OBVIOUS
    <2>4. \A i \in 1 .. n : /\ derived[i].action = "require_approval" => derived[i].approval # Nil
                           /\ derived[i] \in Rule
      <3>1. ASSUME NEW i \in 1 .. n
            PROVE  /\ derived[i].action = "require_approval" => derived[i].approval # Nil
                   /\ derived[i] \in Rule
        <4>1. derived[i] = CardRule(file.card.approved[i], file.card.oversight)
          BY <2>2, <2>3 DEF DeriveRules
        <4>2. file.card.approved[i] \in SUBSET Tools
          BY <2>1, <2>2, ElementOfSeq, LenProperties
        <4> QED BY <1>2, <4>1, <4>2, TerminalAssumption DEF CardRule, Rule, RuleActions, Flag, Content
      <3> QED BY <3>1
    <2>5. derived \in Seq(Rule) /\ DOMAIN derived = 1 .. n
      <3>1. derived \in [1 .. n -> Rule]
        BY <2>2, <2>3, <2>4 DEF DeriveRules
      <3> HIDE DEF Rule
      <3> QED BY <3>1, IsASeq
    <2>6. PICK rules : rules = file.rules \o derived
      OBVIOUS
    <2>7. /\ DOMAIN rules = 1 .. Len(file.rules) + n /\ Len(file.rules) \in Nat
          /\ DOMAIN file.rules = 1 .. Len(file.rules)
          /\ \A i \in 1 .. Len(file.rules) + n :
                rules[i] = IF i <= Len(file.rules) THEN file.rules[i]
                           ELSE derived[i - Len(file.rules)]
      <3> HIDE DEF Rule
      <3>1. Len(derived) = n BY <2>5, LenProperties
      <3>2. /\ rules \in Seq(Rule) /\ Len(rules) = Len(file.rules) + Len(derived)
            /\ \A i \in 1 .. Len(file.rules) + Len(derived) :
                  rules[i] = IF i <= Len(file.rules) THEN file.rules[i]
                             ELSE derived[i - Len(file.rules)]
        BY <1>1, <2>5, <2>6, ConcatProperties
      <3>3. /\ DOMAIN rules = 1 .. Len(rules) /\ Len(file.rules) \in Nat
            /\ DOMAIN file.rules = 1 .. Len(file.rules)
        BY <1>1, <3>2, LenProperties
      <3> QED BY <3>1, <3>2, <3>3
    <2>8. ASSUME NEW i \in DOMAIN rules, rules[i].action = "require_approval"
          PROVE  rules[i].approval # Nil
      <3>1. CASE i <= Len(file.rules)
        <4>1. i \in DOMAIN file.rules /\ rules[i] = file.rules[i] BY <2>7, <3>1
        <4> QED BY <1>1, <1>2, <2>8, <4>1 DEF Loadable
      <3>2. CASE ~ (i <= Len(file.rules))
        <4>1. i - Len(file.rules) \in 1 .. n /\ rules[i] = derived[i - Len(file.rules)]
          BY <2>7, <3>2
        <4> QED BY <2>4, <2>8, <4>1
      <3> QED BY <3>1, <3>2
    <2> QED BY <1>3, <1>5, <2>3, <2>6, <2>8 DEF NamesItsChannels, StartEngine, MergeRules
  <1> QED BY <1>4, <1>5

\* A decision that needs a rule's mutate block or channel comes from a rule.
LEMMA EvaluateSound ==
    ASSUME NEW e \in EngineState, NamesItsChannels(e), NEW open, NEW tool, NEW agent, NEW content
    PROVE  Sound(Evaluate(e, open, tool, agent, content))
  <1> DEFINE first == FirstMatch(e.rules, open, tool, agent, content)
  <1>0. Evaluate(e, open, tool, agent, content) \in EvalResult BY EvaluateType
  <1>1. e.rules \in Seq(Rule) /\ e.defaults \in EffectiveDefault
    BY DEF EngineState
  <1>2. CASE first = {}
    <2>1. Evaluate(e, open, tool, agent, content) = ResultFromDefaults(e.defaults)
      BY <1>2 DEF Evaluate
    <2>2. ResultFromDefaults(e.defaults).decision \in {"allow", "audit_only", "deny"}
      BY <1>1 DEF ResultFromDefaults, EffectiveDefault
    <2> QED BY <1>0, <2>1, <2>2 DEF Sound
  <1>3. CASE first # {}
    <2> DEFINE i == CHOOSE j \in first : TRUE
    <2>1. i \in first BY <1>3
    <2>2. i \in DOMAIN e.rules BY <2>1 DEF FirstMatch
    <2>3. e.rules[i] \in Rule BY <1>1, <2>2, ElementOfSeq, LenProperties
    <2>4. Evaluate(e, open, tool, agent, content) = ResultFromRule(e.rules[i], e.defaults)
      BY <1>3 DEF Evaluate
    <2> HIDE DEF i
    <2>5. e.rules[i] # Nil BY <2>3, NilAssumption
    <2>6. /\ ResultFromRule(e.rules[i], e.defaults).rule = e.rules[i]
          /\ ResultFromRule(e.rules[i], e.defaults).decision = e.rules[i].action
      BY <2>3 DEF ResultFromRule, Rule, Decision
    <2> QED BY <1>0, <2>2, <2>4, <2>5, <2>6 DEF Sound, NamesItsChannels
  <1> QED BY <1>2, <1>3

-----------------------------------------------------------------------------
(***************************************************************************)
(* What Guard never does, by induction on its steps.  Phased, the phase of *)
(* every call, gives that no tool call passes without leave, that every    *)
(* call has one fate and that Guard is a ToolGate; Thrift, what a key of a *)
(* limit has left, that the limits hold; Account, what a handler did and   *)
(* has still to do for its call, that it leaves a true and complete trail. *)
(***************************************************************************)

\* A call's phase depends on its own variables and on what startup fixed.
LEMMA PhaseFrame ==
    ASSUME NEW c, InPhase(c), UNCHANGED <<mode, boot>>,
           stage'[c] = stage[c], request'[c] = request[c], result'[c] = result[c],
           todo'[c] = todo[c], sent'[c] = sent[c], replies'[c] = replies[c],
           basis'[c] = basis[c], outcome'[c] = outcome[c]
    PROVE  InPhase(c)'
  <1>1. /\ Judged(c)' = Judged(c) /\ Decided(c)' = Decided(c) /\ Blocked(c)' = Blocked(c)
        /\ Verdict(c)' = Verdict(c) /\ Untold(c)' = Untold(c)
    BY DEF Judged, Decided, Blocked, Verdict, Untold
  <1>2. Leave(c)' = Leave(c)
    BY <1>1 DEF Leave, HasLeave
  <1>3. /\ Unseen(c)' = Unseen(c) /\ Vetting(c)' = Vetting(c) /\ Asking(c)' = Asking(c)
        /\ Refusing(c)' = Refusing(c)
    BY <1>1 DEF Unseen, Vetting, Asking, Refusing
  <1>4. /\ Cleared(c)' = Cleared(c) /\ Posted(c)' = Posted(c) /\ Told(c)' = Told(c)
        /\ Offered(c)' = Offered(c)
    BY <1>2, <1>1 DEF Cleared, Posted, Told, Offered
  <1> QED BY <1>3, <1>4 DEF InPhase

\* What leave rests on does not change while a handler performs its effects.
LEMMA LeaveFrame ==
    ASSUME NEW c, UNCHANGED boot, request'[c] = request[c], basis'[c] = basis[c],
           outcome'[c] = outcome[c]
    PROVE  /\ Leave(c)' = Leave(c) /\ Judged(c)' = Judged(c) /\ Decided(c)' = Decided(c)
           /\ Blocked(c)' = Blocked(c) /\ Verdict(c)' = Verdict(c)
  BY DEF Leave, HasLeave, Judged, Decided, Blocked, Verdict

\* The next effect of a handler tells in which phase its call is.
LEMMA PhaseOfEffect ==
    ASSUME NEW c \in Calls, InPhase(c), NEW op, Doing(c, op)
    PROVE  /\ op = "forward" => Cleared(c) /\ QuietSeq(Tail(todo[c]))
           /\ op = "reply" => Refusing(c) /\ QuietSeq(Tail(todo[c]))
           /\ op = "ask" => Asking(c)
           /\ op \in Quiet => \/ Asking(c) /\ OneOf("ask", Tail(todo[c]))
                              \/ Refusing(c) /\ OneOf("reply", Tail(todo[c]))
                              \/ Cleared(c) /\ OneOf("forward", Tail(todo[c]))
                              \/ (Told(c) \/ Offered(c)) /\ QuietSeq(Tail(todo[c]))
  <1>1. stage[c] = "effects" /\ todo[c] # <<>> /\ Head(todo[c]).op = op
    BY DEF Doing
  <1>2. Asking(c) \/ Refusing(c) \/ Cleared(c) \/ Told(c) \/ Offered(c)
    BY <1>1 DEF InPhase, Unseen, Vetting, Posted
  <1>3. CASE Asking(c)
    <2>1. OneOf("ask", todo[c]) BY <1>3 DEF Asking
    <2> QED BY <1>1, <1>3, <2>1, TailOfPlan DEF Quiet
  <1>4. CASE Refusing(c)
    <2>1. OneOf("reply", todo[c]) BY <1>4 DEF Refusing
    <2> QED BY <1>1, <1>4, <2>1, TailOfPlan DEF Quiet
  <1>5. CASE Cleared(c)
    <2>1. OneOf("forward", todo[c]) BY <1>5 DEF Cleared
    <2> QED BY <1>1, <1>5, <2>1, TailOfPlan DEF Quiet
  <1>6. CASE Told(c) \/ Offered(c)
    <2>1. QuietSeq(todo[c]) BY <1>6 DEF Told, Offered
    <2> QED BY <1>1, <1>6, <2>1, TailOfQuiet DEF Quiet
  <1> QED BY <1>2, <1>3, <1>4, <1>5, <1>6

(***************************************************************************)
(* The phase of a call after each step of its handler.                     *)
(***************************************************************************)

\* A message taken up is vetted, or forwarded as it is when the policy does not
\* concern it.
LEMMA ReceivePhase ==
    ASSUME TypeOK, NEW c \in Calls, InPhase(c), NEW m \in Messages, Receive(c, m)
    PROVE  Unseen(c) /\ (Vetting(c)' \/ Cleared(c)')
  <1>1. Unseen(c)
    BY DEF Receive, InPhase, Unseen, Vetting, Asking, Refusing, Cleared, Posted, Told, Offered
  <1> SUFFICES Vetting(c)' \/ Cleared(c)'
    BY <1>1
  <1>2. /\ request'[c] = m /\ m # Nil
        /\ sent'[c] = <<>> /\ replies'[c] = <<>> /\ basis'[c] = Nil /\ outcome'[c] = Nil
    BY <1>1, GuardAssumption DEF Receive, TypeOK, Types, Unseen, Untold, world
  <1>3. CASE Intercepts(m.kind)
    <2>1. stage'[c] = "limits" BY <1>3 DEF Receive, TypeOK, Types
    <2> QED BY <1>2, <1>3, <2>1 DEF Vetting, Untold, Judged
  <1>4. CASE ~ Intercepts(m.kind)
    <2>1. stage'[c] = "effects" /\ todo'[c] = Verbatim
      BY <1>4 DEF Receive, TypeOK, Types
    <2>2. OneOf("forward", Verbatim)
      BY ForwardPlan DEF Verbatim, Bodies, Records
    <2> QED BY <1>2, <1>4, <2>1, <2>2 DEF Cleared, Untold, Leave, Judged
  <1> QED BY <1>3, <1>4

\* The limits pass a call on or refuse it.
LEMMA CheckLimitsPhase ==
    ASSUME TypeOK, NEW c \in Calls, InPhase(c), CheckLimits(c)
    PROVE  Vetting(c) /\ (Vetting(c)' \/ Refusing(c)')
  <1>1. Vetting(c) /\ stage[c] = "limits"
    BY DEF CheckLimits, InPhase, Unseen, Vetting, Asking, Refusing, Cleared, Posted, Told, Offered
  <1> SUFFICES Vetting(c)' \/ Refusing(c)'
    BY <1>1
  <1>2. /\ Untold(c)' /\ Judged(c)' /\ basis'[c] = Nil /\ outcome'[c] = Nil
    BY <1>1 DEF CheckLimits, Vetting, Untold, Judged, world
  <1>3. CASE stage'[c] = "filters"
    BY <1>2, <1>3 DEF Vetting
  <1>4. CASE \E i \in DOMAIN boot.limits : Plan(c, OnLimited(mode, boot.limits[i]))
    <2>1. PICK i \in DOMAIN boot.limits : Plan(c, OnLimited(mode, boot.limits[i]))
      BY <1>4
    <2>2. OneOf("reply", OnLimited(mode, boot.limits[i]))
      BY LimitsType, LimitedOrBlockedRefuses DEF TypeOK, Types
    <2>3. stage'[c] = "effects" /\ todo'[c] = OnLimited(mode, boot.limits[i])
      BY <2>1 DEF Plan, TypeOK, Types
    <2> QED BY <1>2, <2>2, <2>3 DEF Refusing
  <1> QED BY <1>3, <1>4 DEF CheckLimits, TypeOK, Types, Short, Visited, Applying

\* The filters pass a call on or refuse it.
LEMMA CheckFiltersPhase ==
    ASSUME TypeOK, NEW c \in Calls, InPhase(c), CheckFilters(c)
    PROVE  Vetting(c) /\ (Vetting(c)' \/ Refusing(c)')
  <1>1. Vetting(c) /\ stage[c] = "filters"
    BY DEF CheckFilters, InPhase, Unseen, Vetting, Asking, Refusing, Cleared, Posted, Told, Offered
  <1> SUFFICES Vetting(c)' \/ Refusing(c)'
    BY <1>1
  <1>2. /\ Untold(c)' /\ Judged(c)' /\ basis'[c] = Nil /\ outcome'[c] = Nil
        /\ Blocked(c)' = Blocked(c)
    BY <1>1 DEF CheckFilters, Vetting, Untold, Judged, world, fixed, Blocked
  <1>3. CASE ~ Blocked(c)
    <2>1. stage'[c] = "rules" BY <1>3 DEF CheckFilters, Blocked, TypeOK, Types
    <2> QED BY <1>2, <1>3, <2>1 DEF Vetting
  <1>4. CASE Blocked(c)
    <2>1. PICK i \in DOMAIN boot.filters : Plan(c, OnBlocked(mode, boot.filters[i]))
      BY <1>4 DEF CheckFilters, Blocked, Blocking, FirstFinding
    <2>2. boot.filters[i] \in Filter
      <3>1. boot.filters \in Seq(Filter) BY DEF TypeOK, Types, PolicyFile
      <3> QED BY <3>1, ElementOfSeq, LenProperties
    <2>3. OneOf("reply", OnBlocked(mode, boot.filters[i]))
      BY <2>2, LimitedOrBlockedRefuses DEF TypeOK, Types
    <2>4. stage'[c] = "effects" /\ todo'[c] = OnBlocked(mode, boot.filters[i])
      BY <2>1 DEF Plan, TypeOK, Types
    <2> QED BY <1>2, <2>3, <2>4 DEF Refusing
  <1> QED BY <1>3, <1>4

\* The decision clears a call, refuses it or puts it to an approver.
LEMMA EvaluateRulesPhase ==
    ASSUME TypeOK, NEW c \in Calls, InPhase(c), EvaluateRules(c)
    PROVE  Vetting(c) /\ (Asking(c)' \/ Refusing(c)' \/ Cleared(c)')
  <1>1. Vetting(c) /\ stage[c] = "rules" /\ ~ Blocked(c)
    BY DEF EvaluateRules, InPhase, Unseen, Vetting, Asking, Refusing, Cleared, Posted, Told, Offered
  <1> SUFFICES Asking(c)' \/ Refusing(c)' \/ Cleared(c)'
    BY <1>1
  <1>2. PICK open \in SUBSET Windows :
           LET verdict == Evaluate(eng, open, request[c].tool, request[c].agent,
                                   request[c].content)
           IN /\ basis' = [basis EXCEPT ![c] = [eng |-> eng, open |-> open]]
              /\ Plan(c, OnDecided(mode, verdict, request[c].content))
    BY DEF EvaluateRules
  <1> DEFINE verdict == Evaluate(eng, open, request[c].tool, request[c].agent,
                                 request[c].content)
  <1>3. /\ Untold(c)' /\ Judged(c)' /\ outcome'[c] = Nil /\ ~ Blocked(c)'
    BY <1>1 DEF EvaluateRules, Vetting, Untold, Judged, world, fixed, Blocked
  <1>4. /\ basis'[c] = [eng |-> eng, open |-> open] /\ stage'[c] = "effects"
        /\ todo'[c] = OnDecided(mode, verdict, request[c].content)
    BY <1>2 DEF Plan, TypeOK, Types
  <1>5. basis'[c] # Nil
    BY <1>4, GuardAssumption DEF Basis, TypeOK, Types
  <1>6. verdict = Verdict(c)'
    BY <1>4 DEF EvaluateRules, Verdict
  <1>7. verdict \in EvalResult
    BY EvaluateType DEF TypeOK, Types
  <1> HIDE DEF verdict
  <1>8. Decided(c)'
    BY <1>3, <1>5 DEF Decided
  <1>9. CASE verdict.decision = "deny"
    <2>1. OneOf("reply", todo'[c])
      BY <1>4, <1>7, <1>9, DecidedPlan DEF TypeOK, Types
    <2> QED BY <1>3, <1>4, <2>1 DEF Refusing
  <1>10. CASE verdict.decision = "require_approval"
    <2>1. OneOf("reply", todo'[c]) \/ OneOf("ask", todo'[c])
      BY <1>4, <1>7, <1>10, DecidedPlan DEF TypeOK, Types
    <2> QED BY <1>3, <1>4, <1>6, <1>8, <1>10, <2>1 DEF Refusing, Asking
  <1>11. CASE verdict.decision \notin {"deny", "require_approval"}
    <2>1. OneOf("forward", todo'[c])
      BY <1>4, <1>7, <1>11, DecidedPlan DEF TypeOK, Types
    <2>2. Leave(c)'
      BY <1>3, <1>6, <1>8, <1>11 DEF Leave, HasLeave
    <2> QED BY <1>3, <1>4, <2>1, <2>2 DEF Cleared
  <1> QED BY <1>9, <1>10, <1>11

\* Only a cleared call is forwarded, by whichever transport.
LEMMA ForwardPhase ==
    ASSUME TypeOK, NEW c \in Calls, InPhase(c), WriteToChild(c) \/ PostUpstream(c)
    PROVE  Cleared(c) /\ (Posted(c)' \/ Offered(c)')
  <1>1. Doing(c, "forward")
    BY DEF WriteToChild, PostUpstream
  <1>2. /\ Cleared(c) /\ QuietSeq(Tail(todo[c])) /\ Leave(c) /\ sent[c] = <<>> /\ replies[c] = <<>>
    BY <1>1, PhaseOfEffect DEF Cleared, Untold
  <1> SUFFICES Posted(c)' \/ Offered(c)'
    BY <1>2
  <1>3. Leave(c)' = Leave(c)
    BY LeaveFrame DEF WriteToChild, PostUpstream, fixed
  <1>4. Len(sent'[c]) <= 1
    <2>1. sent'[c] = <<>> \/ sent'[c] = <<Head(todo[c]).as>>
      BY <1>2 DEF WriteToChild, PostUpstream, Deliver, TypeOK, Types
    <2>2. CASE sent'[c] = <<>> BY <2>2
    <2>3. CASE sent'[c] = <<Head(todo[c]).as>>
      <3> DEFINE x == Head(todo[c]).as
      <3>1. Len(<<x>>) = 1 OBVIOUS
      <3> HIDE DEF x
      <3> QED BY <2>3, <3>1 DEF x
    <2> QED BY <2>1, <2>2, <2>3
  <1>5. replies'[c] = <<>> BY <1>2 DEF WriteToChild, PostUpstream
  <1>6. CASE WriteToChild(c)
    <2>1. todo'[c] = Tail(todo[c]) /\ stage'[c] \in {"effects", "done"}
      BY <1>6 DEF WriteToChild, Proceed, TypeOK, Types
    <2> QED BY <1>2, <1>3, <1>4, <1>5, <2>1 DEF Offered
  <1>7. CASE PostUpstream(c)
    <2>1. todo'[c] = todo[c] /\ stage'[c] = "upstream" /\ mode' # "stdio"
      BY <1>7 DEF PostUpstream, TypeOK, Types, fixed
    <2> QED BY <1>1, <1>2, <1>3, <1>4, <1>5, <2>1 DEF Posted, Cleared, Doing
  <1> QED BY <1>6, <1>7

\* The end of a posted request, answered or failed, is that of an offered call.
LEMMA UpstreamPhase ==
    ASSUME TypeOK, NEW c \in Calls, InPhase(c), UpstreamAnswers(c) \/ UpstreamFails(c)
    PROVE  Posted(c) /\ Offered(c)' /\ sent'[c] = sent[c]
  <1>1. stage[c] = "upstream"
    BY DEF UpstreamAnswers, UpstreamFails
  <1>2. Posted(c)
    BY <1>1 DEF InPhase, Unseen, Vetting, Asking, Refusing, Cleared, Told, Offered
  <1>3. QuietSeq(Tail(todo[c]))
    BY <1>2, TailOfPlan DEF Posted, Quiet
  <1>4. Leave(c)' /\ Len(sent'[c]) <= 1
    BY <1>2, LeaveFrame DEF UpstreamAnswers, UpstreamFails, fixed, Posted
  <1>5. todo'[c] = Tail(todo[c]) /\ stage'[c] \in {"effects", "done"}
    BY DEF UpstreamAnswers, UpstreamFails, Proceed, TypeOK, Types
  <1>6. \/ replies'[c] = <<>> \/ replies'[c] = <<"result">>
        \/ replies'[c] = <<"bad_gateway">>
    BY <1>2 DEF UpstreamAnswers, UpstreamFails, Posted, TypeOK, Types
  <1>7. Len(replies'[c]) <= 1 /\ \A i \in DOMAIN replies'[c] : replies'[c][i] \notin Refusals
    <2>1. CASE replies'[c] = <<>> BY <2>1
    <2>2. CASE replies'[c] = <<"result">> BY <2>2 DEF Refusals
    <2>3. CASE replies'[c] = <<"bad_gateway">> BY <2>3 DEF Refusals
    <2> QED BY <1>6, <2>1, <2>2, <2>3
  <1>8. Offered(c)' BY <1>3, <1>4, <1>5, <1>7 DEF Offered
  <1> QED BY <1>2, <1>8 DEF UpstreamAnswers, UpstreamFails

\* Only a refused call is answered with an error.
LEMMA ReplyErrorPhase ==
    ASSUME TypeOK, NEW c \in Calls, InPhase(c), ReplyError(c)
    PROVE  Refusing(c) /\ Told(c)'
  <1>1. Refusing(c) /\ QuietSeq(Tail(todo[c]))
    BY PhaseOfEffect DEF ReplyError
  <1> SUFFICES Told(c)'
    BY <1>1
  <1>2. Head(todo[c]).as \in Refusals
    BY NextEffect, EffectArgument DEF ReplyError, Doing
  <1>3. replies'[c] = <<Head(todo[c]).as>> /\ sent'[c] = <<>>
    BY <1>1 DEF ReplyError, Refusing, Untold, TypeOK, Types
  <1>4. todo'[c] = Tail(todo[c]) /\ stage'[c] \in {"effects", "done"}
    BY DEF ReplyError, Proceed, TypeOK, Types
  <1>5. Len(replies'[c]) = 1 /\ replies'[c][1] \in Refusals
    BY <1>2, <1>3
  <1> QED BY <1>1, <1>3, <1>4, <1>5 DEF Told

\* A record or an alert leaves a call in its phase.
LEMMA QuietPhase ==
    ASSUME TypeOK, NEW c \in Calls, InPhase(c), EmitAudit(c) \/ FireEscalation(c)
    PROVE  /\ \/ Asking(c) /\ Asking(c)'
              \/ Refusing(c) /\ Refusing(c)'
              \/ Cleared(c) /\ Cleared(c)'
              \/ Told(c) /\ Told(c)'
              \/ Offered(c) /\ Offered(c)'
           /\ sent'[c] = sent[c] /\ replies'[c] = replies[c]
  <1>1. PICK op \in Quiet : Doing(c, op)
    BY DEF EmitAudit, FireEscalation, Quiet
  <1>2. /\ UNCHANGED <<mode, boot>> /\ request'[c] = request[c] /\ result'[c] = result[c]
        /\ sent'[c] = sent[c] /\ replies'[c] = replies[c] /\ basis'[c] = basis[c]
        /\ outcome'[c] = outcome[c] /\ todo'[c] = Tail(todo[c])
        /\ stage'[c] = IF Tail(todo[c]) = <<>> THEN "done" ELSE "effects"
    BY DEF EmitAudit, FireEscalation, Proceed, fixed, TypeOK, Types
  <1>3. /\ Leave(c)' = Leave(c) /\ Decided(c)' = Decided(c) /\ Blocked(c)' = Blocked(c)
        /\ Verdict(c)' = Verdict(c) /\ Untold(c)' = Untold(c)
    BY <1>2, LeaveFrame DEF Untold
  <1>4. stage[c] = "effects" BY <1>1 DEF Doing
  <1>5. CASE Asking(c) /\ OneOf("ask", Tail(todo[c]))
    <2>1. stage'[c] = "effects" BY <1>2, <1>5, TailOfPlan
    <2> QED BY <1>2, <1>3, <1>5, <2>1 DEF Asking
  <1>6. CASE Refusing(c) /\ OneOf("reply", Tail(todo[c]))
    <2>1. stage'[c] = "effects" BY <1>2, <1>6, TailOfPlan
    <2> QED BY <1>2, <1>3, <1>6, <2>1 DEF Refusing
  <1>7. CASE Cleared(c) /\ OneOf("forward", Tail(todo[c]))
    <2>1. stage'[c] = "effects" BY <1>2, <1>7, TailOfPlan
    <2> QED BY <1>2, <1>3, <1>7, <2>1 DEF Cleared
  <1>8. CASE Told(c) /\ QuietSeq(Tail(todo[c]))
    BY <1>2, <1>8 DEF Told
  <1>9. CASE Offered(c) /\ QuietSeq(Tail(todo[c]))
    BY <1>2, <1>3, <1>9 DEF Offered
  <1> QED BY <1>1, <1>2, <1>5, <1>6, <1>7, <1>8, <1>9, PhaseOfEffect

\* A handler that asks goes on asking.
LEMMA AskApprovalPhase ==
    ASSUME TypeOK, NEW c \in Calls, InPhase(c), AskApproval(c)
    PROVE  Asking(c) /\ Asking(c)'
  <1>1. Asking(c) /\ Head(todo[c]).op = "ask"
    BY PhaseOfEffect DEF AskApproval, Doing
  <1>2. /\ Decided(c)' = Decided(c) /\ Blocked(c)' = Blocked(c) /\ Verdict(c)' = Verdict(c)
        /\ Untold(c)' = Untold(c)
    BY LeaveFrame DEF AskApproval, fixed, world, Untold
  <1>3. stage'[c] = "asking" /\ todo'[c] = todo[c] /\ outcome'[c] = outcome[c]
    BY DEF AskApproval, TypeOK, Types
  <1> QED BY <1>1, <1>2, <1>3 DEF Asking

\* The end of an approval clears the call it was asked for or refuses it.
LEMMA SettlePhase ==
    ASSUME TypeOK, NEW c \in Calls, InPhase(c), Settle(c)
    PROVE  Asking(c) /\ (Cleared(c)' \/ Refusing(c)')
  <1>1. Asking(c)
    BY DEF Settle, InPhase, Unseen, Vetting, Refusing, Cleared, Posted, Told, Offered
  <1> SUFFICES Cleared(c)' \/ Refusing(c)'
    BY <1>1
  <1>2. PICK how : outcome' = [outcome EXCEPT ![c] = how] /\ Plan(c, OnSettled(mode, how))
    BY DEF Settle
  <1>3. /\ outcome'[c] = how /\ stage'[c] = "effects" /\ todo'[c] = OnSettled(mode, how)
    BY <1>2 DEF Plan, TypeOK, Types
  <1>4. /\ Judged(c)' = Judged(c) /\ Decided(c)' /\ ~ Blocked(c)'
        /\ Verdict(c)'.decision = "require_approval" /\ Untold(c)'
    BY <1>1 DEF Settle, Asking, fixed, world, Judged, Decided, Blocked, Verdict, Untold
  <1>5. CASE how = "approved"
    <2>1. OneOf("forward", todo'[c])
      BY <1>3, <1>5, SettledPlan DEF TypeOK, Types
    <2>2. Leave(c)' BY <1>3, <1>4, <1>5 DEF Leave, HasLeave
    <2> QED BY <1>3, <1>4, <2>1, <2>2 DEF Cleared
  <1>6. CASE how # "approved"
    <2>1. OneOf("reply", todo'[c])
      BY <1>3, <1>6, SettledPlan DEF TypeOK, Types
    <2> QED BY <1>3, <1>4, <2>1 DEF Refusing
  <1> QED BY <1>5, <1>6

\* The child answers calls it was offered.
LEMMA ChildAnswersPhase ==
    ASSUME TypeOK, NEW c \in Calls, InPhase(c), ChildAnswers(c)
    PROVE  Offered(c) /\ Offered(c)' /\ sent'[c] = sent[c]
  <1>1. Offered(c)
    BY DEF ChildAnswers, InPhase, Unseen, Vetting, Asking, Refusing, Cleared, Posted,
           Told, Untold
  <1>2. Leave(c)' = Leave(c)
    BY LeaveFrame DEF ChildAnswers, fixed
  <1>3. replies'[c] = <<"result">>
    BY DEF ChildAnswers, TypeOK, Types
  <1>4. Len(replies'[c]) <= 1 /\ \A i \in DOMAIN replies'[c] : replies'[c][i] \notin Refusals
    BY <1>3 DEF Refusals
  <1> QED BY <1>1, <1>2, <1>4 DEF ChildAnswers, Offered

(***************************************************************************)
(* The invariant.                                                          *)
(***************************************************************************)

\* The step of one handler leaves every other call alone.
LEMMA OthersUntouched ==
    ASSUME TypeOK, NEW c \in Calls, NEW d \in Calls \ {c},
           \/ \E m \in Messages : Receive(c, m)
           \/ Handler(c) \/ ChildAnswers(c)
    PROVE  /\ UNCHANGED <<mode, boot>> /\ stage'[d] = stage[d] /\ todo'[d] = todo[d]
           /\ request'[d] = request[d] /\ result'[d] = result[d]
           /\ basis'[d] = basis[d] /\ outcome'[d] = outcome[d]
           /\ sent'[d] = sent[d] /\ replies'[d] = replies[d]
  <1>1. UNCHANGED <<mode, boot>>
    BY DEF Receive, Handler, CheckLimits, CheckFilters, EvaluateRules, WriteToChild, PostUpstream,
           UpstreamAnswers, UpstreamFails, ReplyError, EmitAudit, FireEscalation, AskApproval,
           Settle, ChildAnswers, fixed
  <1>2. stage'[d] = stage[d] /\ todo'[d] = todo[d]
    BY DEF Receive, Handler, CheckLimits, CheckFilters, EvaluateRules, WriteToChild, PostUpstream,
           UpstreamAnswers, UpstreamFails, ReplyError, EmitAudit, FireEscalation, AskApproval,
           Settle, ChildAnswers, Plan, Proceed, TypeOK, Types
  <1>3. request'[d] = request[d] /\ result'[d] = result[d]
    BY DEF Receive, Handler, CheckLimits, CheckFilters, EvaluateRules, WriteToChild, PostUpstream,
           UpstreamAnswers, UpstreamFails, ReplyError, EmitAudit, FireEscalation, AskApproval,
           Settle, ChildAnswers, TypeOK, Types
  <1>4. basis'[d] = basis[d] /\ outcome'[d] = outcome[d]
    BY DEF Receive, Handler, CheckLimits, CheckFilters, EvaluateRules, WriteToChild, PostUpstream,
           UpstreamAnswers, UpstreamFails, ReplyError, EmitAudit, FireEscalation, AskApproval,
           Settle, ChildAnswers, TypeOK, Types
  <1>5. sent'[d] = sent[d] /\ replies'[d] = replies[d]
    BY DEF Receive, Handler, CheckLimits, CheckFilters, EvaluateRules, WriteToChild, PostUpstream,
           UpstreamAnswers, UpstreamFails, ReplyError, EmitAudit, FireEscalation, AskApproval,
           Settle, ChildAnswers, Deliver, world, TypeOK, Types
  <1> QED BY <1>1, <1>2, <1>3, <1>4, <1>5

\* Every call is at all times in one of the phases Unseen .. Offered.
THEOREM PhaseInvariant == Spec => []Phased
  <1>1. Init => Phased
    <2> SUFFICES ASSUME Init, NEW c \in Calls PROVE InPhase(c)
      BY DEF Phased
    <2> QED BY DEF Init, InPhase, Unseen, Untold
  <1>2. TypeOK /\ Phased /\ [Next]_vars => Phased'
    <2> SUFFICES ASSUME TypeOK, Phased, [Next]_vars, NEW d \in Calls PROVE InPhase(d)'
      BY DEF Phased
    <2>1. InPhase(d) BY DEF Phased
    <2>2. ASSUME NEW c \in Calls, c # d,
                 (\E m \in Messages : Receive(c, m)) \/ Handler(c) \/ ChildAnswers(c)
          PROVE  InPhase(d)'
      BY <2>1, <2>2, OthersUntouched, PhaseFrame
    <2>3. ASSUME NEW m \in Messages, Receive(d, m) PROVE InPhase(d)'
      BY <2>1, <2>3, ReceivePhase DEF InPhase
    <2>4. ASSUME Handler(d) PROVE InPhase(d)'
      BY <2>1, <2>4, CheckLimitsPhase, CheckFiltersPhase, EvaluateRulesPhase, ForwardPhase,
         UpstreamPhase, ReplyErrorPhase, QuietPhase, AskApprovalPhase, SettlePhase
      DEF Handler, InPhase
    <2>5. ASSUME ChildAnswers(d) PROVE InPhase(d)'
      BY <2>1, <2>5, ChildAnswersPhase DEF InPhase
    <2>6. ASSUME NEW file \in Files, Reload(file) PROVE InPhase(d)'
      BY <2>1, <2>6, PhaseFrame DEF Reload, fixed, world
    <2>7. CASE UNCHANGED vars
      BY <2>1, <2>7, PhaseFrame DEF vars, fixed, world
    <2> QED BY <2>2, <2>3, <2>4, <2>5, <2>6, <2>7 DEF Next
  <1> QED BY <1>1, <1>2, Typing, PTL DEF Spec

\* No tool call reaches the server without leave.
THEOREM NothingPassesWithoutLeave == Spec => []PassedWithLeave
  <1>1. Phased => PassedWithLeave
    <2> SUFFICES ASSUME NEW c \in Calls, InPhase(c), Judged(c), sent[c] # <<>>
                 PROVE  HasLeave(c)
      BY DEF Phased, PassedWithLeave
    <2> QED BY DEF InPhase, Unseen, Vetting, Asking, Refusing, Cleared, Posted, Told, Offered,
                   Untold, Leave
  <1> QED BY <1>1, PhaseInvariant, PTL

\* A call is forwarded at most once, answered at most once, and never both
\* refused and forwarded.
THEOREM EveryCallHasOneFate == Spec => []OneFate
  <1>1. TypeOK /\ Phased => OneFate
    <2> SUFFICES ASSUME TypeOK, NEW c \in Calls, InPhase(c)
                 PROVE  /\ Len(sent[c]) <= 1 /\ Len(replies[c]) <= 1
                        /\ Refused(c) => sent[c] = <<>> /\ ~ Forwarding(c)
      BY DEF Phased, OneFate
    <2>1. Len(<<>>) = 0 /\ DOMAIN <<>> = {}
      OBVIOUS
    <2>2. CASE Unseen(c) \/ Vetting(c) \/ Asking(c) \/ Refusing(c) \/ Cleared(c)
      BY <2>1, <2>2 DEF Unseen, Vetting, Asking, Refusing, Cleared, Untold, Refused
    <2>3. CASE Posted(c)
      BY <2>1, <2>3 DEF Posted, Refused
    <2>4. CASE Told(c)
      BY <2>1, <2>4 DEF Told, QuietSeq, Quiet, Forwarding
    <2>5. CASE Offered(c)
      BY <2>5 DEF Offered, Refused
    <2> QED BY <2>2, <2>3, <2>4, <2>5 DEF InPhase
  <1> QED BY <1>1, Typing, PhaseInvariant, PTL

(***************************************************************************)
(* Guard implements the safety part of ToolGate.                           *)
(***************************************************************************)

\* The decisive effect of a plan is the only one of its kind.
LEMMA PlanHas ==
    ASSUME NEW c, NEW op \in {"forward", "reply", "ask"}
    PROVE  /\ OneOf(op, todo[c]) => \A o \in {"forward", "reply", "ask"} : Has(c, o) <=> o = op
           /\ QuietSeq(todo[c]) => \A o \in {"forward", "reply", "ask"} : ~ Has(c, o)
  BY DEF OneOf, QuietSeq, Has, Quiet

\* What ToolGate sees of a call in each phase.
Seen(c) ==
    /\ Unseen(c) => FateOf(c) = "unseen"
    /\ Vetting(c) \/ Asking(c) => FateOf(c) = "held"
    /\ Refusing(c) \/ Told(c) => FateOf(c) = "refused"
    /\ Cleared(c) => FateOf(c) = "cleared"
    /\ Posted(c) \/ Offered(c) => FateOf(c) = "offered"
    /\ Untold(c) => Len(sent[c]) = 0 /\ AnswerTo(c) = "none"
    /\ Told(c) => Len(sent[c]) = 0 /\ AnswerTo(c) = "refusal"
    /\ Offered(c) => AnswerTo(c) = IF replies[c] = <<>> THEN "none" ELSE "other"

\* In every state the phase of a call determines what ToolGate sees of it.
LEMMA GateView == \A c : Seen(c)
  <1> SUFFICES ASSUME NEW c PROVE Seen(c)
    OBVIOUS
  <1>1. Len(<<>>) = 0 /\ DOMAIN <<>> = {}
    OBVIOUS
  <1>2. Forwarding(c) <=> Has(c, "forward")
    BY DEF Forwarding, Has
  <1>3. replies[c] = <<>> => ~ Refused(c)
    BY <1>1 DEF Refused
  <1>4. Told(c) => Refused(c) /\ replies[c] # <<>>
    <2> SUFFICES ASSUME Told(c) PROVE Refused(c) /\ replies[c] # <<>>
      OBVIOUS
    <2>1. Len(replies[c]) = 1 /\ replies[c][1] \in Refusals
      BY DEF Told
    <2>2. CASE 1 \in DOMAIN replies[c]
      BY <1>1, <2>1, <2>2 DEF Refused
    <2> QED BY <2>1, <2>2
  <1>5. Offered(c) => ~ Refused(c)
    BY DEF Offered, Refused
  <1>6. Unseen(c) => FateOf(c) = "unseen"
    BY DEF Unseen, FateOf
  <1>7. Vetting(c) \/ Asking(c) => FateOf(c) = "held"
    BY PlanHas DEF Vetting, Asking, FateOf
  <1>8. Refusing(c) => FateOf(c) = "refused"
    BY PlanHas DEF Refusing, FateOf
  <1>9. Told(c) => FateOf(c) = "refused"
    BY <1>4, PlanHas DEF Told, FateOf
  <1>10. Cleared(c) => FateOf(c) = "cleared"
    BY <1>2, <1>3, PlanHas DEF Cleared, Untold, FateOf
  <1>11. Posted(c) => FateOf(c) = "offered"
    BY <1>2, <1>3, PlanHas DEF Posted, FateOf
  <1>12. Offered(c) => FateOf(c) = "offered"
    BY <1>2, <1>5, PlanHas DEF Offered, FateOf
  <1>13. Told(c) => sent[c] = <<>>
    BY DEF Told
  <1> QED BY <1>1, <1>3, <1>4, <1>5, <1>6, <1>7, <1>8, <1>9, <1>10, <1>11, <1>12, <1>13
          DEF AnswerTo, Untold, Seen

\* A step that changes what ToolGate sees of one call only, in a way ToolGate
\* allows, is a step of ToolGate or leaves all it sees unchanged.
LEMMA GateStep ==
    ASSUME NEW c \in Calls,
           \A d \in Calls \ {c} : /\ FateOf(d)' = FateOf(d) /\ AnswerTo(d)' = AnswerTo(d)
                                 /\ sent'[d] = sent[d],
           \/ /\ AnswerTo(c)' = AnswerTo(c) /\ Len(sent'[c]) = Len(sent[c])
              /\ \/ FateOf(c)' = FateOf(c)
                 \/ FateOf(c) = "unseen" /\ FateOf(c)' \in {"held", "cleared"}
                 \/ FateOf(c) = "held" /\ FateOf(c)' \in {"cleared", "refused"}
           \/ /\ FateOf(c) = "cleared" /\ FateOf(c)' = "offered"
              /\ AnswerTo(c)' = AnswerTo(c) /\ Len(sent'[c]) \in {0, 1}
           \/ /\ FateOf(c)' = FateOf(c) /\ Len(sent'[c]) = Len(sent[c])
              /\ AnswerTo(c) = "none"
              /\ \/ FateOf(c) = "refused" /\ AnswerTo(c)' = "refusal"
                 \/ FateOf(c) = "offered" /\ AnswerTo(c)' = "other"
    PROVE  [Gate!GateNext]_(Gate!gateVars)
  <1> DEFINE fate == [d \in Calls |-> FateOf(d)]
             delivered == [d \in Calls |-> Len(sent[d])]
             answer == [d \in Calls |-> AnswerTo(d)]
  <1>1. /\ fate' = [fate EXCEPT ![c] = FateOf(c)']
        /\ delivered' = [delivered EXCEPT ![c] = Len(sent'[c])]
        /\ answer' = [answer EXCEPT ![c] = AnswerTo(c)']
    OBVIOUS
  <1>2. CASE /\ AnswerTo(c)' = AnswerTo(c) /\ Len(sent'[c]) = Len(sent[c])
             /\ FateOf(c)' = FateOf(c)
    BY <1>1, <1>2 DEF Gate!gateVars
  <1>3. CASE /\ AnswerTo(c)' = AnswerTo(c) /\ Len(sent'[c]) = Len(sent[c])
             /\ FateOf(c) = "unseen" /\ FateOf(c)' \in {"held", "cleared"}
    <2>1. Gate!Submit(c) BY <1>1, <1>3 DEF Gate!Submit
    <2> QED BY <2>1 DEF Gate!GateNext
  <1>4. CASE /\ AnswerTo(c)' = AnswerTo(c) /\ Len(sent'[c]) = Len(sent[c])
             /\ FateOf(c) = "held" /\ FateOf(c)' \in {"cleared", "refused"}
    <2>1. Gate!Rule(c) BY <1>1, <1>4 DEF Gate!Rule
    <2> QED BY <2>1 DEF Gate!GateNext
  <1>5. CASE /\ FateOf(c) = "cleared" /\ FateOf(c)' = "offered"
             /\ AnswerTo(c)' = AnswerTo(c) /\ Len(sent'[c]) \in {0, 1}
    <2>1. Gate!Offer(c) BY <1>1, <1>5 DEF Gate!Offer
    <2> QED BY <2>1 DEF Gate!GateNext
  <1>6. CASE /\ FateOf(c)' = FateOf(c) /\ Len(sent'[c]) = Len(sent[c])
             /\ AnswerTo(c) = "none"
             /\ FateOf(c) = "refused" /\ AnswerTo(c)' = "refusal"
    <2>1. Gate!TellRefusal(c) BY <1>1, <1>6 DEF Gate!TellRefusal
    <2> QED BY <2>1 DEF Gate!GateNext
  <1>7. CASE /\ FateOf(c)' = FateOf(c) /\ Len(sent'[c]) = Len(sent[c])
             /\ AnswerTo(c) = "none"
             /\ FateOf(c) = "offered" /\ AnswerTo(c)' = "other"
    <2>1. Gate!Relay(c) BY <1>1, <1>7 DEF Gate!Relay
    <2> QED BY <2>1 DEF Gate!GateNext
  <1> QED BY <1>2, <1>3, <1>4, <1>5, <1>6, <1>7

\* Guard behaves as ToolGate promises: one ruling per call, at most one
\* forwarding, only of cleared calls, and one answer.
THEOREM GuardIsAToolGate ==
    Spec => Gate!GateInit /\ [][Gate!GateNext]_(Gate!gateVars)
  <1>1. Init => Gate!GateInit
    <2> SUFFICES ASSUME Init PROVE Gate!GateInit
      OBVIOUS
    <2>1. \A c \in Calls : Unseen(c)
      BY DEF Init, Unseen, Untold
    <2>2. \A c \in Calls : FateOf(c) = "unseen" /\ Len(sent[c]) = 0 /\ AnswerTo(c) = "none"
      BY <2>1, GateView DEF Unseen, Seen
    <2> QED BY <2>2 DEF Gate!GateInit
  <1>0. (\A c : Seen(c))'
    BY GateView, PTL
  <1>2. TypeOK /\ TypeOK' /\ Phased /\ Phased' /\ [Next]_vars => [Gate!GateNext]_(Gate!gateVars)
    <2> SUFFICES ASSUME TypeOK, TypeOK', Phased, Phased', [Next]_vars
                 PROVE  [Gate!GateNext]_(Gate!gateVars)
      OBVIOUS
    <2>1. ASSUME NEW d, stage'[d] = stage[d], todo'[d] = todo[d], sent'[d] = sent[d],
                 replies'[d] = replies[d]
          PROVE  FateOf(d)' = FateOf(d) /\ AnswerTo(d)' = AnswerTo(d)
      BY <2>1 DEF FateOf, AnswerTo, Has, Forwarding, Refused
    <2>2. ASSUME NEW c \in Calls,
                 (\E m \in Messages : Receive(c, m)) \/ Handler(c) \/ ChildAnswers(c),
                 NEW d \in Calls \ {c}
          PROVE  FateOf(d)' = FateOf(d) /\ AnswerTo(d)' = AnswerTo(d) /\ sent'[d] = sent[d]
      BY <2>1, <2>2, OthersUntouched
    <2>3. \A c \in Calls : InPhase(c)
      BY DEF Phased
    <2>4. /\ \A c : Unseen(c) \/ Vetting(c) \/ Asking(c) \/ Refusing(c) \/ Cleared(c)
                    => sent[c] = <<>> /\ replies[c] = <<>>
          /\ (\A c : Unseen(c) \/ Vetting(c) \/ Asking(c) \/ Refusing(c) \/ Cleared(c)
                    => sent[c] = <<>> /\ replies[c] = <<>>)'
      BY DEF Unseen, Vetting, Asking, Refusing, Cleared, Untold
    <2>5. (\A c : Seen(c)) /\ (\A c : Seen(c))'
      BY <1>0, GateView
    <2>6. ASSUME NEW c \in Calls, NEW m \in Messages, Receive(c, m)
          PROVE  [Gate!GateNext]_(Gate!gateVars)
      <3>1. Unseen(c) /\ (Vetting(c)' \/ Cleared(c)')
        BY <2>3, <2>6, ReceivePhase
      <3>2. /\ FateOf(c) = "unseen" /\ FateOf(c)' \in {"held", "cleared"}
            /\ AnswerTo(c)' = AnswerTo(c) /\ Len(sent'[c]) = Len(sent[c])
        BY <3>1, <2>4, <2>5 DEF Seen, Untold
      <3> QED BY <2>2, <2>6, <3>2, GateStep
    <2>7. ASSUME NEW c \in Calls, CheckLimits(c) \/ CheckFilters(c) \/ EvaluateRules(c)
          PROVE  [Gate!GateNext]_(Gate!gateVars)
      <3>1. Vetting(c) /\ (Vetting(c)' \/ Asking(c)' \/ Refusing(c)' \/ Cleared(c)')
        BY <2>3, <2>7, CheckLimitsPhase, CheckFiltersPhase, EvaluateRulesPhase
      <3>2. /\ FateOf(c) = "held" /\ FateOf(c)' \in {"held", "cleared", "refused"}
            /\ AnswerTo(c)' = AnswerTo(c) /\ Len(sent'[c]) = Len(sent[c])
        BY <3>1, <2>4, <2>5 DEF Seen, Untold
      <3> QED BY <2>2, <2>7, <3>2, GateStep DEF Handler
    <2>8. ASSUME NEW c \in Calls, WriteToChild(c) \/ PostUpstream(c)
          PROVE  [Gate!GateNext]_(Gate!gateVars)
      <3>1. Cleared(c) /\ (Posted(c)' \/ Offered(c)')
        BY <2>3, <2>8, ForwardPhase
      <3>2. replies[c] = <<>> /\ replies'[c] = <<>>
        BY <2>4, <2>8, <3>1 DEF WriteToChild, PostUpstream
      <3>3. Len(sent'[c]) \in {0, 1}
        <4>1. sent'[c] \in Seq(Bodies) BY DEF TypeOK, Types
        <4>2. Len(sent'[c]) \in Nat BY <4>1, LenProperties
        <4>3. Len(sent'[c]) <= 1 BY <3>1 DEF Posted, Offered
        <4>4. \A n \in Nat : n <= 1 => n \in {0, 1} OBVIOUS
        <4> QED BY <4>2, <4>3, <4>4
      <3>4. /\ FateOf(c) = "cleared" /\ FateOf(c)' = "offered" /\ AnswerTo(c)' = AnswerTo(c)
        BY <3>1, <3>2, <2>5 DEF Seen, AnswerTo
      <3> QED BY <2>2, <2>8, <3>3, <3>4, GateStep DEF Handler
    <2>9. ASSUME NEW c \in Calls, UpstreamAnswers(c) \/ UpstreamFails(c) \/ ChildAnswers(c)
          PROVE  [Gate!GateNext]_(Gate!gateVars)
      <3>1. (Posted(c) \/ Offered(c)) /\ Offered(c)' /\ sent'[c] = sent[c] /\ replies[c] = <<>>
        BY <2>3, <2>9, UpstreamPhase, ChildAnswersPhase DEF Posted, ChildAnswers
      <3>2. /\ FateOf(c) = "offered" /\ FateOf(c)' = "offered"
            /\ AnswerTo(c) = "none" /\ AnswerTo(c)' \in {"none", "other"}
        BY <3>1, <2>5 DEF Seen, AnswerTo
      <3> QED BY <2>2, <2>9, <3>1, <3>2, GateStep DEF Handler
    <2>10. ASSUME NEW c \in Calls, ReplyError(c) PROVE [Gate!GateNext]_(Gate!gateVars)
      <3>1. Refusing(c) /\ Told(c)'
        BY <2>3, <2>10, ReplyErrorPhase
      <3>2. /\ FateOf(c) = "refused" /\ FateOf(c)' = "refused" /\ Len(sent'[c]) = Len(sent[c])
            /\ AnswerTo(c) = "none" /\ AnswerTo(c)' = "refusal"
        BY <3>1, <2>4, <2>5 DEF Seen, Untold
      <3> QED BY <2>2, <2>10, <3>2, GateStep DEF Handler
    <2>11. ASSUME NEW c \in Calls, EmitAudit(c) \/ FireEscalation(c)
           PROVE  [Gate!GateNext]_(Gate!gateVars)
      <3>1. /\ \/ Asking(c) /\ Asking(c)'
               \/ Refusing(c) /\ Refusing(c)'
               \/ Cleared(c) /\ Cleared(c)'
               \/ Told(c) /\ Told(c)'
               \/ Offered(c) /\ Offered(c)'
            /\ sent'[c] = sent[c] /\ replies'[c] = replies[c]
        BY <2>3, <2>11, QuietPhase
      <3>2. FateOf(c)' = FateOf(c)
        BY <3>1, <2>5 DEF Seen
      <3>3. AnswerTo(c)' = AnswerTo(c)
        BY <3>1 DEF AnswerTo, Refused
      <3> QED BY <2>2, <2>11, <3>1, <3>2, <3>3, GateStep DEF Handler
    <2>12. ASSUME NEW c \in Calls, AskApproval(c) \/ Settle(c)
           PROVE  [Gate!GateNext]_(Gate!gateVars)
      <3>1. Asking(c) /\ (Asking(c)' \/ Refusing(c)' \/ Cleared(c)')
        BY <2>3, <2>12, AskApprovalPhase, SettlePhase
      <3>2. /\ FateOf(c) = "held" /\ FateOf(c)' \in {"held", "cleared", "refused"}
            /\ AnswerTo(c)' = AnswerTo(c) /\ Len(sent'[c]) = Len(sent[c])
        BY <3>1, <2>4, <2>5 DEF Seen, Untold
      <3> QED BY <2>2, <2>12, <3>2, GateStep DEF Handler
    <2>13. CASE (\E file \in Files : Reload(file)) \/ UNCHANGED vars
      <3>1. \A d : /\ FateOf(d)' = FateOf(d) /\ AnswerTo(d)' = AnswerTo(d)
                   /\ sent'[d] = sent[d]
        BY <2>1, <2>13 DEF Reload, vars, world
      <3> QED BY <3>1 DEF Gate!gateVars
    <2> QED BY <2>6, <2>7, <2>8, <2>9, <2>10, <2>11, <2>12, <2>13 DEF Next, Handler
  <1> QED BY <1>1, <1>2, Typing, PhaseInvariant, PTL DEF Spec

(***************************************************************************)
(* The limits grant no more than they hold.                                *)
(***************************************************************************)

\* A set of numbers has a least one: of its initial segments one is smallest.
LEMMA Least ==
    ASSUME NEW A \in SUBSET Nat, A # {}
    PROVE  \E x \in A : \A y \in A : x <= y
  <1> DEFINE Segments == {1 .. x : x \in A}
  <1>1. Segments \subseteq FiniteSubsetsOf(Nat) /\ Segments # {}
    <2>1. \A x \in A : IsFiniteSet(1 .. x) /\ 1 .. x \subseteq Nat
      BY FS_Interval
    <2> QED BY <2>1 DEF FiniteSubsetsOf
  <1>2. PICK s \in Segments : \A t \in Segments : ~ (<<t, s>> \in StrictSubsetOrdering(Nat))
    BY <1>1, FS_StrictSubsetOrderingWellFounded, WFMin
  <1>3. PICK x \in A : s = 1 .. x
    BY <1>2
  <1>4. ASSUME NEW y \in A, ~ (x <= y) PROVE FALSE
    <2>1. 1 .. y \subseteq 1 .. x /\ x \in 1 .. x /\ x \notin 1 .. y
      BY <1>4
    <2>2. 1 .. y \in SUBSET Nat /\ 1 .. x \in SUBSET Nat /\ 1 .. y # 1 .. x
      BY <2>1
    <2>3. <<1 .. y, 1 .. x>> \in StrictSubsetOrdering(Nat)
      BY <2>1, <2>2 DEF StrictSubsetOrdering
    <2> QED BY <1>2, <1>3, <2>3
  <1> QED BY <1>4

\* When no limit on the way is found empty, every limit that applies is visited.
LEMMA AllVisited ==
    ASSUME boot \in PolicyFile, NEW m, NEW level, Short(m, level) = {}
    PROVE  \A i \in Applying(m) : i \in Visited(m, level) /\ level[i] # 0
  <1> DEFINE Empty == {i \in Applying(m) : level[i] = 0}
  <1>1. Applying(m) \subseteq Nat
    <2>1. boot.limits \in Seq(Limit) BY DEF PolicyFile
    <2>2. DOMAIN boot.limits = 1 .. Len(boot.limits) /\ Len(boot.limits) \in Nat
      BY <2>1, LenProperties
    <2> QED BY <2>2 DEF Applying
  <1>2. CASE Empty # {}
    <2>1. PICK i \in Empty : \A j \in Empty : i <= j
      BY <1>1, <1>2, Least
    <2>2. i \in Short(m, level)
      BY <1>1, <2>1 DEF Short, Visited
    <2> QED BY <2>2
  <1>3. CASE Empty = {}
    BY <1>3 DEF Visited
  <1> QED BY <1>2, <1>3

\* The calls a key of a limit was charged for, or that passed it.
Past(k) == {c \in Calls : /\ Judged(c) /\ stage[c] \notin {"idle", "limits"}
                          /\ FateOf(c) # "refused"
                          /\ request[c].tool \in boot.limits[k[1]].tools
                          /\ KeyValue(boot.limits[k[1]], request[c]) = k[2]}
Within(k) == /\ IsFiniteSet(Past(k))
             /\ Cardinality(Past(k)) + budget[k] <= boot.limits[k[1]].requests
Thrift == ~ Refills => \A k \in LimitKeys(boot) : Within(k)

\* A step that charges a key and lets no call past it keeps within the limit,
\* and so does one that lets one past and charges it.
LEMMA StillWithin ==
    ASSUME TypeOK, TypeOK', NEW k \in LimitKeys(boot), Within(k), UNCHANGED boot,
           NEW c,
           \/ Past(k)' \subseteq Past(k) /\ budget'[k] <= budget[k]
           \/ Past(k)' \subseteq Past(k) \cup {c} /\ budget'[k] = budget[k] - 1
    PROVE  Within(k)'
  <1>1. PICK old, new : old = Past(k) /\ new = Past(k)'
    OBVIOUS
  <1>2. budget[k] \in Nat /\ budget'[k] \in Nat /\ boot.limits[k[1]].requests \in Nat
    <2>1. budget[k] \in Nat /\ budget'[k] \in Nat BY DEF TypeOK, Types
    <2>2. k[1] \in DOMAIN boot.limits BY DEF LimitKeys
    <2> QED BY <2>1, <2>2, LimitsType DEF TypeOK, Types, Full
  <1>3. IsFiniteSet(old) /\ Cardinality(old) \in Nat
        /\ Cardinality(old) + budget[k] <= boot.limits[k[1]].requests
    BY <1>1, FS_CardinalityType DEF Within
  <1>4. IsFiniteSet(old \cup {c}) /\ Cardinality(old \cup {c}) <= Cardinality(old) + 1
    <2>1. /\ IsFiniteSet(old \cup {c})
          /\ Cardinality(old \cup {c}) = IF c \in old THEN Cardinality(old)
                                        ELSE Cardinality(old) + 1
      BY <1>3, FS_AddElement
    <2> QED BY <1>3, <2>1
  <1>5. Cardinality(old \cup {c}) \in Nat BY <1>4, FS_CardinalityType
  <1>6. CASE new \subseteq old /\ budget'[k] <= budget[k]
    <2>1. IsFiniteSet(new) /\ Cardinality(new) <= Cardinality(old) BY <1>3, <1>6, FS_Subset
    <2>2. Cardinality(new) \in Nat BY <2>1, FS_CardinalityType
    <2>3. Cardinality(new) + budget'[k] <= boot.limits[k[1]].requests
      BY <1>2, <1>3, <1>6, <2>1, <2>2
    <2> QED BY <1>1, <2>1, <2>3 DEF Within
  <1>7. CASE new \subseteq old \cup {c} /\ budget'[k] = budget[k] - 1
    <2>1. IsFiniteSet(new) /\ Cardinality(new) <= Cardinality(old \cup {c})
      BY <1>4, <1>7, FS_Subset
    <2>2. Cardinality(new) \in Nat BY <2>1, FS_CardinalityType
    <2>3. Cardinality(new) + budget'[k] <= boot.limits[k[1]].requests
      BY <1>2, <1>3, <1>4, <1>5, <1>7, <2>1, <2>2
    <2> QED BY <1>1, <2>1, <2>3 DEF Within
  <1> QED BY <1>1, <1>6, <1>7

\* A refusal is final.
LEMMA RefusedStays ==
    ASSUME [Gate!GateNext]_(Gate!gateVars), NEW d \in Calls, FateOf(d) = "refused"
    PROVE  FateOf(d)' = "refused"
  <1> DEFINE fate == [e \in Calls |-> FateOf(e)]
  <1>1. fate[d] = "refused" /\ fate'[d] = FateOf(d)'
    OBVIOUS
  <1>2. fate'[d] = fate[d]
    BY <1>1 DEF Gate!GateNext, Gate!gateVars, Gate!Submit, Gate!Rule, Gate!Offer,
                Gate!TellRefusal, Gate!Relay
  <1> QED BY <1>1, <1>2

\* A call is past a key only when it was before, or its limits passed it on.
LEMMA NobodySlipsPast ==
    ASSUME TypeOK, [Gate!GateNext]_(Gate!gateVars), NEW k, NEW c \in Calls,
           \/ \E m \in Messages : Receive(c, m)
           \/ Handler(c) \/ ChildAnswers(c)
    PROVE  /\ UNCHANGED boot /\ Past(k)' \subseteq Past(k) \cup {c}
           /\ ~ CheckLimits(c) => Past(k)' \subseteq Past(k) /\ UNCHANGED budget
  <1>1. UNCHANGED boot
    BY DEF Receive, Handler, CheckLimits, CheckFilters, EvaluateRules, WriteToChild, PostUpstream,
           UpstreamAnswers, UpstreamFails, ReplyError, EmitAudit, FireEscalation, AskApproval,
           Settle, ChildAnswers, fixed
  <1>2. ASSUME NEW d \in Calls, d \in Past(k)', request'[d] = request[d],
               stage[d] \notin {"idle", "limits"}
        PROVE  d \in Past(k)
    BY <1>1, <1>2, RefusedStays DEF Past, Judged
  <1>3. ASSUME NEW d \in Calls, d # c, d \in Past(k)' PROVE d \in Past(k)
    <2>1. stage'[d] = stage[d] /\ request'[d] = request[d]
      BY <1>3, OthersUntouched
    <2> QED BY <1>2, <1>3, <2>1 DEF Past
  <1>4. ASSUME ~ CheckLimits(c) PROVE UNCHANGED budget
    BY <1>4 DEF Receive, Handler, CheckFilters, EvaluateRules, WriteToChild, PostUpstream,
           UpstreamAnswers, UpstreamFails, ReplyError, EmitAudit, FireEscalation, AskApproval,
           Settle, ChildAnswers, shared
  <1>5. ASSUME ~ CheckLimits(c), c \in Past(k)' PROVE c \in Past(k)
    <2>1. CASE \E m \in Messages : Receive(c, m)
      <3>1. PICK m \in Messages : Receive(c, m) BY <2>1
      <3>2. /\ request'[c] = m
            /\ stage'[c] = IF Intercepts(m.kind) THEN "limits" ELSE "effects"
        BY <3>1 DEF Receive, TypeOK, Types
      <3> QED BY <1>5, <3>2 DEF Past, Judged
    <2>2. CASE Handler(c) \/ ChildAnswers(c)
      <3>1. request'[c] = request[c]
        BY <2>2 DEF Handler, CheckLimits, CheckFilters, EvaluateRules, WriteToChild, PostUpstream,
           UpstreamAnswers, UpstreamFails, ReplyError, EmitAudit, FireEscalation, AskApproval,
           Settle, ChildAnswers
      <3>2. CASE Handler(c)
        <4>1. stage[c] \notin {"idle", "limits"}
          BY <1>5, <3>2 DEF Handler, CheckFilters, EvaluateRules, WriteToChild, PostUpstream,
             UpstreamAnswers, UpstreamFails, ReplyError, EmitAudit, FireEscalation, AskApproval,
             Settle, Doing
        <4> QED BY <1>2, <1>5, <3>1, <4>1
      <3>3. CASE ChildAnswers(c)
        <4>1. stage'[c] = stage[c] BY <3>3 DEF ChildAnswers
        <4> QED BY <1>2, <1>5, <3>1, <4>1 DEF Past
      <3> QED BY <2>2, <3>2, <3>3
    <2> QED BY <2>1, <2>2
  <1>6. Past(k)' \subseteq Calls BY DEF Past
  <1> QED BY <1>1, <1>3, <1>4, <1>5, <1>6

\* Checking the limits of a call keeps every key within its limit.
LEMMA CheckLimitsWithin ==
    ASSUME TypeOK, TypeOK', ~ Refills, [Gate!GateNext]_(Gate!gateVars),
           NEW c \in Calls, InPhase(c), Seen(c)', CheckLimits(c),
           NEW k \in LimitKeys(boot), Within(k)
    PROVE  Within(k)'
  <1>0. UNCHANGED boot /\ Past(k)' \subseteq Past(k) \cup {c}
    BY NobodySlipsPast DEF Handler
  <1>1. PICK m \in Messages : m = request[c]
    BY DEF CheckLimits, TypeOK, WellPlaced
  <1>2. PICK level \in Levels(m) :
           /\ budget' = Charge(m, level)
           /\ IF Short(m, level) = {} THEN stage' = [stage EXCEPT ![c] = "filters"]
              ELSE \E i \in Short(m, level) : Plan(c, OnLimited(mode, boot.limits[i]))
    BY <1>1 DEF CheckLimits
  <1>3. m \in Message BY GuardAssumption
  <1>4. /\ budget[k] \in Nat /\ DOMAIN budget = LimitKeys(boot)
        /\ \A i \in Applying(m) : level[i] = budget[BucketKey(i, m)]
    BY DEF TypeOK, Types, Levels
  <1>5. budget'[k] = IF \E i \in Visited(m, level) : k = BucketKey(i, m)
                     THEN IF level[k[1]] = 0 THEN 0 ELSE level[k[1]] - 1
                     ELSE budget[k]
    BY <1>2, <1>4 DEF Charge
  <1>6. ASSUME NEW i \in Visited(m, level), k = BucketKey(i, m)
        PROVE  k[1] = i /\ level[i] = budget[k]
    BY <1>4, <1>6 DEF BucketKey, Visited
  <1>7. budget'[k] <= budget[k]
    BY <1>4, <1>5, <1>6
  <1>8. CASE Short(m, level) # {}
    <2>1. stage'[c] = "effects"
      BY <1>2, <1>8 DEF Plan, TypeOK, Types
    <2>2. Refusing(c)' BY <2>1, CheckLimitsPhase DEF Vetting
    <2>3. FateOf(c)' = "refused" BY <2>2 DEF Seen
    <2>4. c \notin Past(k)' BY <2>3 DEF Past
    <2> QED BY <1>0, <1>7, <2>4, StillWithin
  <1>9. CASE Short(m, level) = {}
    <2>1. CASE c \notin Past(k)'
      BY <1>0, <1>7, <2>1, StillWithin
    <2>2. CASE c \in Past(k)'
      <3>1. request'[c] = m /\ boot' = boot
        BY <1>0, <1>1 DEF CheckLimits
      <3>2. m.tool \in boot.limits[k[1]].tools /\ KeyValue(boot.limits[k[1]], m) = k[2]
        BY <2>2, <3>1 DEF Past
      <3>3. k[1] \in DOMAIN boot.limits /\ k = <<k[1], k[2]>>
        BY DEF LimitKeys
      <3>4. k[1] \in Applying(m) /\ k = BucketKey(k[1], m)
        BY <3>2, <3>3 DEF Applying, BucketKey
      <3>5. k[1] \in Visited(m, level) /\ level[k[1]] # 0
        BY <1>9, <3>4, AllVisited DEF TypeOK, Types
      <3>6. budget'[k] = budget[k] - 1
        BY <1>5, <1>6, <3>4, <3>5
      <3> QED BY <1>0, <3>6, StillWithin
    <2> QED BY <2>1, <2>2
  <1> QED BY <1>8, <1>9

\* Every key stays within its limit.
LEMMA ThriftInvariant == Spec => []Thrift
  <1>0. (\A c : Seen(c))'
    BY GateView, PTL
  <1>1. Init => Thrift
    <2> SUFFICES ASSUME Init, NEW k \in LimitKeys(boot) PROVE Within(k)
      BY DEF Thrift
    <2>1. Past(k) = {} BY DEF Init, Past
    <2>2. IsFiniteSet(Past(k)) /\ Cardinality(Past(k)) = 0 BY <2>1, FS_EmptySet
    <2>3. boot.limits[k[1]].requests \in Nat
      <3>1. k[1] \in DOMAIN boot.limits /\ boot \in PolicyFile
        BY GuardAssumption DEF LimitKeys, Init
      <3> QED BY <3>1, LimitsType DEF Full
    <2>4. budget[k] = boot.limits[k[1]].requests BY DEF Init, FullBudget
    <2> QED BY <2>2, <2>3, <2>4 DEF Within
  <1>2. /\ TypeOK /\ TypeOK' /\ Phased /\ Thrift /\ [Next]_vars
        /\ [Gate!GateNext]_(Gate!gateVars)
        => Thrift'
    <2> SUFFICES ASSUME TypeOK, TypeOK', Phased, Thrift, [Next]_vars,
                        [Gate!GateNext]_(Gate!gateVars)
                 PROVE  Thrift'
      OBVIOUS
    <2>1. \A c \in Calls : InPhase(c) /\ Seen(c)'
      BY <1>0 DEF Phased
    <2>2. UNCHANGED boot
      BY NobodySlipsPast DEF Next, Reload, fixed, vars
    <2> SUFFICES ASSUME ~ Refills, NEW k \in LimitKeys(boot) PROVE Within(k)'
      BY <2>2 DEF Thrift, LimitKeys
    <2>3. Within(k) BY DEF Thrift
    <2>4. ASSUME NEW c \in Calls, CheckLimits(c) PROVE Within(k)'
      BY <2>1, <2>3, <2>4, CheckLimitsWithin
    <2>5. budget[k] \in Nat BY DEF TypeOK, Types
    <2>6. ASSUME Past(k)' \subseteq Past(k), UNCHANGED budget PROVE Within(k)'
      BY <2>2, <2>3, <2>5, <2>6, StillWithin
    <2>7. ASSUME NEW c \in Calls,
                 (\E m \in Messages : Receive(c, m)) \/ Handler(c) \/ ChildAnswers(c)
          PROVE  Within(k)'
      BY <2>4, <2>6, <2>7, NobodySlipsPast
    <2>8. CASE (\E file \in Files : Reload(file)) \/ UNCHANGED vars
      <3>1. UNCHANGED <<budget, stage, todo, request, replies>>
        BY <2>8 DEF Reload, vars, shared, world
      <3>2. \A d : FateOf(d)' = FateOf(d)
        BY <3>1 DEF FateOf, Has, Forwarding, Refused
      <3>3. Past(k)' \subseteq Past(k)
        BY <2>2, <3>1, <3>2 DEF Past, Judged
      <3> QED BY <2>6, <3>1, <3>3
    <2> QED BY <2>7, <2>8 DEF Next
  <1> QED BY <1>1, <1>2, Typing, PhaseInvariant, GuardIsAToolGate, PTL DEF Spec

\* While no time passes for the limiter, the server receives no more calls on a
\* limit's key than the limit grants, however many handlers race (Limiter.Check).
THEOREM LimitsHold == Spec => []NoOverspend
  <1>1. Phased /\ TypeOK /\ Thrift => NoOverspend
    <2> SUFFICES ASSUME Phased, TypeOK, Thrift, ~ Refills, NEW k \in LimitKeys(boot)
                 PROVE  Cardinality(Charged(k[1], k[2])) + budget[k]
                           <= boot.limits[k[1]].requests
      BY DEF NoOverspend
    <2>1. PICK some, past : some = Charged(k[1], k[2]) /\ past = Past(k)
      OBVIOUS
    <2>2. /\ IsFiniteSet(past) /\ budget[k] \in Nat /\ boot.limits[k[1]].requests \in Nat
          /\ Cardinality(past) + budget[k] <= boot.limits[k[1]].requests
      <3>1. k[1] \in DOMAIN boot.limits BY DEF LimitKeys
      <3>2. boot.limits[k[1]].requests \in Nat BY <3>1, LimitsType DEF TypeOK, Types, Full
      <3> QED BY <2>1, <3>2 DEF Thrift, Within, TypeOK, Types
    <2>3. ASSUME NEW c \in Charged(k[1], k[2]) PROVE c \in Past(k)
      <3>1. c \in Calls /\ Judged(c) /\ sent[c] # <<>> BY DEF Charged
      <3>2. Posted(c) \/ Offered(c)
        BY <3>1 DEF Phased, InPhase, Unseen, Vetting, Asking, Refusing, Cleared, Told, Untold
      <3>3. FateOf(c) = "offered" /\ stage[c] \notin {"idle", "limits"}
        BY <3>2, GateView DEF Seen, Posted, Offered
      <3> QED BY <3>1, <3>3 DEF Charged, Past
    <2>4. IsFiniteSet(some) /\ Cardinality(some) <= Cardinality(past)
      BY <2>1, <2>2, <2>3, FS_Subset
    <2>5. Cardinality(some) \in Nat /\ Cardinality(past) \in Nat
      BY <2>2, <2>4, FS_CardinalityType
    <2>6. Cardinality(some) + budget[k] <= boot.limits[k[1]].requests
      BY <2>2, <2>4, <2>5
    <2> QED BY <2>1, <2>6
  <1> QED BY <1>1, Typing, PhaseInvariant, ThriftInvariant, PTL

(***************************************************************************)
(* The invariant of the trail.                                             *)
(***************************************************************************)

Early(c) == stage[c] \in {"idle", "limits", "filters", "rules"}
Body(c)  == IF Rewrites(c) THEN "mutated" ELSE "original"
Due(c)   == DueOf(Verdict(c))

\* What the handler has still to do is in the order of a plan, and comes after
\* what it did.
InOrder(c) ==
    /\ Ordered(todo[c])
    /\ Len(trail[c]) <= 1
    /\ trail[c] # <<>> => \A e \in Carried(todo[c]) : e.op = "alert"
    /\ Early(c) => todo[c] = <<>> /\ trail[c] = <<>>
    /\ stage[c] = "done" => todo[c] = <<>>

\* What is forwarded, and what will be, is what was decided.
Faithful(c) ==
    /\ \A e \in Carried(todo[c]) : e.op = "forward" => e.as = Body(c)
    /\ \A i \in DOMAIN sent[c] : sent[c][i] = Body(c)

\* A record that a call passed belongs to a call that passes, and any other to
\* a call that is refused.
Fits(c, x) == IF x \in Passing
              THEN Judged(c) /\ FateOf(c) \in {"cleared", "offered"} /\ x = Due(c)
              ELSE FateOf(c) = "refused"
Named(c) == /\ \A e \in Carried(todo[c]) : e.op = "record" => Fits(c, e.as)
            /\ \A i \in DOMAIN trail[c] : Fits(c, trail[c][i])

\* A record that is due is in the trail, or to come.
Owed(c) == /\ Judged(c) /\ mode # "bridge"
           /\ Decided(c) => \/ outcome[c] # Nil \/ Verdict(c).decision = "require_approval"
                            \/ AsksForARecord(Verdict(c), request[c].content)
Remembered(c) ==
    Owed(c) /\ ~ Early(c) => \/ trail[c] # <<>>
                             \/ \E e \in Carried(todo[c]) : e.op \in {"record", "ask"}

\* An alert that is due was fired, or is to come.
Alerted(c) ==
    /\ ~ Early(c) /\ Decided(c) /\ Verdict(c).rule # Nil
    /\ Verdict(c).rule.escalate \in boot.contacts
    => \/ Verdict(c).rule.escalate \in alerts[c]
       \/ Alert(Verdict(c).rule.escalate) \in Carried(todo[c])

\* A result is that of the decision, and of an offered call nothing is heard only
\* where a failure is not reported.
Silent(c) == FateOf(c) = "offered" /\ stage[c] # "upstream" /\ replies[c] = <<>>
Heard(c) ==
    /\ result[c] # Nil => Decided(c) /\ result[c] = Verdict(c)
    /\ mode # "stdio" /\ Silent(c) =>
          Lossy /\ (mode = "http" => Judged(c) /\ outcome[c] = "approved")

Kept(c) == InOrder(c) /\ Faithful(c) /\ Named(c) /\ Remembered(c) /\ Alerted(c) /\ Heard(c)

\* The account of a call rests on its own variables and on what startup fixed.
LEMMA KeptFrame ==
    ASSUME NEW c, Kept(c), UNCHANGED <<mode, boot>>,
           stage'[c] = stage[c], request'[c] = request[c], result'[c] = result[c],
           todo'[c] = todo[c], sent'[c] = sent[c], replies'[c] = replies[c],
           basis'[c] = basis[c], outcome'[c] = outcome[c], trail'[c] = trail[c],
           alerts'[c] = alerts[c]
    PROVE  Kept(c)'
  <1>1. /\ Judged(c)' = Judged(c) /\ Decided(c)' = Decided(c) /\ Verdict(c)' = Verdict(c)
        /\ Early(c)' = Early(c)
    BY LeaveFrame DEF Early
  <1>2. Body(c)' = Body(c) /\ Due(c)' = Due(c) /\ Owed(c)' = Owed(c)
    BY <1>1 DEF Body, Rewrites, Due, Owed
  <1>3. FateOf(c)' = FateOf(c)
    BY DEF FateOf, Has, Forwarding, Refused
  <1>4. InOrder(c)' BY <1>1 DEF Kept, InOrder
  <1>5. Faithful(c)' BY <1>2 DEF Kept, Faithful
  <1>6. Named(c)' BY <1>1, <1>2, <1>3 DEF Kept, Named, Fits
  <1>7. Remembered(c)' BY <1>1, <1>2 DEF Kept, Remembered
  <1>8. Alerted(c)' BY <1>1 DEF Kept, Alerted
  <1>9. Heard(c)' BY <1>1, <1>3 DEF Kept, Heard, Silent
  <1> QED BY <1>4, <1>5, <1>6, <1>7, <1>8, <1>9 DEF Kept

\* What a call was decided on does not change.
SameCall(c) == /\ UNCHANGED <<mode, boot>> /\ request'[c] = request[c]
               /\ result'[c] = result[c] /\ basis'[c] = basis[c] /\ outcome'[c] = outcome[c]
LEMMA SameCallSame ==
    ASSUME NEW c, SameCall(c)
    PROVE  /\ Judged(c)' = Judged(c) /\ Decided(c)' = Decided(c) /\ Verdict(c)' = Verdict(c)
           /\ Body(c)' = Body(c) /\ Due(c)' = Due(c) /\ Owed(c)' = Owed(c)
  <1>1. /\ Judged(c)' = Judged(c) /\ Decided(c)' = Decided(c) /\ Verdict(c)' = Verdict(c)
    BY LeaveFrame DEF SameCall
  <1> QED BY <1>1 DEF Body, Rewrites, Due, Owed, SameCall

\* The fate of a call goes on as its records say.
FateGoesOn(c) == /\ FateOf(c) \in {"cleared", "offered"} => FateOf(c)' \in {"cleared", "offered"}
                 /\ FateOf(c) = "refused" => FateOf(c)' = "refused"

\* Performing one effect of a plan keeps the account of the call.
LEMMA TailKeeps ==
    ASSUME TypeOK, NEW c \in Calls, Kept(c), SameCall(c), FateGoesOn(c),
           ~ Early(c), todo[c] # <<>>, Head(todo[c]).op # "ask",
           todo'[c] = Tail(todo[c]),
           stage'[c] = IF Tail(todo[c]) = <<>> THEN "done" ELSE "effects",
           trail'[c] = IF Head(todo[c]).op = "record" THEN Append(trail[c], Head(todo[c]).as)
                       ELSE trail[c],
           Head(todo[c]).op = "alert" =>
               alerts'[c] = alerts[c] \cup ({Head(todo[c]).as} \cap boot.contacts),
           Head(todo[c]).op # "alert" => alerts'[c] = alerts[c],
           \A i \in DOMAIN sent'[c] : sent'[c][i] = Body(c),
           Silent(c)' /\ mode # "stdio" =>
               Lossy /\ (mode = "http" => Judged(c) /\ outcome[c] = "approved")
    PROVE  Kept(c)'
  <1> DEFINE h == Head(todo[c])
  <1>1. /\ h \in Effects /\ Ordered(Tail(todo[c]))
        /\ Carried(todo[c]) = {h} \cup Carried(Tail(todo[c]))
        /\ h.op = "record" => \A e \in Carried(Tail(todo[c])) : e.op = "alert"
    BY OrderedTail DEF Kept, InOrder
  <1>2. ~ Early(c)'
    BY DEF Early
  <1>3. /\ Judged(c)' = Judged(c) /\ Decided(c)' = Decided(c) /\ Verdict(c)' = Verdict(c)
        /\ Body(c)' = Body(c) /\ Due(c)' = Due(c) /\ Owed(c)' = Owed(c)
    BY SameCallSame
  <1>4. trail[c] \in Seq(Records) BY DEF TypeOK, Types
  <1>5. ASSUME h.op = "record"
        PROVE  trail[c] = <<>> /\ trail'[c] = <<h.as>>
    <2>1. trail[c] = <<>> BY <1>1, <1>5 DEF Kept, InOrder
    <2> QED BY <1>5, <2>1
  <1>6. InOrder(c)'
    <2>1. CASE h.op = "record"
      <3>1. Len(trail'[c]) <= 1
        <4>1. PICK x : x = h.as OBVIOUS
        <4>2. Len(<<x>>) = 1 OBVIOUS
        <4> QED BY <1>5, <2>1, <4>1, <4>2
      <3> QED BY <1>1, <1>2, <2>1, <3>1 DEF InOrder
    <2>2. CASE h.op # "record"
      BY <1>1, <1>2, <2>2 DEF Kept, InOrder
    <2> QED BY <2>1, <2>2
  <1>7. Faithful(c)'
    BY <1>1, <1>3 DEF Kept, Faithful
  <1>8. ASSUME NEW x, Fits(c, x) PROVE Fits(c, x)'
    BY <1>3, <1>8 DEF Fits, FateGoesOn
  <1>9. Named(c)'
    <2>1. \A e \in Carried(Tail(todo[c])) : e.op = "record" => Fits(c, e.as)'
      BY <1>1, <1>3 DEF Kept, Named, Fits, FateGoesOn
    <2>2. \A i \in DOMAIN trail'[c] : Fits(c, trail[c][i])'
      <3>1. CASE h.op = "record"
        <4>1. PICK x : x = h.as OBVIOUS
        <4>2. DOMAIN <<x>> = {1} /\ <<x>>[1] = x OBVIOUS
        <4>3. Fits(c, x) BY <1>1, <3>1, <4>1 DEF Kept, Named
        <4>4. Fits(c, x)' BY <1>8, <4>3
        <4>5. trail'[c] = <<x>> BY <1>5, <3>1, <4>1
        <4> QED BY <4>2, <4>4, <4>5 DEF Fits
      <3>2. CASE h.op # "record" BY <1>3, <3>2 DEF Kept, Named, Fits, FateGoesOn
      <3> QED BY <3>1, <3>2
    <2> QED BY <2>1, <2>2 DEF Named, Fits
  <1>10. Remembered(c)'
    <2>1. CASE h.op = "record"
      <3>1. PICK x : x = h.as OBVIOUS
      <3>2. <<x>> # <<>>
        <4>1. Len(<<x>>) = 1 /\ Len(<<>>) = 0 OBVIOUS
        <4> QED BY <4>1
      <3> QED BY <1>5, <2>1, <3>1, <3>2 DEF Remembered
    <2>2. CASE h.op # "record" BY <1>1, <1>2, <1>3, <2>2 DEF Kept, Remembered
    <2> QED BY <2>1, <2>2
  <1>11. Alerted(c)'
    <2>1. UNCHANGED boot BY DEF SameCall
    <2>2. Alert(Verdict(c).rule.escalate).op = "alert"
          /\ Alert(Verdict(c).rule.escalate).as = Verdict(c).rule.escalate
      BY DEF Alert
    <2> QED BY <1>1, <1>3, <2>1, <2>2 DEF Kept, Alerted
  <1>12. Heard(c)'
    BY <1>3 DEF Kept, Heard, SameCall
  <1> QED BY <1>6, <1>7, <1>9, <1>10, <1>11, <1>12 DEF Kept

\* A step that changes neither what is still to do nor what was recorded and
\* fired keeps the account.
LEMMA StillKept ==
    ASSUME NEW c \in Calls, Kept(c), SameCall(c), FateGoesOn(c), ~ Early(c), ~ Early(c)',
           stage'[c] # "done" \/ stage[c] = "done",
           todo'[c] = todo[c], trail'[c] = trail[c], alerts'[c] = alerts[c],
           \A i \in DOMAIN sent'[c] : sent'[c][i] = Body(c),
           Silent(c)' => mode = "stdio"
    PROVE  Kept(c)'
  <1>1. /\ Judged(c)' = Judged(c) /\ Decided(c)' = Decided(c) /\ Verdict(c)' = Verdict(c)
        /\ Body(c)' = Body(c) /\ Due(c)' = Due(c) /\ Owed(c)' = Owed(c)
    BY SameCallSame
  <1>2. InOrder(c)' BY DEF Kept, InOrder
  <1>3. Faithful(c)' BY <1>1 DEF Kept, Faithful
  <1>4. Named(c)' BY <1>1 DEF Kept, Named, Fits, FateGoesOn
  <1>5. Remembered(c)' BY <1>1 DEF Kept, Remembered
  <1>6. Alerted(c)' BY <1>1 DEF Kept, Alerted, SameCall
  <1>7. Heard(c)' BY <1>1 DEF Kept, Heard, SameCall
  <1> QED BY <1>2, <1>3, <1>4, <1>5, <1>6, <1>7 DEF Kept

\* Of a call not decided yet there is nothing to account for.
Blank(c) == /\ Early(c) /\ todo[c] = <<>> /\ trail[c] = <<>> /\ sent[c] = <<>>
            /\ result[c] = Nil
LEMMA BlankKept == \A c : Blank(c) => Kept(c)
  <1> SUFFICES ASSUME NEW c, Blank(c) PROVE Kept(c)
    OBVIOUS
  <1>1. DOMAIN <<>> = {} /\ Len(<<>>) = 0
    OBVIOUS
  <1>2. Ordered(<<>>) /\ Carried(<<>>) = {}
    <2>1. <<>> \in Seq(Effects) BY EmptySeq
    <2> QED BY <1>1, <2>1 DEF Ordered, Carried
  <1>3. FateOf(c) # "offered"
    BY DEF FateOf, Early, Blank
  <1>4. InOrder(c) BY <1>1, <1>2 DEF InOrder, Early, Blank
  <1>5. Faithful(c) BY <1>1, <1>2 DEF Faithful, Blank
  <1>6. Named(c) BY <1>1, <1>2 DEF Named, Blank
  <1>7. Remembered(c) /\ Alerted(c) BY DEF Remembered, Alerted, Blank
  <1>8. Heard(c) BY <1>3 DEF Heard, Silent, Blank
  <1> QED BY <1>4, <1>5, <1>6, <1>7, <1>8 DEF Kept
LEMMA BlankKeptNext == (\A c : Blank(c) => Kept(c))'
  BY BlankKept, PTL
LEMMA EarlyKept ==
    ASSUME NEW c \in Calls, Early(c)', todo'[c] = <<>>, trail'[c] = <<>>, sent'[c] = <<>>,
           result'[c] = Nil
    PROVE  Kept(c)'
  BY BlankKeptNext DEF Blank

\* What a call is when its handler takes up a plan.
LEMMA Fresh ==
    ASSUME NEW c \in Calls, Kept(c), Vetting(c)
    PROVE  Early(c) /\ todo[c] = <<>> /\ trail[c] = <<>> /\ sent[c] = <<>> /\ result[c] = Nil
  BY DEF Kept, InOrder, Heard, Vetting, Early, Decided, Untold

\* A refusal by a limit or a filter is recorded as what it is.
LEMMA RefusalKept ==
    ASSUME NEW c \in Calls, Kept(c), Vetting(c), Refusing(c)', Seen(c)',
           NEW x, x \notin Passing, NEW recorded \in BOOLEAN, mode # "bridge" => recorded,
           UNCHANGED mode, trail'[c] = trail[c], sent'[c] = sent[c], result'[c] = result[c],
           basis'[c] = basis[c], Refuses(todo'[c], x, recorded)
    PROVE  Kept(c)'
  <1>1. DOMAIN <<>> = {} /\ Len(<<>>) = 0
    OBVIOUS
  <1>2. /\ trail'[c] = <<>> /\ sent'[c] = <<>> /\ result'[c] = Nil /\ basis'[c] = Nil
        /\ stage'[c] = "effects" /\ FateOf(c)' = "refused"
    BY Fresh DEF Vetting, Refusing, Seen
  <1>3. ~ Early(c)' BY <1>2 DEF Early
  <1>4. InOrder(c)' BY <1>1, <1>2, <1>3 DEF InOrder, Refuses
  <1>5. Faithful(c)' BY <1>1, <1>2 DEF Faithful, Refuses
  <1>6. Named(c)' BY <1>1, <1>2 DEF Named, Refuses, Fits
  <1>7. Remembered(c)' BY <1>2 DEF Remembered, Owed, Refuses
  <1>8. Alerted(c)' BY <1>2 DEF Alerted, Decided
  <1>9. Heard(c)' BY <1>2 DEF Heard, Silent
  <1> QED BY <1>4, <1>5, <1>6, <1>7, <1>8, <1>9 DEF Kept

(***************************************************************************)
(* The account of a call after each step of its handler.                   *)
(***************************************************************************)

\* A message taken up has nothing to account for, or is to be forwarded as it is.
LEMMA ReceiveKeeps ==
    ASSUME TypeOK, NEW c \in Calls, InPhase(c), Kept(c), Seen(c)', NEW m \in Messages, Receive(c, m)
    PROVE  Kept(c)'
  <1>1. Unseen(c) /\ (Vetting(c)' \/ Cleared(c)')
    BY ReceivePhase
  <1>2. /\ todo[c] = <<>> /\ trail[c] = <<>> /\ sent[c] = <<>> /\ result[c] = Nil /\ basis[c] = Nil
    BY <1>1 DEF Kept, InOrder, Unseen, Untold, Early
  <1>3. /\ trail'[c] = <<>> /\ sent'[c] = <<>> /\ result'[c] = Nil /\ basis'[c] = Nil
        /\ request'[c] = m
    BY <1>2 DEF Receive, world, TypeOK, Types
  <1>4. CASE Intercepts(m.kind)
    <2>1. Early(c)' /\ todo'[c] = <<>>
      BY <1>2, <1>4 DEF Receive, Early, TypeOK, Types
    <2> QED BY <1>3, <2>1, EarlyKept
  <1>5. CASE ~ Intercepts(m.kind)
    <2>1. PICK d : d = Forward("original")
      OBVIOUS
    <2>2. stage'[c] = "effects" /\ todo'[c] = <<d>>
      BY <1>5, <2>1 DEF Receive, Verbatim, TypeOK, Types
    <2>3. d \in Effects /\ d.op = "forward" /\ d.as = "original"
      BY <2>1 DEF Forward, Effects, Bodies
    <2>4. Ordered(<<d>>) /\ Carried(<<d>>) = {d}
      <3>1. PICK r \in Effects : r.op = "record"
        <4>1. Record("approved") \in Effects /\ Record("approved").op = "record"
          BY DEF Record, Effects, Records
        <4> QED BY <4>1
      <3> QED BY <2>3, <3>1, Cores
    <2>5. ~ Judged(c)' /\ ~ Decided(c)'
      BY <1>3, <1>5 DEF Judged, Decided
    <2>6. DOMAIN <<>> = {} /\ Len(<<>>) = 0
      OBVIOUS
    <2>7. ~ Early(c)' BY <2>2 DEF Early
    <2>8. InOrder(c)' BY <1>3, <2>2, <2>4, <2>6, <2>7 DEF InOrder
    <2>9. Faithful(c)' BY <1>3, <2>2, <2>3, <2>4, <2>5, <2>6 DEF Faithful, Body, Rewrites
    <2>10. Named(c)' BY <1>3, <2>2, <2>3, <2>4, <2>6 DEF Named
    <2>11. Remembered(c)' /\ Alerted(c)' BY <2>5 DEF Remembered, Owed, Alerted
    <2>12. FateOf(c)' # "offered"
      BY <1>1, <2>2 DEF Seen, Vetting
    <2>13. Heard(c)' BY <1>3, <2>12 DEF Heard, Silent
    <2> QED BY <2>8, <2>9, <2>10, <2>11, <2>13 DEF Kept
  <1> QED BY <1>4, <1>5

\* A limit that refuses has its refusal recorded.
LEMMA CheckLimitsKeeps ==
    ASSUME TypeOK, NEW c \in Calls, InPhase(c), Kept(c), Seen(c)', CheckLimits(c)
    PROVE  Kept(c)'
  <1>1. Vetting(c) /\ (Vetting(c)' \/ Refusing(c)')
    BY CheckLimitsPhase
  <1>2. /\ UNCHANGED mode /\ trail'[c] = trail[c] /\ sent'[c] = sent[c] /\ result'[c] = result[c]
        /\ basis'[c] = basis[c]
    BY DEF CheckLimits, fixed, world
  <1>3. CASE stage'[c] = "filters" /\ todo'[c] = todo[c]
    <2>1. Early(c)' BY <1>3 DEF Early
    <2> QED BY <1>1, <1>2, <1>3, <2>1, Fresh, EarlyKept
  <1>4. CASE \E i \in DOMAIN boot.limits : Plan(c, OnLimited(mode, boot.limits[i]))
    <2>1. PICK i \in DOMAIN boot.limits : Plan(c, OnLimited(mode, boot.limits[i]))
      BY <1>4
    <2>2. Refuses(OnLimited(mode, boot.limits[i]), "rate_limited", TRUE)
      BY LimitsType, RefusalCarries DEF TypeOK, Types
    <2>3. stage'[c] = "effects" /\ todo'[c] = OnLimited(mode, boot.limits[i])
      BY <2>1 DEF Plan, TypeOK, Types
    <2>4. Refusing(c)' BY <1>1, <2>3 DEF Vetting
    <2>5. "rate_limited" \notin Passing BY DEF Passing
    <2> QED BY <1>1, <1>2, <2>2, <2>3, <2>4, <2>5, RefusalKept
  <1> QED BY <1>3, <1>4 DEF CheckLimits, TypeOK, Types, Short, Visited, Applying

\* A filter that blocks has its refusal recorded, but for the bridge.
LEMMA CheckFiltersKeeps ==
    ASSUME TypeOK, NEW c \in Calls, InPhase(c), Kept(c), Seen(c)', CheckFilters(c)
    PROVE  Kept(c)'
  <1>1. Vetting(c) /\ (Vetting(c)' \/ Refusing(c)')
    BY CheckFiltersPhase
  <1>2. /\ UNCHANGED mode /\ trail'[c] = trail[c] /\ sent'[c] = sent[c] /\ result'[c] = result[c]
        /\ basis'[c] = basis[c]
    BY DEF CheckFilters, fixed, world
  <1>3. CASE stage'[c] = "rules" /\ todo'[c] = todo[c]
    <2>1. Early(c)' BY <1>3 DEF Early
    <2> QED BY <1>1, <1>2, <1>3, <2>1, Fresh, EarlyKept
  <1>4. CASE \E i \in DOMAIN boot.filters : Plan(c, OnBlocked(mode, boot.filters[i]))
    <2>1. PICK i \in DOMAIN boot.filters : Plan(c, OnBlocked(mode, boot.filters[i]))
      BY <1>4
    <2>2. boot.filters[i] \in Filter
      <3>1. boot.filters \in Seq(Filter) BY DEF TypeOK, Types, PolicyFile
      <3> QED BY <3>1, ElementOfSeq, LenProperties
    <2>3. Refuses(OnBlocked(mode, boot.filters[i]), "content_blocked", mode # "bridge")
      BY <2>2, RefusalCarries DEF TypeOK, Types
    <2>4. stage'[c] = "effects" /\ todo'[c] = OnBlocked(mode, boot.filters[i])
      BY <2>1 DEF Plan, TypeOK, Types
    <2>5. Refusing(c)' BY <1>1, <2>4 DEF Vetting
    <2>6. "content_blocked" \notin Passing BY DEF Passing
    <2>7. PICK recorded \in BOOLEAN : recorded = (mode # "bridge")
      OBVIOUS
    <2>8. Refuses(todo'[c], "content_blocked", recorded)
      BY <2>3, <2>4, <2>7
    <2> QED BY <1>1, <1>2, <2>5, <2>6, <2>7, <2>8, RefusalKept
  <1>5. \A i \in Blocking(boot.filters, request[c].tool, request[c].content) : i \in DOMAIN boot.filters
    BY DEF Blocking, FirstFinding
  <1> QED BY <1>3, <1>4, <1>5 DEF CheckFilters, TypeOK, Types

\* A plan has one decisive effect.
LEMMA OneDecisive ==
    ASSUME NEW p, NEW a \in {"forward", "reply", "ask"}, NEW b \in {"forward", "reply", "ask"},
           OneOf(a, p), OneOf(b, p)
    PROVE  a = b
  BY DEF OneOf, Quiet

\* A decision makes the plan that accounts for it.
LEMMA EvaluateRulesKeeps ==
    ASSUME TypeOK, NamesItsChannels(eng), NEW c \in Calls, InPhase(c), Kept(c), Seen(c)',
           EvaluateRules(c)
    PROVE  Kept(c)'
  <1>1. Vetting(c) /\ (Asking(c)' \/ Refusing(c)' \/ Cleared(c)')
    BY EvaluateRulesPhase
  <1>2. PICK open \in SUBSET Windows :
           LET verdict == Evaluate(eng, open, request[c].tool, request[c].agent,
                                   request[c].content)
           IN /\ result' = [result EXCEPT ![c] = verdict]
              /\ basis' = [basis EXCEPT ![c] = [eng |-> eng, open |-> open]]
              /\ Plan(c, OnDecided(mode, verdict, request[c].content))
    BY DEF EvaluateRules
  <1>3. PICK v : v = Evaluate(eng, open, request[c].tool, request[c].agent, request[c].content)
    OBVIOUS
  <1>4. /\ basis'[c] = [eng |-> eng, open |-> open] /\ stage'[c] = "effects"
        /\ todo'[c] = OnDecided(mode, v, request[c].content) /\ result'[c] = v
        /\ request'[c] = request[c]
    BY <1>2, <1>3 DEF Plan, EvaluateRules, TypeOK, Types
  <1>5. /\ trail'[c] = <<>> /\ sent'[c] = <<>> /\ alerts'[c] = alerts[c] /\ UNCHANGED <<mode, boot>>
        /\ outcome'[c] = Nil
    BY <1>1, Fresh DEF EvaluateRules, world, fixed, Vetting
  <1>6. Verdict(c)' = v
    BY <1>3, <1>4 DEF Verdict
  <1>7. Sound(v)
    BY <1>3, EvaluateSound DEF TypeOK, Types
  <1>8. Judged(c)' /\ Decided(c)'
    <2>1. basis'[c] # Nil BY <1>4, GuardAssumption DEF Basis, TypeOK, Types
    <2> QED BY <1>1, <1>4, <2>1 DEF Vetting, Judged, Decided
  <1>9. /\ Ordered(todo'[c])
        /\ \A e \in Carried(todo'[c]) :
              /\ e.op = "forward" => e.as = BodyOf(v, request[c].content)
              /\ e.op = "record" => e.as = DueOf(v) /\ v.decision # "require_approval"
        /\ v.rule # Nil /\ v.rule.escalate # Nil => Alert(v.rule.escalate) \in Carried(todo'[c])
        /\ mode # "bridge" /\ (v.decision = "require_approval" \/ AsksForARecord(v, request[c].content))
              => \E e \in Carried(todo'[c]) : e.op \in {"record", "ask"}
    BY <1>4, <1>7, DecidedCarries DEF TypeOK, Types
  <1>10. /\ Body(c)' = BodyOf(v, request[c].content) /\ Due(c)' = DueOf(v)
         /\ ~ Early(c)'
    BY <1>4, <1>6, <1>8 DEF Body, Rewrites, BodyOf, Due, Early
  <1>11. DOMAIN <<>> = {} /\ Len(<<>>) = 0
    OBVIOUS
  <1>12. v.decision \in Decision
    BY <1>7 DEF Sound, EvalResult
  <1>13. /\ v.decision = "deny" => FateOf(c)' = "refused"
         /\ v.decision = "require_approval" => FateOf(c)' \in {"refused", "held"}
         /\ v.decision \notin {"deny", "require_approval"} => FateOf(c)' = "cleared"
    <2>1. /\ v.decision = "deny" => OneOf("reply", todo'[c])
          /\ v.decision = "require_approval" => OneOf("reply", todo'[c]) \/ OneOf("ask", todo'[c])
          /\ v.decision \notin {"deny", "require_approval"} => OneOf("forward", todo'[c])
      <3>1. v \in EvalResult BY <1>7 DEF Sound
      <3> QED BY <1>4, <3>1, DecidedPlan DEF TypeOK, Types
    <2>2. /\ OneOf("reply", todo'[c]) => Refusing(c)'
          /\ OneOf("ask", todo'[c]) => Asking(c)'
          /\ OneOf("forward", todo'[c]) => Cleared(c)'
      BY <1>1, OneDecisive DEF Asking, Refusing, Cleared
    <2> QED BY <2>1, <2>2 DEF Seen
  <1>14. InOrder(c)' BY <1>4, <1>5, <1>9, <1>10, <1>11 DEF InOrder
  <1>15. Faithful(c)' BY <1>5, <1>9, <1>10, <1>11 DEF Faithful
  <1>16. Named(c)'
    <2>1. ASSUME NEW e \in Carried(todo'[c]), e.op = "record" PROVE Fits(c, e.as)'
      <3>1. e.as = DueOf(v) /\ v.decision # "require_approval"
        BY <1>9, <2>1
      <3>2. CASE v.decision = "deny"
        <4>1. e.as \notin Passing BY <3>1, <3>2 DEF DueOf, Passing
        <4> QED BY <1>13, <3>2, <4>1 DEF Fits
      <3>3. CASE v.decision # "deny"
        <4>1. e.as \in Passing BY <1>12, <3>1, <3>3 DEF DueOf, Passing, Decision, RuleActions
        <4>2. FateOf(c)' = "cleared" BY <1>13, <3>1, <3>3
        <4> QED BY <1>8, <1>10, <3>1, <4>1, <4>2 DEF Fits
      <3> QED BY <3>2, <3>3
    <2>2. \A i \in DOMAIN trail'[c] : FALSE BY <1>5, <1>11
    <2> QED BY <2>1, <2>2 DEF Named, Fits
  <1>17. Remembered(c)'
    BY <1>4, <1>5, <1>6, <1>8, <1>9 DEF Remembered, Owed
  <1>18. Alerted(c)'
    <2>1. Nil \notin boot.contacts
      BY NilAssumption DEF TypeOK, Types, PolicyFile
    <2> QED BY <1>5, <1>6, <1>9, <2>1 DEF Alerted
  <1>19. Heard(c)'
    BY <1>4, <1>6, <1>8, <1>13 DEF Heard, Silent
  <1> QED BY <1>14, <1>15, <1>16, <1>17, <1>18, <1>19 DEF Kept

\* The end of an approval makes the plan that accounts for it; the question it
\* ends was the last thing on its plan.
LEMMA SettleKeeps ==
    ASSUME TypeOK, NEW c \in Calls, InPhase(c), Kept(c), Seen(c)', Settle(c)
    PROVE  Kept(c)'
  <1>1. Asking(c) /\ (Cleared(c)' \/ Refusing(c)') /\ stage[c] = "asking"
    BY SettlePhase DEF Settle
  <1>2. PICK how \in Outcomes : outcome' = [outcome EXCEPT ![c] = how] /\ Plan(c, OnSettled(mode, how))
    BY DEF Settle, EndsFor, Outcomes
  <1>3. /\ outcome'[c] = how /\ stage'[c] = "effects" /\ todo'[c] = OnSettled(mode, how)
    BY <1>2 DEF Plan, TypeOK, Types
  <1>4. /\ Judged(c)' = Judged(c) /\ Decided(c)' = Decided(c) /\ Verdict(c)' = Verdict(c)
        /\ request'[c] = request[c] /\ result'[c] = result[c] /\ sent'[c] = sent[c]
        /\ trail'[c] = trail[c] /\ alerts'[c] = alerts[c] /\ UNCHANGED <<mode, boot>>
    BY DEF Settle, fixed, world, Judged, Decided, Verdict
  <1>5. /\ Decided(c) /\ Judged(c) /\ Verdict(c).decision = "require_approval" /\ sent[c] = <<>>
        /\ OneOf("ask", todo[c]) /\ Head(todo[c]).op = "ask"
    BY <1>1 DEF Asking, Decided, Untold
  <1>6. /\ todo[c] # <<>> /\ Carried(todo[c]) = {Head(todo[c])}
    <2>1. todo[c] # <<>> BY <1>5, TailOfPlan
    <2> QED BY <1>5, <2>1, OrderedTail DEF Kept, InOrder
  <1>7. trail[c] = <<>>
    BY <1>5, <1>6 DEF Kept, InOrder
  <1>8. DOMAIN <<>> = {} /\ Len(<<>>) = 0
    OBVIOUS
  <1>9. /\ Ordered(todo'[c])
        /\ \A e \in Carried(todo'[c]) :
              /\ e.op = "forward" => e.as = "original"
              /\ e.op = "record" => e.as = IF how = "approved" THEN "approved" ELSE "rejected"
              /\ e.op # "ask"
        /\ mode # "bridge" => \E e \in Carried(todo'[c]) : e.op = "record"
    BY <1>3, SettledCarries DEF TypeOK, Types
  <1>10. IF how = "approved" THEN FateOf(c)' = "cleared" ELSE FateOf(c)' = "refused"
    <2>1. IF how = "approved" THEN OneOf("forward", todo'[c]) ELSE OneOf("reply", todo'[c])
      BY <1>3, SettledPlan DEF TypeOK, Types
    <2>2. /\ OneOf("reply", todo'[c]) => Refusing(c)'
          /\ OneOf("forward", todo'[c]) => Cleared(c)'
      BY <1>1, OneDecisive DEF Refusing, Cleared
    <2> QED BY <2>1, <2>2 DEF Seen
  <1>11. ~ Early(c)' BY <1>3 DEF Early
  <1>12. InOrder(c)' BY <1>3, <1>4, <1>7, <1>8, <1>9, <1>11 DEF InOrder
  <1>13. Faithful(c)'
    <2>1. Body(c)' = "original" BY <1>4, <1>5 DEF Body, Rewrites
    <2> QED BY <1>4, <1>5, <1>8, <1>9, <2>1 DEF Faithful
  <1>14. Named(c)'
    <2>1. Due(c)' = "approved" BY <1>4, <1>5 DEF Due, DueOf
    <2>2. "approved" \in Passing /\ "rejected" \notin Passing BY DEF Passing
    <2>3. ASSUME NEW e \in Carried(todo'[c]), e.op = "record" PROVE Fits(c, e.as)'
      BY <1>4, <1>5, <1>9, <1>10, <2>1, <2>2, <2>3 DEF Fits
    <2>4. \A i \in DOMAIN trail'[c] : FALSE BY <1>4, <1>7, <1>8
    <2> QED BY <2>3, <2>4 DEF Named, Fits
  <1>15. Remembered(c)' BY <1>4, <1>9 DEF Remembered, Owed
  <1>16. Alerted(c)'
    <2>1. Alert(Verdict(c).rule.escalate).op # "ask" BY DEF Alert
    <2>2. ~ Early(c) BY <1>1 DEF Early
    <2> QED BY <1>4, <1>5, <1>6, <2>1, <2>2 DEF Kept, Alerted
  <1>17. Heard(c)' BY <1>4, <1>10 DEF Kept, Heard, Silent
  <1> QED BY <1>12, <1>13, <1>14, <1>15, <1>16, <1>17 DEF Kept

\* What is sent for the first time is what the plan says.
LEMMA SentAsPlanned ==
    ASSUME TypeOK, NEW c \in Calls, Kept(c), Doing(c, "forward"), sent[c] = <<>>,
           \E arrives \in Delivered : Deliver(c, arrives)
    PROVE  \A i \in DOMAIN sent'[c] : sent'[c][i] = Body(c)
  <1>1. PICK x : x = Head(todo[c]).as
    OBVIOUS
  <1>2. Head(todo[c]) \in Carried(todo[c])
    BY OrderedTail DEF Kept, InOrder, Doing
  <1>3. x = Body(c)
    BY <1>1, <1>2 DEF Kept, Faithful, Doing
  <1>4. sent'[c] = <<>> \/ sent'[c] = <<x>>
    BY <1>1 DEF Deliver, TypeOK, Types
  <1>5. DOMAIN <<>> = {} /\ DOMAIN <<x>> = {1} /\ <<x>>[1] = x
    OBVIOUS
  <1> QED BY <1>3, <1>4, <1>5

\* What is sent is what was decided.
LEMMA ForwardKeeps ==
    ASSUME TypeOK, NEW c \in Calls, InPhase(c), Kept(c), Seen(c), Seen(c)',
           WriteToChild(c) \/ PostUpstream(c)
    PROVE  Kept(c)'
  <1>1. Cleared(c) /\ (Posted(c)' \/ Offered(c)')
    BY ForwardPhase
  <1>2. FateGoesOn(c)
    BY <1>1 DEF Seen, FateGoesOn
  <1>3. SameCall(c) /\ trail'[c] = trail[c] /\ alerts'[c] = alerts[c] /\ Doing(c, "forward")
    BY DEF WriteToChild, PostUpstream, SameCall, fixed
  <1>4. /\ stage[c] = "effects" /\ todo[c] # <<>> /\ Head(todo[c]).op = "forward" /\ ~ Early(c)
    BY <1>3 DEF Doing, Early
  <1>5. \A i \in DOMAIN sent'[c] : sent'[c][i] = Body(c)
    BY <1>1, <1>3, SentAsPlanned DEF Cleared, Untold, WriteToChild, PostUpstream
  <1>6. CASE WriteToChild(c)
    <2>1. /\ todo'[c] = Tail(todo[c])
          /\ stage'[c] = IF Tail(todo[c]) = <<>> THEN "done" ELSE "effects"
      BY <1>6 DEF WriteToChild, Proceed, TypeOK, Types
    <2>2. mode = "stdio" BY <1>6 DEF WriteToChild
    <2> QED BY <1>2, <1>3, <1>4, <1>5, <2>1, <2>2, TailKeeps
  <1>7. CASE PostUpstream(c)
    <2>1. todo'[c] = todo[c] /\ stage'[c] = "upstream"
      BY <1>7 DEF PostUpstream, TypeOK, Types
    <2>2. ~ Early(c)' /\ ~ Silent(c)' BY <2>1 DEF Early, Silent
    <2> QED BY <1>2, <1>3, <1>4, <1>5, <2>1, <2>2, StillKept
  <1> QED BY <1>6, <1>7

\* Only the paths that report no failure leave a forwarded call unanswered.
LEMMA UpstreamKeeps ==
    ASSUME TypeOK, NEW c \in Calls, InPhase(c), Kept(c), Seen(c), Seen(c)',
           UpstreamAnswers(c) \/ UpstreamFails(c)
    PROVE  Kept(c)'
  <1>1. Posted(c) /\ Offered(c)' /\ sent'[c] = sent[c] /\ stage[c] = "upstream"
    BY UpstreamPhase DEF UpstreamAnswers, UpstreamFails
  <1>2. FateGoesOn(c)
    BY <1>1 DEF Seen, FateGoesOn
  <1>3. SameCall(c) /\ trail'[c] = trail[c] /\ alerts'[c] = alerts[c]
    BY DEF UpstreamAnswers, UpstreamFails, SameCall, fixed
  <1>4. /\ Head(todo[c]).op = "forward" /\ ~ Early(c) /\ todo[c] # <<>>
    BY <1>1 DEF Posted, Early, TypeOK, WellPlaced
  <1>5. \A i \in DOMAIN sent'[c] : sent'[c][i] = Body(c)
    BY <1>1 DEF Kept, Faithful
  <1>6. /\ todo'[c] = Tail(todo[c])
        /\ stage'[c] = IF Tail(todo[c]) = <<>> THEN "done" ELSE "effects"
    BY DEF UpstreamAnswers, UpstreamFails, Proceed, TypeOK, Types
  <1>7. Silent(c)' /\ mode # "stdio" =>
               Lossy /\ (mode = "http" => Judged(c) /\ outcome[c] = "approved")
    <2> SUFFICES ASSUME Silent(c)' PROVE Lossy /\ (mode = "http" => Judged(c) /\ outcome[c] = "approved")
      OBVIOUS
    <2>1. replies'[c] = <<>> BY DEF Silent
    <2>2. \A x \in Answers : Append(replies[c], x) # <<>>
      <3>1. ASSUME NEW x PROVE Append(<<>>, x) # <<>>
        <4>1. Append(<<>>, x) = <<x>> /\ Len(<<x>>) = 1 /\ Len(<<>>) = 0
          OBVIOUS
        <4> QED BY <4>1
      <3> QED BY <1>1, <3>1 DEF Posted
    <2>3. Lossy /\ ~ FailsLoudly(c)
      BY <2>1, <2>2 DEF UpstreamAnswers, UpstreamFails, Answers, TypeOK, Types
    <2>4. ASSUME mode = "http" PROVE Judged(c) /\ outcome[c] = "approved"
      <3>1. result[c] # Nil /\ result[c].decision = "require_approval"
        BY <2>3, <2>4 DEF FailsLoudly
      <3>2. Decided(c) /\ Verdict(c).decision = "require_approval"
        BY <3>1 DEF Kept, Heard
      <3> QED BY <1>1, <3>2 DEF Posted, Leave, HasLeave, Decided
    <2> QED BY <2>3, <2>4
  <1> QED BY <1>2, <1>3, <1>4, <1>5, <1>6, <1>7, TailKeeps

\* A refusal changes neither records nor alerts.
LEMMA ReplyErrorKeeps ==
    ASSUME TypeOK, NEW c \in Calls, InPhase(c), Kept(c), Seen(c), Seen(c)', ReplyError(c)
    PROVE  Kept(c)'
  <1>1. Refusing(c) /\ Told(c)'
    BY ReplyErrorPhase
  <1>2. FateGoesOn(c) /\ ~ Silent(c)'
    BY <1>1 DEF Seen, FateGoesOn, Silent
  <1>3. SameCall(c) /\ trail'[c] = trail[c] /\ alerts'[c] = alerts[c] /\ sent'[c] = sent[c]
    BY DEF ReplyError, SameCall, fixed
  <1>4. /\ Head(todo[c]).op = "reply" /\ ~ Early(c) /\ todo[c] # <<>>
    BY DEF ReplyError, Doing, Early
  <1>5. \A i \in DOMAIN sent'[c] : sent'[c][i] = Body(c)
    BY <1>3 DEF Kept, Faithful
  <1>6. /\ todo'[c] = Tail(todo[c])
        /\ stage'[c] = IF Tail(todo[c]) = <<>> THEN "done" ELSE "effects"
    BY DEF ReplyError, Proceed, TypeOK, Types
  <1> QED BY <1>2, <1>3, <1>4, <1>5, <1>6, TailKeeps

\* A record or an alert moves from what is to come to what was done.
LEMMA QuietKeeps ==
    ASSUME TypeOK, NEW c \in Calls, InPhase(c), Kept(c), Seen(c), Seen(c)',
           EmitAudit(c) \/ FireEscalation(c)
    PROVE  Kept(c)'
  <1>1. /\ \/ Asking(c) /\ Asking(c)'
           \/ Refusing(c) /\ Refusing(c)'
           \/ Cleared(c) /\ Cleared(c)'
           \/ Told(c) /\ Told(c)'
           \/ Offered(c) /\ Offered(c)'
        /\ sent'[c] = sent[c] /\ replies'[c] = replies[c]
    BY QuietPhase
  <1>2. FateOf(c)' = FateOf(c)
    BY <1>1 DEF Seen
  <1>3. FateGoesOn(c)
    BY <1>2 DEF FateGoesOn
  <1>4. SameCall(c)
    BY DEF EmitAudit, FireEscalation, SameCall, fixed
  <1>5. /\ Head(todo[c]).op \in {"record", "alert"} /\ ~ Early(c) /\ todo[c] # <<>>
        /\ stage[c] = "effects"
    BY DEF EmitAudit, FireEscalation, Doing, Early
  <1>6. \A i \in DOMAIN sent'[c] : sent'[c][i] = Body(c)
    BY <1>1 DEF Kept, Faithful
  <1>7. /\ todo'[c] = Tail(todo[c])
        /\ stage'[c] = IF Tail(todo[c]) = <<>> THEN "done" ELSE "effects"
    BY DEF EmitAudit, FireEscalation, Proceed, TypeOK, Types
  <1>8. Silent(c)' /\ mode # "stdio" =>
               Lossy /\ (mode = "http" => Judged(c) /\ outcome[c] = "approved")
    BY <1>1, <1>2, <1>5 DEF Silent, Kept, Heard
  <1>9. /\ trail'[c] = IF Head(todo[c]).op = "record" THEN Append(trail[c], Head(todo[c]).as)
                       ELSE trail[c]
        /\ Head(todo[c]).op = "alert" =>
               alerts'[c] = alerts[c] \cup ({Head(todo[c]).as} \cap boot.contacts)
        /\ Head(todo[c]).op # "alert" => alerts'[c] = alerts[c]
    BY DEF EmitAudit, FireEscalation, Doing, TypeOK, Types
  <1> QED BY <1>3, <1>4, <1>5, <1>6, <1>7, <1>8, <1>9, TailKeeps

\* Asking changes nothing that is accounted for.
LEMMA AskApprovalKeeps ==
    ASSUME TypeOK, NEW c \in Calls, InPhase(c), Kept(c), Seen(c), Seen(c)', AskApproval(c)
    PROVE  Kept(c)'
  <1>1. Asking(c) /\ Asking(c)'
    BY AskApprovalPhase
  <1>2. FateGoesOn(c) /\ ~ Silent(c)'
    BY <1>1 DEF Seen, FateGoesOn, Silent
  <1>3. /\ SameCall(c) /\ trail'[c] = trail[c] /\ alerts'[c] = alerts[c] /\ sent'[c] = sent[c]
        /\ todo'[c] = todo[c]
    BY DEF AskApproval, SameCall, fixed, world
  <1>4. ~ Early(c) /\ ~ Early(c)' /\ stage'[c] # "done"
    BY DEF AskApproval, Doing, Early, TypeOK, Types
  <1>5. \A i \in DOMAIN sent'[c] : sent'[c][i] = Body(c)
    BY <1>3 DEF Kept, Faithful
  <1> QED BY <1>2, <1>3, <1>4, <1>5, StillKept

\* The child's answer changes nothing that is accounted for.
LEMMA ChildAnswersKeeps ==
    ASSUME TypeOK, NEW c \in Calls, InPhase(c), Kept(c), Seen(c), Seen(c)', ChildAnswers(c)
    PROVE  Kept(c)'
  <1>1. Offered(c) /\ Offered(c)' /\ sent'[c] = sent[c]
    BY ChildAnswersPhase
  <1>2. FateGoesOn(c)
    BY <1>1 DEF Seen, FateGoesOn
  <1>3. /\ SameCall(c) /\ trail'[c] = trail[c] /\ alerts'[c] = alerts[c] /\ sent'[c] = sent[c]
        /\ todo'[c] = todo[c] /\ stage'[c] = stage[c] /\ mode = "stdio"
    BY DEF ChildAnswers, SameCall, fixed
  <1>4. ~ Early(c) /\ ~ Early(c)'
    BY <1>1 DEF Offered, Early
  <1>5. \A i \in DOMAIN sent'[c] : sent'[c][i] = Body(c)
    BY <1>3 DEF Kept, Faithful
  <1> QED BY <1>2, <1>3, <1>4, <1>5, StillKept

\* The record and the alerts of a call are its own handler's doing.
LEMMA OthersTraceless ==
    ASSUME TypeOK, NEW c \in Calls, NEW d \in Calls \ {c},
           \/ \E m \in Messages : Receive(c, m)
           \/ Handler(c) \/ ChildAnswers(c)
    PROVE  trail'[d] = trail[d] /\ alerts'[d] = alerts[d]
  BY DEF Receive, Handler, CheckLimits, CheckFilters, EvaluateRules, WriteToChild, PostUpstream,
         UpstreamAnswers, UpstreamFails, ReplyError, EmitAudit, FireEscalation, AskApproval,
         Settle, ChildAnswers, world, TypeOK, Types

\* The engine's rules name their channels, whatever documents are loaded.
LEMMA EngineNamesItsChannels == Spec => []NamesItsChannels(eng)
  <1>1. Init => NamesItsChannels(eng)
    BY LoadedNamesItsChannels, GuardAssumption DEF Init
  <1>2. NamesItsChannels(eng) /\ [Next]_vars => NamesItsChannels(eng)'
    <2> SUFFICES ASSUME NamesItsChannels(eng), [Next]_vars PROVE NamesItsChannels(eng)'
      OBVIOUS
    <2>1. ASSUME NEW file \in Files, Reload(file) PROVE NamesItsChannels(eng)'
      <3>1. NamesItsChannels(ReloadedEngine(file))
        BY <2>1, LoadedNamesItsChannels, GuardAssumption DEF Reload
      <3> QED BY <2>1, <3>1 DEF Reload, NamesItsChannels
    <2>2. ASSUME ~ \E file \in Files : Reload(file) PROVE eng' = eng
      BY <2>2 DEF Next, Receive, Handler, CheckLimits, CheckFilters, EvaluateRules, WriteToChild,
         PostUpstream, UpstreamAnswers, UpstreamFails, ReplyError, EmitAudit, FireEscalation,
         AskApproval, Settle, ChildAnswers, shared, vars
    <2> QED BY <2>1, <2>2 DEF NamesItsChannels
  <1> QED BY <1>1, <1>2, PTL DEF Spec

Account == \A c \in Calls : Kept(c)
\* What a handler did and has still to do always accounts for its call.
THEOREM AccountInvariant == Spec => []Account
  <1>0. (\A c : Seen(c))'
    BY GateView, PTL
  <1>1. Init => Account
    <2> SUFFICES ASSUME Init, NEW c \in Calls PROVE Kept(c)
      BY DEF Account
    <2> QED BY BlankKept DEF Init, Blank, Early
  <1>2. TypeOK /\ Phased /\ NamesItsChannels(eng) /\ Account /\ [Next]_vars => Account'
    <2> SUFFICES ASSUME TypeOK, Phased, NamesItsChannels(eng), Account, [Next]_vars,
                        NEW d \in Calls
                 PROVE  Kept(d)'
      BY DEF Account
    <2>1. InPhase(d) /\ Kept(d) /\ Seen(d) /\ Seen(d)'
      BY <1>0, GateView DEF Phased, Account
    <2>2. ASSUME NEW c \in Calls, c # d,
                 (\E m \in Messages : Receive(c, m)) \/ Handler(c) \/ ChildAnswers(c)
          PROVE  Kept(d)'
      BY <2>1, <2>2, OthersUntouched, OthersTraceless, KeptFrame
    <2>3. ASSUME NEW m \in Messages, Receive(d, m) PROVE Kept(d)'
      BY <2>1, <2>3, ReceiveKeeps
    <2>4. ASSUME Handler(d) PROVE Kept(d)'
      <3>1. CASE CheckLimits(d) \/ CheckFilters(d) \/ EvaluateRules(d)
        BY <2>1, <3>1, CheckLimitsKeeps, CheckFiltersKeeps, EvaluateRulesKeeps
      <3>2. CASE WriteToChild(d) \/ PostUpstream(d) \/ UpstreamAnswers(d) \/ UpstreamFails(d)
        BY <2>1, <3>2, ForwardKeeps, UpstreamKeeps
      <3>3. CASE ReplyError(d) \/ EmitAudit(d) \/ FireEscalation(d)
        BY <2>1, <3>3, ReplyErrorKeeps, QuietKeeps
      <3>4. CASE AskApproval(d) \/ Settle(d)
        BY <2>1, <3>4, AskApprovalKeeps, SettleKeeps
      <3> QED BY <2>4, <3>1, <3>2, <3>3, <3>4 DEF Handler
    <2>5. ASSUME ChildAnswers(d) PROVE Kept(d)'
      BY <2>1, <2>5, ChildAnswersKeeps
    <2>6. ASSUME NEW file \in Files, Reload(file) PROVE Kept(d)'
      BY <2>1, <2>6, KeptFrame DEF Reload, fixed, world
    <2>7. CASE UNCHANGED vars
      BY <2>1, <2>7, KeptFrame DEF vars, fixed, world
    <2> QED BY <2>2, <2>3, <2>4, <2>5, <2>6, <2>7 DEF Next
  <1> QED BY <1>1, <1>2, Typing, PhaseInvariant, EngineNamesItsChannels, PTL DEF Spec

\* The server receives the mutated call exactly when the policy in force at the
\* decision rewrites it, however long the way from the decision to the server.
THEOREM WhatArrivesWasDecided == Spec => []ArrivesAsDecided
  <1>1. Account => ArrivesAsDecided
    BY DEF Account, Kept, Faithful, Body, ArrivesAsDecided
  <1> QED BY <1>1, AccountInvariant, PTL

\* Where a call with a given fate can be.
LEMMA FateTells ==
    ASSUME NEW c \in Calls, InPhase(c), Seen(c)
    PROVE  /\ FateOf(c) \in {"cleared", "offered"} => Cleared(c) \/ Posted(c) \/ Offered(c)
           /\ FateOf(c) = "refused" => Refusing(c) \/ Told(c)
  BY DEF InPhase, Seen

\* A finished call has left a true record, a record wherever one is due and an
\* alert wherever one is due, in each copy of the handler (emitAudit, Fire).
THEOREM EveryCallLeavesATrail == Spec => []LeavesATrail
  <1>0. DOMAIN <<>> = {}
    OBVIOUS
  <1>1. Phased /\ Account => TrailIsTrue
    <2> SUFFICES ASSUME Phased, Account, NEW c \in Calls
                 PROVE  /\ Len(trail[c]) <= 1
                        /\ \A i \in DOMAIN trail[c] :
                             IF trail[c][i] \in Passing
                             THEN /\ HasLeave(c) /\ ~ Refused(c) /\ ~ Forwarding(c)
                                  /\ trail[c][i] = Due(c)
                             ELSE Refused(c) /\ sent[c] = <<>>
      BY DEF TrailIsTrue, Due, DueOf
    <2>1. InPhase(c) /\ Kept(c) /\ Seen(c)
      BY GateView DEF Phased, Account
    <2>2. Len(trail[c]) <= 1 BY <2>1 DEF Kept, InOrder
    <2> SUFFICES ASSUME NEW i \in DOMAIN trail[c]
                 PROVE  IF trail[c][i] \in Passing
                        THEN /\ HasLeave(c) /\ ~ Refused(c) /\ ~ Forwarding(c)
                             /\ trail[c][i] = Due(c)
                        ELSE Refused(c) /\ sent[c] = <<>>
      BY <2>2
    <2>3. \A e \in Carried(todo[c]) : e.op = "alert"
      BY <1>0, <2>1 DEF Kept, InOrder
    <2>4. ~ Forwarding(c) /\ ~ Refusing(c) /\ ~ Cleared(c)
      BY <2>3 DEF Carried, Forwarding, Refusing, Cleared, OneOf
    <2>5. Fits(c, trail[c][i]) BY <2>1 DEF Kept, Named
    <2>6. CASE trail[c][i] \in Passing
      <3>1. Judged(c) /\ FateOf(c) \in {"cleared", "offered"} /\ trail[c][i] = Due(c)
        BY <2>5, <2>6 DEF Fits
      <3>2. Posted(c) \/ Offered(c) BY <2>1, <2>4, <3>1, FateTells
      <3>3. HasLeave(c) /\ ~ Refused(c)
        BY <1>0, <3>1, <3>2 DEF Posted, Offered, Leave, Refused
      <3> QED BY <2>4, <2>6, <3>1, <3>3
    <2>7. CASE trail[c][i] \notin Passing
      <3>1. Told(c) BY <2>1, <2>4, <2>5, <2>7, FateTells DEF Fits
      <3>2. AnswerTo(c) = "refusal" BY <2>1, <3>1 DEF Seen
      <3>3. Refused(c) BY <3>2 DEF AnswerTo
      <3> QED BY <2>7, <3>1, <3>3 DEF Told
    <2> QED BY <2>6, <2>7
  <1>2. Account => TrailIsComplete
    <2> SUFFICES ASSUME Account, NEW c \in Calls, Judged(c), stage[c] = "done", mode # "bridge",
                        Decided(c) => \/ outcome[c] # Nil
                                      \/ /\ Verdict(c).audit
                                         /\ Verdict(c).decision = "mutate" => Rewrites(c)
                 PROVE  trail[c] # <<>>
      BY DEF TrailIsComplete
    <2>1. Kept(c) BY DEF Account
    <2>2. Carried(todo[c]) = {} /\ ~ Early(c)
      BY <1>0, <2>1 DEF Kept, InOrder, Carried, Early
    <2>3. Rewrites(c) => BodyOf(Verdict(c), request[c].content) = "mutated"
      BY DEF Rewrites, BodyOf
    <2>4. Owed(c)
      BY <2>3 DEF Owed, AsksForARecord
    <2> QED BY <2>1, <2>2, <2>4 DEF Kept, Remembered
  <1>3. Account => EscalatesAsDecided
    <2> SUFFICES ASSUME Account, NEW c \in Calls, stage[c] = "done", Decided(c),
                        Verdict(c).rule # Nil, Verdict(c).rule.escalate \in boot.contacts
                 PROVE  Verdict(c).rule.escalate \in alerts[c]
      BY DEF EscalatesAsDecided
    <2>1. Kept(c) BY DEF Account
    <2>2. Carried(todo[c]) = {} /\ ~ Early(c)
      BY <1>0, <2>1 DEF Kept, InOrder, Carried, Early
    <2> QED BY <2>1, <2>2 DEF Kept, Alerted
  <1> QED BY <1>1, <1>2, <1>3, PhaseInvariant, AccountInvariant, PTL DEF LeavesATrail

\* A finished call whose client heard nothing was forwarded with leave, and only
\* a server that failed on a path that does not report it can be the reason in
\* HTTP and bridge mode (forwardAndRelaySSE, forwardAndPrint).
THEOREM NoSilentRefusal == Spec => []SilenceIsTheServers
  <1>1. TypeOK /\ Phased /\ Account => SilenceIsTheServers
    <2> SUFFICES ASSUME TypeOK, Phased, Account, NEW c \in Calls, stage[c] = "done",
                        replies[c] = <<>>
                 PROVE  /\ mode = "http" => Judged(c) /\ outcome[c] = "approved" /\ Lossy
                        /\ mode = "bridge" => Lossy
                        /\ Judged(c) => HasLeave(c)
      BY DEF SilenceIsTheServers
    <2>1. InPhase(c) /\ Kept(c) /\ Seen(c)
      BY GateView DEF Phased, Account
    <2>2. Len(<<>>) = 0 OBVIOUS
    <2>3. Offered(c)
      BY <2>1, <2>2 DEF InPhase, Unseen, Vetting, Asking, Refusing, Cleared, Posted, Told
    <2>4. Silent(c) BY <2>1, <2>3 DEF Silent, Seen
    <2> QED BY <2>1, <2>3, <2>4 DEF Kept, Heard, Offered, Leave
  <1> QED BY <1>1, Typing, PhaseInvariant, AccountInvariant, PTL
=============================================================================
