-------------------------- MODULE EvaluationProofs --------------------------
(***************************************************************************)
(* For every set of policies, schedules and jobs: the types, that Evaluate *)
(* gives the verdict of one policy, in a minute's time the very verdict    *)
(* that Guard takes in one step, that a filtered list is true, and that an *)
(* expression is compiled once.  And what a policy document says before    *)
(* and after a reload.                                                     *)
(***************************************************************************)
EXTENDS Evaluation, SequenceTheorems, FiniteSetTheorems, WellFoundedInduction, TLAPS

CelStages == {"looking", "wanting", "compiling", "running"}
Stages    == {"idle", "next", "matching", "done"} \cup CelStages

\* The part of the types that is one job's.
JobType(j) ==
    /\ stage[j] \in Stages /\ rule[j] \in Nat \ {0}
    /\ shown[j] \in Seq(Tools \cup {Nil})
    /\ basis[j] \in [DOMAIN Work[j].tools -> Basis \cup {Nil}]
    /\ at[j] \in 1 .. Len(Work[j].tools) + 1
    /\ Evaluating(j) => /\ at[j] <= Len(Work[j].tools) /\ j \in readers
                        /\ basis[j][at[j]] \in Basis
    /\ stage[j] = "compiling" <=> celLock = j
    /\ stage[j] \in CelStages => rule[j] \in DOMAIN eng.rules /\ Reading(j).cel \in Expressions

\* What a job works on, and what a policy says.
LEMMA JobFacts ==
    ASSUME NEW j \in Jobs
    PROVE  /\ Work[j].tools \in Seq(Tools \cup {Nil}) /\ Len(Work[j].tools) \in Nat
           /\ DOMAIN Work[j].tools = 1 .. Len(Work[j].tools)
           /\ Work[j].list \in BOOLEAN /\ Work[j].parses \in BOOLEAN
           /\ Work[j].agent \in Agents /\ Work[j].content \in Content
           /\ Work[j].list => Work[j].content = Nil
           /\ j # Nil
  <1>1. Work[j] \in Job
    BY EvaluationAssumption
  <1>2. Work[j].tools \in Seq(Tools \cup {Nil})
    BY <1>1 DEF Job
  <1>3. /\ Work[j].list \in BOOLEAN /\ Work[j].parses \in BOOLEAN /\ Work[j].agent \in Agents /\ Work[j].content \in Content
    BY <1>1 DEF Job
  <1>4. Work[j].list => Work[j].content = Nil
    BY EvaluationAssumption
  <1> QED
    BY <1>2, <1>3, <1>4, LenProperties, JobAssumption

LEMMA PolicyFacts ==
    ASSUME NEW e \in Policies
    PROVE  /\ e.rules \in Seq(Rule) /\ Len(e.rules) \in Nat /\ DOMAIN e.rules = 1 .. Len(e.rules)
           /\ \A i \in DOMAIN e.rules :
                 /\ e.rules[i] \in Rule
                 /\ ResultFromRule(e.rules[i], e.defaults) \in EvalResult
           /\ ResultFromDefaults(e.defaults) \in EvalResult
  <1>1. e.rules \in Seq(Rule) /\ e.defaults \in EffectiveDefault
    BY EvaluationAssumption DEF EngineState
  <1>2. Len(e.rules) \in Nat /\ DOMAIN e.rules = 1 .. Len(e.rules)
    BY <1>1, LenProperties
  <1>3. ASSUME NEW i \in DOMAIN e.rules PROVE e.rules[i] \in Rule
    BY <1>1, <1>3, ElementOfSeq, LenProperties
  <1>4. ASSUME NEW r \in Rule PROVE ResultFromRule(r, e.defaults) \in EvalResult
    BY <1>1 DEF ResultFromRule, EvalResult, EffectiveDefault, Decision, RuleActions, Rule, Flag
  <1>5. ResultFromDefaults(e.defaults) \in EvalResult
    BY <1>1 DEF ResultFromDefaults, EvalResult, EffectiveDefault, Decision, RuleActions
  <1> QED
    BY <1>1, <1>2, <1>3, <1>4, <1>5



\* The minute of an instant.
LEMMA MinuteFacts ==
    ASSUME NEW t \in Nat
    PROVE  /\ Minute(t) \in Nat
           /\ Minute(t) * PerMinute <= t /\ t < Minute(t) * PerMinute + PerMinute
  <1>1. PICK d \in Nat \ {0} : d = PerMinute
    BY EvaluationAssumption
  <1>2. t \div d \in Nat /\ (t \div d) * d <= t /\ t < (t \div d) * d + d
    OBVIOUS
  <1> QED
    BY <1>1, <1>2 DEF Minute

\* The types of the jobs and of what they share make TypeOK.
SharedType ==
    /\ eng \in Policies /\ coming \in Policies /\ writer \in {"none", "waiting"}
    /\ reloads \in 0 .. MaxReloads /\ readers \subseteq Jobs
    /\ cache \subseteq Expressions /\ celLock \in Jobs \cup {Nil}
    /\ compiled \in [Expressions -> Nat] /\ now \in Nat
    /\ seen \in [Jobs -> SUBSET Policies] /\ span \in [Jobs -> SUBSET Nat]
    /\ DOMAIN stage = Jobs /\ DOMAIN at = Jobs /\ DOMAIN rule = Jobs /\ DOMAIN shown = Jobs
    /\ DOMAIN basis = Jobs /\ stage = [j \in Jobs |-> stage[j]] /\ at = [j \in Jobs |-> at[j]]
    /\ rule = [j \in Jobs |-> rule[j]] /\ shown = [j \in Jobs |-> shown[j]]

LEMMA TypesApart == TypeOK <=> SharedType /\ \A j \in Jobs : JobType(j)
  <1>1. TypeOK => SharedType /\ \A j \in Jobs : JobType(j)
    BY DEF TypeOK, SharedType, JobType, Stages, CelStages
  <1>2. ASSUME SharedType, \A j \in Jobs : JobType(j) PROVE TypeOK
    <2>1. stage \in [Jobs -> Stages] /\ rule \in [Jobs -> Nat \ {0}]
          /\ shown \in [Jobs -> Seq(Tools \cup {Nil})]
      BY <1>2 DEF SharedType, JobType
    <2>2. at \in [Jobs -> Nat]
      BY <1>2, JobFacts DEF SharedType, JobType
    <2> QED
      BY <1>2, <2>1, <2>2 DEF TypeOK, SharedType, JobType, Stages, CelStages
  <1> QED
    BY <1>1, <1>2

LEMMA TypesApartNext == (SharedType /\ \A j \in Jobs : JobType(j))' => TypeOK'
  BY TypesApart, PTL

\* The type of a job of which nothing changes.
LEMMA IdleType ==
    ASSUME NEW i \in Jobs, JobType(i), eng' = eng, i \in readers => i \in readers',
           stage'[i] = stage[i], rule'[i] = rule[i], shown'[i] = shown[i],
           basis'[i] = basis[i], at'[i] = at[i], celLock' = i <=> celLock = i
    PROVE  JobType(i)'
  BY DEF JobType, Evaluating, Reading

\* A step of one job.
Alone(j) ==
    \A i \in Jobs \ {j} :
        /\ stage'[i] = stage[i] /\ rule'[i] = rule[i] /\ shown'[i] = shown[i]
        /\ basis'[i] = basis[i] /\ at'[i] = at[i] /\ (i \in readers => i \in readers')
        /\ celLock' = i <=> celLock = i

LEMMA StepIsAlone ==
    ASSUME TypeOK, NEW j \in Jobs, Step(j)
    PROVE  Alone(j) /\ engine' = engine /\ now' = now
  <1>1. SharedType /\ JobType(j) /\ j # Nil
    BY TypesApart, JobFacts
  <1>2. ASSUME NEW r, Leave(j, r), UNCHANGED celLock PROVE Alone(j)
    BY <1>1, <1>2 DEF Leave, GoTo, Alone, SharedType
  <1>3. ASSUME NoMatch(j), celLock' = celLock \/ (celLock = j /\ celLock' = Nil) PROVE Alone(j)
    BY <1>1, <1>3, JobFacts DEF NoMatch, GoTo, Alone, SharedType
  <1>4. CASE Begin(j) \/ PassWhole(j) \/ KeepEntry(j) \/ Finish(j) \/ Enter(j) \/ Look(j)
             \/ LockCel(j)
    BY <1>1, <1>4, JobFacts DEF Begin, PassWhole, KeepEntry, Finish, Enter, Look, LockCel, GoTo,
       Alone, SharedType, cel, past, JobType
  <1>5. CASE Match(j)
    <2>1. engine' = engine /\ now' = now /\ celLock' = celLock
      BY <1>5 DEF Match, cel
    <2>2. CASE GoTo(j, "looking") /\ UNCHANGED <<readers, basis, shown, at, rule>>
      BY <1>1, <2>1, <2>2 DEF GoTo, Alone, SharedType
    <2>3. \/ \E r : Leave(j, r)
          \/ NoMatch(j)
          \/ GoTo(j, "looking") /\ UNCHANGED <<readers, basis, shown, at, rule>>
      BY <1>5 DEF Match
    <2>4. CASE \E r : Leave(j, r)
      <3>1. PICK r : Leave(j, r)
        BY <2>4
      <3> QED
        BY <1>2, <2>1, <3>1
    <2>5. CASE NoMatch(j)
      BY <1>3, <2>1, <2>5
    <2>6. Alone(j)
      BY <2>2, <2>3, <2>4, <2>5
    <2> QED
      BY <2>1, <2>6
  <1>6. CASE Compile(j)
    <2>1. engine' = engine /\ now' = now /\ celLock = j /\ celLock' = Nil
      BY <1>1, <1>6 DEF Compile, JobType
    <2>2. CASE GoTo(j, "running") /\ UNCHANGED <<readers, basis, shown, at, rule>>
      BY <1>1, <2>1, <2>2, JobFacts DEF GoTo, Alone, SharedType
    <2> QED
      BY <1>3, <1>6, <2>1, <2>2 DEF Compile
  <1>7. CASE RunProgram(j)
    <2>1. engine' = engine /\ now' = now /\ celLock' = celLock
      BY <1>7 DEF RunProgram, cel
    <2>2. (\E r : Leave(j, r)) \/ NoMatch(j)
      BY <1>7 DEF RunProgram
    <2>3. CASE \E r : Leave(j, r)
      <3>1. PICK r : Leave(j, r)
        BY <2>3
      <3> QED
        BY <1>2, <2>1, <3>1
    <2>4. CASE NoMatch(j)
      BY <1>3, <2>1, <2>4
    <2> QED
      BY <2>1, <2>2, <2>3, <2>4
  <1> QED
    BY <1>4, <1>5, <1>6, <1>7 DEF Step

LEMMA OthersKeepTypes ==
    ASSUME TypeOK, NEW j \in Jobs, Step(j)
    PROVE  \A i \in Jobs \ {j} : JobType(i)'
  <1>1. Alone(j) /\ eng' = eng
    BY StepIsAlone DEF engine
  <1> QED
    BY <1>1, TypesApart, IdleType DEF Alone

\* A verdict is taken down, or the next rule is looked at.
LEMMA LeaveType ==
    ASSUME SharedType, NEW j \in Jobs, JobType(j), Evaluating(j), stage[j] # "compiling",
           NEW r \in EvalResult, Leave(j, r), UNCHANGED <<eng, celLock>>
    PROVE  JobType(j)' /\ basis' = [i \in Jobs |-> basis'[i]] /\ DOMAIN basis' = Jobs
           /\ readers' \subseteq Jobs
  <1>1. at[j] \in DOMAIN Work[j].tools /\ at'[j] = at[j] + 1
        /\ at'[j] \in 1 .. Len(Work[j].tools) + 1
    BY JobFacts DEF SharedType, JobType, Leave
  <1>2. basis[j][at[j]] \in Basis
    BY <1>1 DEF JobType
  <1>3. /\ basis'[j] = [basis[j] EXCEPT ![at[j]] = [basis[j][at[j]] EXCEPT !.result = r]]
        /\ DOMAIN basis' = Jobs /\ basis' = [i \in Jobs |-> basis'[i]]
    BY DEF Leave, SharedType
  <1>4. [basis[j][at[j]] EXCEPT !.result = r] \in Basis
    BY <1>2 DEF Basis
  <1>5. basis'[j] \in [DOMAIN Work[j].tools -> Basis \cup {Nil}]
    BY <1>1, <1>3, <1>4 DEF JobType
  <1>6. shown'[j] \in Seq(Tools \cup {Nil})
    <2>1. Entry(j) \in Tools \cup {Nil}
      BY <1>1, JobFacts, ElementOfSeq DEF Entry
    <2>2. Append(shown[j], Entry(j)) \in Seq(Tools \cup {Nil})
      BY <2>1, AppendProperties DEF JobType
    <2> QED
      BY <2>2 DEF Leave, SharedType, JobType
  <1>7. stage'[j] = "next" /\ rule'[j] = rule[j] /\ readers' \subseteq Jobs
    BY DEF Leave, GoTo, SharedType
  <1> QED
    BY <1>1, <1>3, <1>5, <1>6, <1>7 DEF JobType, Evaluating, Stages, CelStages

LEMMA NoMatchType ==
    ASSUME SharedType, NEW j \in Jobs, JobType(j), Evaluating(j), NoMatch(j), eng' = eng,
           celLock' # j
    PROVE  JobType(j)'
  <1>1. /\ stage'[j] = "matching" /\ rule'[j] = rule[j] + 1
        /\ UNCHANGED <<readers, basis, shown, at>>
    BY DEF NoMatch, GoTo, SharedType
  <1> QED
    BY <1>1 DEF JobType, Evaluating, Stages, CelStages

\* A job's step keeps its own types and those of what is shared.
LEMMA BeginType ==
    ASSUME SharedType, NEW j \in Jobs, JobType(j), Begin(j)
    PROVE  SharedType' /\ JobType(j)'
  <1>1. /\ stage'[j] = "next" /\ DOMAIN stage' = Jobs /\ stage' = [i \in Jobs |-> stage'[i]]
        /\ seen' = [seen EXCEPT ![j] = {eng}] /\ span' = [span EXCEPT ![j] = {Minute(now)}]
        /\ UNCHANGED <<readers, now, at, rule, shown, basis>>
        /\ UNCHANGED <<eng, writer, coming, reloads, cache, celLock, compiled>>
    BY DEF Begin, GoTo, SharedType, engine, cel
  <1>2. Minute(now) \in Nat
    BY MinuteFacts DEF SharedType
  <1>3. seen' \in [Jobs -> SUBSET Policies] /\ span' \in [Jobs -> SUBSET Nat]
    BY <1>1, <1>2 DEF SharedType
  <1>4. stage[j] = "idle"
    BY DEF Begin
  <1> QED
    BY <1>1, <1>3, <1>4 DEF SharedType, JobType, Evaluating, Stages, CelStages

LEMMA PassWholeType ==
    ASSUME SharedType, NEW j \in Jobs, JobType(j), PassWhole(j)
    PROVE  SharedType' /\ JobType(j)'
  <1>1. /\ stage[j] = "idle" /\ stage'[j] = "done"
        /\ DOMAIN stage' = Jobs /\ stage' = [i \in Jobs |-> stage'[i]]
        /\ shown'[j] = Work[j].tools
        /\ DOMAIN shown' = Jobs /\ shown' = [i \in Jobs |-> shown'[i]]
        /\ UNCHANGED <<readers, now, at, rule, basis, seen, span>>
        /\ UNCHANGED <<eng, writer, coming, reloads, cache, celLock, compiled>>
    BY DEF PassWhole, GoTo, SharedType, engine, cel, past
  <1>2. shown'[j] \in Seq(Tools \cup {Nil})
    BY <1>1, JobFacts
  <1> QED
    BY <1>1, <1>2 DEF SharedType, JobType, Evaluating, Stages, CelStages

LEMMA KeepEntryType ==
    ASSUME SharedType, NEW j \in Jobs, JobType(j), KeepEntry(j)
    PROVE  SharedType' /\ JobType(j)'
  <1>1. /\ stage[j] = "next" /\ at[j] <= Len(Work[j].tools) /\ at'[j] = at[j] + 1
        /\ DOMAIN at' = Jobs /\ at' = [i \in Jobs |-> at'[i]]
        /\ shown'[j] = Append(shown[j], Nil)
        /\ DOMAIN shown' = Jobs /\ shown' = [i \in Jobs |-> shown'[i]]
        /\ UNCHANGED <<readers, now, stage, rule, basis, seen, span>>
        /\ UNCHANGED <<eng, writer, coming, reloads, cache, celLock, compiled>>
    BY DEF KeepEntry, SharedType, engine, cel, past
  <1>2. shown'[j] \in Seq(Tools \cup {Nil})
    BY <1>1, AppendProperties DEF JobType
  <1>3. at'[j] \in 1 .. Len(Work[j].tools) + 1
    BY <1>1, JobFacts DEF JobType
  <1> QED
    BY <1>1, <1>2, <1>3 DEF SharedType, JobType, Evaluating, Reading, Stages, CelStages

LEMMA FinishType ==
    ASSUME SharedType, NEW j \in Jobs, JobType(j), Finish(j)
    PROVE  SharedType' /\ JobType(j)'
  <1>1. /\ stage[j] = "next" /\ stage'[j] = "done"
        /\ DOMAIN stage' = Jobs /\ stage' = [i \in Jobs |-> stage'[i]]
        /\ UNCHANGED <<readers, now, at, rule, shown, basis, seen, span>>
        /\ UNCHANGED <<eng, writer, coming, reloads, cache, celLock, compiled>>
    BY DEF Finish, GoTo, SharedType, engine, cel, past
  <1> QED
    BY <1>1 DEF SharedType, JobType, Evaluating, Stages, CelStages

LEMMA EnterType ==
    ASSUME SharedType, NEW j \in Jobs, JobType(j), Enter(j)
    PROVE  SharedType' /\ JobType(j)'
  <1> DEFINE b == [eng |-> eng, span |-> {Minute(now)}, result |-> Nil]
  <1>1. /\ stage[j] = "next" /\ stage'[j] = "matching" /\ at[j] <= Len(Work[j].tools)
        /\ DOMAIN stage' = Jobs /\ stage' = [i \in Jobs |-> stage'[i]]
        /\ rule'[j] = 1 /\ DOMAIN rule' = Jobs /\ rule' = [i \in Jobs |-> rule'[i]]
        /\ readers' = readers \cup {j}
        /\ basis'[j] = [basis[j] EXCEPT ![at[j]] = b] /\ DOMAIN basis' = Jobs
        /\ UNCHANGED <<now, at, shown, seen, span>>
        /\ UNCHANGED <<eng, writer, coming, reloads, cache, celLock, compiled>>
    BY DEF Enter, GoTo, SharedType, engine, cel, past
  <1>2. Minute(now) \in Nat
    BY MinuteFacts DEF SharedType
  <1>3. b \in Basis
    BY <1>2 DEF Basis, SharedType
  <1>4. at[j] \in DOMAIN Work[j].tools
    BY <1>1, JobFacts DEF JobType
  <1> HIDE DEF b
  <1>5. basis'[j] \in [DOMAIN Work[j].tools -> Basis \cup {Nil}] /\ basis'[j][at'[j]] \in Basis
    BY <1>1, <1>3, <1>4 DEF JobType
  <1> QED
    BY <1>1, <1>5 DEF SharedType, JobType, Evaluating, Stages, CelStages

LEMMA MatchType ==
    ASSUME SharedType, NEW j \in Jobs, JobType(j), Match(j)
    PROVE  SharedType' /\ JobType(j)'
  <1>0. /\ stage[j] = "matching" /\ Evaluating(j) /\ celLock # j
        /\ UNCHANGED <<eng, writer, coming, reloads>> /\ UNCHANGED <<cache, celLock, compiled>>
        /\ UNCHANGED <<now, seen, span>>
    BY DEF Match, JobType, Evaluating, engine, cel, past
  <1>1. CASE rule[j] > Len(eng.rules)
    <2>1. PICK r \in EvalResult : Leave(j, r)
      BY <1>1, PolicyFacts DEF Match, SharedType
    <2>2. /\ JobType(j)' /\ DOMAIN basis' = Jobs /\ readers' \subseteq Jobs
      BY <1>0, <2>1, LeaveType
    <2> QED
      BY <1>0, <2>1, <2>2 DEF SharedType, Leave, GoTo
  <1>2. CASE ~ (rule[j] > Len(eng.rules))
    <2>0. rule[j] \in DOMAIN eng.rules
      BY <1>2, PolicyFacts DEF SharedType, JobType
    <2>1. CASE Fits(j) /\ Reading(j).cel = Content
               /\ Leave(j, ResultFromRule(Reading(j), eng.defaults))
      <3>1. PICK r \in EvalResult : Leave(j, r)
        BY <2>0, <2>1, PolicyFacts DEF SharedType, Reading
      <3>2. /\ JobType(j)' /\ DOMAIN basis' = Jobs /\ readers' \subseteq Jobs
        BY <1>0, <3>1, LeaveType
      <3> QED
        BY <1>0, <3>1, <3>2 DEF SharedType, Leave, GoTo
    <2>2. CASE NoMatch(j)
      <3>1. JobType(j)'
        BY <1>0, <2>2, NoMatchType
      <3> QED
        BY <1>0, <2>2, <3>1 DEF SharedType, NoMatch, GoTo
    <2>3. CASE /\ Reading(j).cel # Content /\ GoTo(j, "looking")
               /\ UNCHANGED <<readers, basis, shown, at, rule>>
      <3>1. Reading(j).cel \in Expressions
        <4>1. eng.rules[rule[j]] \in Rule
          BY <2>0, PolicyFacts DEF SharedType
        <4> QED
          BY <2>3, <4>1 DEF Reading, Rule, Expressions
      <3>2. stage'[j] = "looking" /\ DOMAIN stage' = Jobs /\ stage' = [i \in Jobs |-> stage'[i]]
        BY <2>3 DEF GoTo, SharedType
      <3>3. JobType(j)'
        BY <1>0, <2>0, <2>3, <3>1, <3>2 DEF JobType, Evaluating, Reading, Stages, CelStages
      <3> QED
        BY <1>0, <2>3, <3>2, <3>3 DEF SharedType
    <2> QED
      BY <1>2, <2>1, <2>2, <2>3 DEF Match
  <1> QED
    BY <1>1, <1>2

LEMMA LookType ==
    ASSUME SharedType, NEW j \in Jobs, JobType(j), Look(j)
    PROVE  SharedType' /\ JobType(j)'
  <1>1. /\ stage[j] = "looking" /\ stage'[j] \in {"running", "wanting"}
        /\ DOMAIN stage' = Jobs /\ stage' = [i \in Jobs |-> stage'[i]]
        /\ UNCHANGED <<readers, now, at, rule, shown, basis, seen, span>>
        /\ UNCHANGED <<eng, writer, coming, reloads, cache, celLock, compiled>>
    BY DEF Look, GoTo, SharedType, engine, cel, past
  <1> QED
    BY <1>1 DEF SharedType, JobType, Evaluating, Reading, Stages, CelStages

LEMMA LockCelType ==
    ASSUME SharedType, NEW j \in Jobs, JobType(j), LockCel(j)
    PROVE  SharedType' /\ JobType(j)'
  <1>1. /\ stage[j] = "wanting" /\ stage'[j] = "compiling" /\ celLock' = j
        /\ DOMAIN stage' = Jobs /\ stage' = [i \in Jobs |-> stage'[i]]
        /\ UNCHANGED <<readers, now, at, rule, shown, basis, seen, span>>
        /\ UNCHANGED <<eng, writer, coming, reloads, cache, compiled>>
    BY DEF LockCel, GoTo, SharedType, engine, cel, past
  <1> QED
    BY <1>1 DEF SharedType, JobType, Evaluating, Reading, Stages, CelStages

LEMMA CompileType ==
    ASSUME SharedType, NEW j \in Jobs, JobType(j), Compile(j)
    PROVE  SharedType' /\ JobType(j)'
  <1>0. /\ stage[j] = "compiling" /\ Evaluating(j) /\ celLock' = Nil /\ j # Nil
        /\ UNCHANGED <<eng, writer, coming, reloads>> /\ UNCHANGED <<now, seen, span>>
    BY JobFacts DEF Compile, JobType, Evaluating, engine, past
  <1>1. Reading(j).cel \in Expressions
    BY <1>0 DEF JobType, CelStages
  <1>2. cache' \subseteq Expressions /\ compiled' \in [Expressions -> Nat]
    <2>1. [compiled EXCEPT ![Reading(j).cel] = @ + 1] \in [Expressions -> Nat]
      <3>1. PICK x \in Expressions, n \in Nat : x = Reading(j).cel /\ n = compiled[x]
        BY <1>1 DEF SharedType
      <3> HIDE DEF Expressions
      <3>2. [compiled EXCEPT ![x] = n + 1] \in [Expressions -> Nat]
        BY DEF SharedType
      <3> QED
        BY <3>1, <3>2
    <2> QED
      BY <1>1, <2>1 DEF Compile, SharedType
  <1>3. CASE GoTo(j, "running") /\ UNCHANGED <<readers, basis, shown, at, rule>>
    <2>1. stage'[j] = "running" /\ DOMAIN stage' = Jobs /\ stage' = [i \in Jobs |-> stage'[i]]
      BY <1>3 DEF GoTo, SharedType
    <2> QED
      BY <1>0, <1>2, <1>3, <2>1 DEF SharedType, JobType, Evaluating, Reading, Stages, CelStages
  <1>4. CASE NoMatch(j)
    <2>1. JobType(j)'
      BY <1>0, <1>4, NoMatchType
    <2> QED
      BY <1>0, <1>2, <1>4, <2>1 DEF SharedType, NoMatch, GoTo
  <1> QED
    BY <1>3, <1>4 DEF Compile

LEMMA RunProgramType ==
    ASSUME SharedType, NEW j \in Jobs, JobType(j), RunProgram(j)
    PROVE  SharedType' /\ JobType(j)'
  <1>0. /\ stage[j] = "running" /\ Evaluating(j) /\ celLock # j
        /\ UNCHANGED <<eng, writer, coming, reloads>> /\ UNCHANGED <<cache, celLock, compiled>>
        /\ UNCHANGED <<now, seen, span>>
    BY DEF RunProgram, JobType, Evaluating, engine, cel, past
  <1>1. CASE Leave(j, ResultFromRule(Reading(j), eng.defaults))
    <2>1. rule[j] \in DOMAIN eng.rules
      BY <1>0 DEF JobType, CelStages
    <2>2. PICK r \in EvalResult : Leave(j, r)
      BY <1>1, <2>1, PolicyFacts DEF SharedType, Reading
    <2>3. /\ JobType(j)' /\ DOMAIN basis' = Jobs /\ readers' \subseteq Jobs
      BY <1>0, <2>2, LeaveType
    <2> QED
      BY <1>0, <2>2, <2>3 DEF SharedType, Leave, GoTo
  <1>2. CASE NoMatch(j)
    <2>1. JobType(j)'
      BY <1>0, <1>2, NoMatchType
    <2> QED
      BY <1>0, <1>2, <2>1 DEF SharedType, NoMatch, GoTo
  <1> QED
    BY <1>1, <1>2 DEF RunProgram

LEMMA JobStepTypes ==
    ASSUME TypeOK, NEW j \in Jobs, Step(j)
    PROVE  TypeOK'
  <1>1. SharedType /\ JobType(j)
    BY TypesApart
  <1>2. SharedType' /\ JobType(j)'
    BY <1>1, BeginType, PassWholeType, KeepEntryType, FinishType, EnterType, MatchType, LookType, LockCelType,
       CompileType, RunProgramType DEF Step
  <1>3. \A i \in Jobs : JobType(i)'
    BY <1>2, OthersKeepTypes
  <1>4. (SharedType /\ \A i \in Jobs : JobType(i))' => TypeOK'
    BY TypesApartNext
  <1> QED
    BY <1>2, <1>3, <1>4

LEMMA InitTypes == Init => TypeOK
  <1> SUFFICES ASSUME Init PROVE TypeOK
    OBVIOUS
  <1>1. SharedType
    <2>1. compiled \in [Expressions -> Nat] /\ now \in Nat
      <3> HIDE DEF Expressions
      <3> QED
        BY EvaluationAssumption DEF Init
    <2> QED
      BY <2>1, EvaluationAssumption DEF Init, SharedType
  <1>2. ASSUME NEW j \in Jobs PROVE JobType(j)
    <2>1. shown[j] \in Seq(Tools \cup {Nil}) /\ stage[j] = "idle" /\ rule[j] = 1 /\ at[j] = 1
      BY EmptySeq DEF Init
    <2>2. at[j] \in 1 .. Len(Work[j].tools) + 1
      BY <2>1, JobFacts
    <2>3. basis[j] \in [DOMAIN Work[j].tools -> Basis \cup {Nil}]
      BY DEF Init
    <2>4. celLock # j
      BY JobFacts DEF Init
    <2> QED
      BY <2>1, <2>2, <2>3, <2>4 DEF JobType, Evaluating, Stages, CelStages
  <1> QED
    BY <1>1, <1>2, TypesApart

\* A reload comes when nobody reads, and a minute ends at any time.
LEMMA ReloadTypes ==
    ASSUME TypeOK, AskLock \/ Reload
    PROVE  TypeOK'
  <1>1. SharedType /\ \A i \in Jobs : JobType(i)
    BY TypesApart
  <1>2. SharedType'
    <2>1. CASE AskLock
      BY <1>1, <2>1, EvaluationAssumption DEF AskLock, SharedType, cel, past
    <2>2. CASE Reload
      <3>1. seen' \in [Jobs -> SUBSET Policies]
        BY <1>1, <2>2 DEF Reload, SharedType
      <3> QED
        BY <1>1, <2>2, <3>1 DEF Reload, SharedType, cel
    <2> QED
      BY <2>1, <2>2
  <1>3. ASSUME NEW i \in Jobs PROVE JobType(i)'
    <2>1. /\ stage'[i] = stage[i] /\ rule'[i] = rule[i] /\ shown'[i] = shown[i]
          /\ basis'[i] = basis[i] /\ at'[i] = at[i] /\ celLock' = celLock /\ readers' = readers
      BY DEF AskLock, Reload, cel
    <2>2. CASE AskLock
      BY <1>1, <2>1, <2>2, IdleType DEF AskLock
    <2>3. CASE Reload
      <3>1. ~ Evaluating(i)
        BY <1>1, <2>3 DEF Reload, JobType
      <3> QED
        BY <1>1, <2>1, <3>1 DEF JobType, Evaluating, CelStages
    <2> QED
      BY <2>2, <2>3
  <1>4. (SharedType /\ \A i \in Jobs : JobType(i))' => TypeOK'
    BY TypesApartNext
  <1> QED
    BY <1>2, <1>3, <1>4

LEMMA TickTypes ==
    ASSUME TypeOK, Tick
    PROVE  TypeOK'
  <1>1. SharedType /\ \A i \in Jobs : JobType(i)
    BY TypesApart
  <1>2. now' \in Nat /\ Minute(now') \in Nat
    <2>1. now' \in Nat
      BY <1>1 DEF Tick, SharedType
    <2> QED
      BY <2>1, MinuteFacts
  <1>3. SharedType'
    <2>1. span' \in [Jobs -> SUBSET Nat]
      BY <1>1, <1>2 DEF Tick, SharedType
    <2> QED
      BY <1>1, <1>2, <2>1 DEF Tick, SharedType, engine, cel
  <1>4. ASSUME NEW i \in Jobs PROVE JobType(i)'
    <2>1. /\ stage'[i] = stage[i] /\ rule'[i] = rule[i] /\ shown'[i] = shown[i]
          /\ at'[i] = at[i] /\ celLock' = celLock /\ readers' = readers /\ eng' = eng
      BY DEF Tick, cel, engine
    <2>2. CASE ~ Evaluating(i)
      <3>1. basis'[i] = basis[i]
        BY <2>2 DEF Tick
      <3> QED
        BY <1>1, <2>1, <3>1, IdleType
    <2>3. CASE Evaluating(i)
      <3> DEFINE b == basis[i][at[i]]
                 d == [b EXCEPT !.span = @ \cup {Minute(now')}]
      <3>1. b \in Basis /\ at[i] \in DOMAIN Work[i].tools
        BY <1>1, <2>3, JobFacts DEF JobType
      <3>2. d \in Basis
        BY <1>2, <3>1 DEF Basis
      <3>3. basis'[i] = [basis[i] EXCEPT ![at[i]] = d]
        BY <2>3 DEF Tick
      <3> HIDE DEF d
      <3>4. basis'[i] \in [DOMAIN Work[i].tools -> Basis \cup {Nil}] /\ basis'[i][at'[i]] \in Basis
        BY <1>1, <2>1, <3>1, <3>2, <3>3 DEF JobType
      <3> QED
        BY <1>1, <2>1, <3>4 DEF JobType, Evaluating, Reading
    <2> QED
      BY <2>2, <2>3
  <1>5. (SharedType /\ \A i \in Jobs : JobType(i))' => TypeOK'
    BY TypesApartNext
  <1> QED
    BY <1>3, <1>4, <1>5

LEMMA StepTypes == TypeOK /\ [Next]_vars => TypeOK'
  <1> SUFFICES ASSUME TypeOK, [Next]_vars PROVE TypeOK'
    OBVIOUS
  <1>1. CASE UNCHANGED vars
    BY <1>1 DEF vars, engine, cel, past, TypeOK, Evaluating, Reading
  <1> QED
    BY <1>1, JobStepTypes, ReloadTypes, TickTypes DEF Next

-----------------------------------------------------------------------------
\* The first firing after a minute ago is not after now just when now is in a
\* minute the schedule names, or the schedule names none.
LEMMA LeastOf ==
    ASSUME NEW A \in SUBSET Nat, A # {}
    PROVE  \E x \in A : \A y \in A : x <= y
  <1> DEFINE Segments == {1 .. x : x \in A}
  <1>1. Segments \subseteq FiniteSubsetsOf(Nat) /\ Segments # {}
    <2>1. \A x \in A : IsFiniteSet(1 .. x) /\ 1 .. x \subseteq Nat
      BY FS_Interval
    <2> QED BY <2>1 DEF FiniteSubsetsOf
  <1>2. PICK s \in Segments : \A t \in Segments : ~ (<<t, s>> \in StrictSubsetOrdering(Nat))
    BY <1>1, FS_StrictSubsetOrderingWellFounded, WFMin
  <1>3. PICK x \in A : s = 1 .. x
    BY <1>2
  <1>4. ASSUME NEW y \in A, ~ (x <= y) PROVE FALSE
    <2>1. 1 .. y \subseteq 1 .. x /\ x \in 1 .. x /\ x \notin 1 .. y
      BY <1>4
    <2>2. 1 .. y \in SUBSET Nat /\ 1 .. x \in SUBSET Nat /\ 1 .. y # 1 .. x
      BY <2>1
    <2>3. <<1 .. y, 1 .. x>> \in StrictSubsetOrdering(Nat)
      BY <2>1, <2>2 DEF StrictSubsetOrdering
    <2> QED BY <1>2, <1>3, <2>3
  <1> QED BY <1>4

\* In every stretch of Period minutes a schedule fires.
Hits(a, p, n) == \E m \in a + 1 .. a + p : m % p = n
LEMMA FiresAgain ==
    ASSUME NEW a \in Nat, NEW p \in Nat \ {0}, NEW n \in 0 .. p - 1
    PROVE  Hits(a, p, n)
  <1>1. PICK q \in Nat, r \in 0 .. p - 1 : a = (q * p) + r
    <2>1. a \div p \in Nat /\ a % p \in 0 .. p - 1 /\ a = (p * (a \div p)) + (a % p)
      OBVIOUS
    <2>2. p * (a \div p) = (a \div p) * p
      BY <2>1
    <2> QED
      BY <2>1, <2>2
  <1>2. PICK x \in Nat : x = q * p
    OBVIOUS
  <1>3. (q + 1) * p = x + p
    BY <1>2
  <1>4. ASSUME NEW k \in Nat PROVE ((k * p) + n) % p = n
    <2>1. PICK y \in Nat : y = k * p
      OBVIOUS
    <2> DEFINE d == (y + n) \div p
               e == (y + n) % p
    <2>2. d \in Nat /\ e \in 0 .. p - 1 /\ y + n = (p * d) + e
      OBVIOUS
    <2> HIDE DEF d, e
    <2>3. p * (k - d) = e - n /\ k - d \in Int
      BY <2>1, <2>2
    <2>4. k - d = 0
      <3>1. k - d >= 1 => p * (k - d) >= p
        BY <2>3
      <3>2. k - d <= -1 => p * (k - d) <= -p
        BY <2>3
      <3> QED
        BY <2>2, <2>3, <3>1, <3>2
    <2>5. e = n
      BY <2>2, <2>3, <2>4
    <2> QED
      BY <2>1, <2>5 DEF e
  <1>5. CASE x + n > a
    <2>1. x + n \in a + 1 .. a + p /\ (x + n) % p = n
      BY <1>1, <1>2, <1>4, <1>5
    <2> QED
      BY <2>1 DEF Hits
  <1>6. CASE ~ (x + n > a)
    <2>1. x + p + n \in a + 1 .. a + p
      BY <1>1, <1>2, <1>6
    <2>2. (x + p + n) % p = n
      <3>1. (((q + 1) * p) + n) % p = n
        BY <1>4
      <3> QED
        BY <1>3, <3>1
    <2> QED
      BY <2>1, <2>2 DEF Hits
  <1> QED
    BY <1>5, <1>6

LEMMA WindowOfAMinute ==
    ASSUME NEW t \in Nat, PerMinute <= t, t <= MaxTime, NEW w \in Windows
    PROVE  NextFiring(w, t - PerMinute) <= t
             <=> Schedule[w] = {} \/ Minute(t) % Period \in Schedule[w]
  <1>1. PICK d \in Nat \ {0} : d = PerMinute
    BY EvaluationAssumption
  <1>2. PICK m \in Nat : m = Minute(t) /\ m * d <= t /\ t < m * d + d
    BY <1>1, MinuteFacts
  <1>3. PICK p \in Nat \ {0} : p = Period
    BY EvaluationAssumption
  <1>4. Schedule[w] \subseteq 0 .. p - 1
    BY <1>3, EvaluationAssumption
  <1>5. MaxTime \in Nat /\ Minute(MaxTime) \in Nat /\ m <= Minute(MaxTime)
    <2>1. MaxTime \in Nat
      BY EvaluationAssumption
    <2>2. PICK M \in Nat : M = Minute(MaxTime) /\ MaxTime < M * d + d
      BY <1>1, <2>1, MinuteFacts
    <2>3. ~ (M + 1 <= m)
      <3>1. M + 1 <= m => (M + 1) * d <= m * d
        BY <1>2, <2>2
      <3>2. (M + 1) * d = M * d + d /\ M * d \in Nat /\ m * d \in Nat
        BY <1>2, <2>2
      <3> QED
        BY <1>2, <2>1, <2>2, <3>1, <3>2
    <2> QED
      BY <2>1, <2>2, <2>3
  <1>6. CASE Schedule[w] = {}
    BY <1>6 DEF NextFiring
  <1>7. CASE Schedule[w] # {}
    <2> DEFINE After == {f \in Firings(w) : f > t - d}
    <2>1. Firings(w) \subseteq Nat
          /\ \A f \in Firings(w) : \E n \in Nat : f = n * d /\ n % p \in Schedule[w]
      BY <1>1, <1>3, <1>5 DEF Firings
    <2>2. After # {}
      <3>1. PICK s \in Schedule[w] : s \in 0 .. p - 1
        BY <1>4, <1>7
      <3>2. PICK n \in Minute(MaxTime) + 1 .. Minute(MaxTime) + p : n % p = s
        <4>1. Hits(Minute(MaxTime), p, s)
          BY <1>5, <3>1, FiresAgain
        <4> QED
          BY <4>1 DEF Hits
      <3>3. n \in 0 .. Minute(MaxTime) + Period
        BY <1>3, <1>5, <3>2
      <3>4. n * d \in Firings(w)
        BY <1>1, <1>3, <3>1, <3>2, <3>3 DEF Firings
      <3>5. n * d > t - d
        <4>1. n >= m + 1 /\ n \in Nat
          BY <1>5, <3>2
        <4>2. n * d >= (m + 1) * d /\ (m + 1) * d = m * d + d
          BY <4>1
        <4>3. n * d \in Nat /\ m * d \in Nat
          BY <4>1
        <4> QED
          BY <1>2, <4>2, <4>3
      <3> QED
        BY <3>4, <3>5
    <2>3. PICK f \in After : \A g \in After : f <= g
      <3>1. After \in SUBSET Nat
        BY <2>1
      <3> HIDE DEF After
      <3> QED
        BY <2>2, <3>1, LeastOf
    <2> DEFINE Next1 == CHOOSE h \in Firings(w) :
                            h > t - d /\ \A g \in Firings(w) : g > t - d => h <= g
    <2>4. Next1 \in Firings(w) /\ Next1 > t - d /\ \A g \in Firings(w) : g > t - d => Next1 <= g
      BY <2>3
    <2>5. NextFiring(w, t - PerMinute) = Next1
      BY <1>1, <1>7 DEF NextFiring
    <2> HIDE DEF Next1, After
    <2>6. ASSUME m % p \in Schedule[w] PROVE Next1 <= t
      <3>1. m \in 0 .. Minute(MaxTime) + Period
        BY <1>3, <1>5
      <3>2. m * d \in Firings(w)
        BY <1>1, <1>3, <2>6, <3>1 DEF Firings
      <3>3. m * d > t - d /\ m * d \in Nat
        BY <1>2
      <3>4. Next1 <= m * d /\ Next1 \in Nat
        BY <2>1, <2>4, <3>2, <3>3
      <3> QED
        BY <1>2, <3>3, <3>4
    <2>7. ASSUME Next1 <= t PROVE m % p \in Schedule[w]
      <3>1. PICK n \in Nat : Next1 = n * d /\ n % p \in Schedule[w]
        BY <2>1, <2>4
      <3>2. n = m
        <4>1. n >= m + 1 => n * d >= m * d + d
          <5>1. n >= m + 1 => n * d >= (m + 1) * d
            OBVIOUS
          <5>2. (m + 1) * d = m * d + d
            OBVIOUS
          <5> QED
            BY <5>1, <5>2
        <4>2. m >= n + 1 => m * d >= n * d + d
          <5>1. m >= n + 1 => m * d >= (n + 1) * d
            OBVIOUS
          <5>2. (n + 1) * d = n * d + d
            OBVIOUS
          <5> QED
            BY <5>1, <5>2
        <4>3. n * d \in Nat /\ m * d \in Nat
          OBVIOUS
        <4> QED
          BY <1>2, <2>4, <2>7, <3>1, <4>1, <4>2, <4>3
      <3> QED
        BY <3>1, <3>2
    <2> QED
      BY <1>2, <1>3, <1>7, <2>5, <2>6, <2>7
  <1> QED
    BY <1>6, <1>7

-----------------------------------------------------------------------------
\* A rule the loop has passed, one it takes, and the defaults after the last.
LEMMA VerdictsGrow ==
    ASSUME NEW ms, NEW ns, ms \subseteq ns, NEW e, NEW tool, NEW agent, NEW content
    PROVE  VerdictsIn(ms, e, tool, agent, content) \subseteq VerdictsIn(ns, e, tool, agent, content)
  <1>1. \A r : /\ MatchedIn(ms, r, tool, agent, content) => MatchedIn(ns, r, tool, agent, content)
               /\ FailedIn(ms, r, tool, agent, content) => FailedIn(ns, r, tool, agent, content)
    BY DEF MatchedIn, FailedIn
  <1> QED
    BY <1>1 DEF VerdictsIn

LEMMA RuleVerdict ==
    ASSUME NEW ms, NEW e, NEW tool, NEW agent, NEW content, NEW k \in DOMAIN e.rules,
           MatchedIn(ms, e.rules[k], tool, agent, content),
           \A l \in 1 .. k - 1 : FailedIn(ms, e.rules[l], tool, agent, content)
    PROVE  ResultFromRule(e.rules[k], e.defaults) \in VerdictsIn(ms, e, tool, agent, content)
  BY DEF VerdictsIn

LEMMA DefaultVerdict ==
    ASSUME NEW ms, NEW e, NEW tool, NEW agent, NEW content,
           \A k \in DOMAIN e.rules : FailedIn(ms, e.rules[k], tool, agent, content)
    PROVE  ResultFromDefaults(e.defaults) \in VerdictsIn(ms, e, tool, agent, content)
  BY DEF VerdictsIn

\* The clock is in its range; a busy job has seen the engine and the minute.
Clock == now \in PerMinute .. MaxTime
Present(j) == Busy(j) => eng \in seen[j] /\ Minute(now) \in span[j]

\* A verdict that was given, and that it was given while the job was at work.
Given(j, k) ==
    Work[j].tools[k] # Nil =>
        /\ basis[j][k] \in Basis
        /\ basis[j][k].eng \in seen[j] /\ basis[j][k].span \subseteq span[j]
        /\ basis[j][k].result \in VerdictsIn(basis[j][k].span, basis[j][k].eng, Work[j].tools[k],
                                             Work[j].agent, Work[j].content)
AllGiven(j) == \A k \in 1 .. at[j] - 1 : Given(j, k)

\* The loop over the rules: it is under the engine it entered with, and no
\* rule before the one it is at matched when it was read.  From the look into
\* the cache on, that one matches but for its expression.
Fails(j, r) == FailedIn(basis[j][at[j]].span, r, Entry(j), Work[j].agent, Work[j].content)
Judging(j) ==
    Evaluating(j) =>
        /\ Entry(j) # Nil
        /\ basis[j][at[j]].eng = eng /\ basis[j][at[j]].span \subseteq span[j]
        /\ Minute(now) \in basis[j][at[j]].span
        /\ rule[j] <= Len(eng.rules) + 1
        /\ \A l \in 1 .. rule[j] - 1 : Fails(j, eng.rules[l])
        /\ stage[j] \in CelStages =>
              \E m \in basis[j][at[j]].span :
                  /\ Work[j].agent \in Reading(j).agents /\ Entry(j) \in Reading(j).tools
                  /\ Reading(j).window = Nil \/ Reading(j).window \in OpenAt(m)

\* The list so far: what was kept of the entries, in their order.  A job is
\* at its first entry before it begins, and past its last when it is done; one
\* that does not parse shows then all it was given, and is at work never.
Kept(j, k) == Work[j].tools[k] = Nil \/ basis[j][k].result.decision # "deny"
Places(j, place) ==
    /\ place \in [1 .. Len(shown[j]) -> 1 .. at[j] - 1]
    /\ \A a, b \in 1 .. Len(shown[j]) : a < b => place[a] < place[b]
    /\ \A i \in 1 .. Len(shown[j]) : shown[j][i] = Work[j].tools[place[i]]
    /\ \A k \in 1 .. at[j] - 1 : Kept(j, k) <=> \E i \in 1 .. Len(shown[j]) : place[i] = k
Listing(j) == Work[j].list /\ Work[j].parses => \E place : Places(j, place)

Waiting(j) == /\ stage[j] = "idle" => at[j] = 1
              /\ Busy(j) => Work[j].parses
              /\ stage[j] = "done" => IF Work[j].parses THEN at[j] = Len(Work[j].tools) + 1
                                      ELSE shown[j] = Work[j].tools

JobInv(j) == Waiting(j) /\ Present(j) /\ AllGiven(j) /\ Judging(j) /\ Listing(j)
IInv == TypeOK /\ Clock /\ \A j \in Jobs : JobInv(j)

\* Fits tells, of the present minute, what MatchRule says of a rule's window.
LEMMA FitsNow ==
    ASSUME TypeOK, Clock, NEW j \in Jobs, rule[j] \in DOMAIN eng.rules
    PROVE  Fits(j) <=> /\ Work[j].agent \in Reading(j).agents /\ Entry(j) \in Reading(j).tools
                       /\ Reading(j).window = Nil \/ Reading(j).window \in OpenAt(Minute(now))
  <1>1. Reading(j).window \in Windows \cup {Nil}
    <2>1. eng.rules[rule[j]] \in Rule
      BY PolicyFacts DEF TypeOK
    <2> QED
      BY <2>1 DEF Reading, Rule
  <1>2. ASSUME NEW w \in Windows PROVE InWindow(w) <=> w \in OpenAt(Minute(now))
    <2>1. PICK t \in Nat : t = now /\ PerMinute <= t /\ t <= MaxTime
      BY EvaluationAssumption DEF Clock, TypeOK
    <2>2. NextFiring(w, t - PerMinute) <= t <=> Schedule[w] = {} \/ Minute(t) % Period \in Schedule[w]
      BY <2>1, WindowOfAMinute
    <2> QED
      BY <2>1, <2>2 DEF InWindow, OpenAt
  <1> QED
    BY <1>1, <1>2 DEF Fits

\* A job of which nothing changes, and one that only goes on.
LEMMA JobFrame ==
    ASSUME NEW i \in Jobs, JobInv(i), eng' = eng, now' = now,
           stage'[i] = stage[i], rule'[i] = rule[i], shown'[i] = shown[i],
           basis'[i] = basis[i], at'[i] = at[i], seen'[i] = seen[i], span'[i] = span[i]
    PROVE  JobInv(i)'
  <1>1. Waiting(i)' /\ Present(i)' /\ AllGiven(i)'
    BY DEF JobInv, Waiting, Present, Busy, AllGiven, Given
  <1>2. Judging(i)'
    BY DEF JobInv, Judging, Evaluating, Fails, Entry, Reading
  <1>3. Listing(i)'
    <2>1. ASSUME NEW place, Places(i, place) PROVE Places(i, place)'
      BY <2>1 DEF Places, Kept
    <2> QED
      BY <2>1 DEF JobInv, Listing
  <1> QED
    BY <1>1, <1>2, <1>3 DEF JobInv

LEMMA OthersKeepInv ==
    ASSUME IInv, NEW j \in Jobs, Step(j)
    PROVE  \A i \in Jobs \ {j} : JobInv(i)'
  <1>1. Alone(j) /\ eng' = eng /\ now' = now
    BY StepIsAlone DEF engine, IInv
  <1>2. ASSUME NEW i \in Jobs \ {j} PROVE seen'[i] = seen[i] /\ span'[i] = span[i]
    <2>1. CASE Begin(j)
      BY <2>1 DEF Begin, IInv, TypeOK
    <2>2. CASE ~ Begin(j)
      BY <2>2 DEF Step, PassWhole, KeepEntry, Finish, Enter, Match, Look, LockCel, Compile, RunProgram, past
    <2> QED
      BY <2>1, <2>2
  <1>3. ASSUME NEW i \in Jobs \ {j} PROVE JobInv(i)'
    BY <1>1, <1>2, JobFrame DEF Alone, IInv
  <1> QED
    BY <1>3

\* The list after one entry more.
LEMMA ListGrows ==
    ASSUME TypeOK, NEW j \in Jobs, Listing(j), NEW n, n = at[j], n <= Len(Work[j].tools),
           at'[j] = n + 1, \A k \in 1 .. n - 1 : basis'[j][k] = basis[j][k],
           Work[j].list => IF Kept(j, n)' THEN shown'[j] = Append(shown[j], Work[j].tools[n])
                                          ELSE shown'[j] = shown[j]
    PROVE  Listing(j)'
  <1> SUFFICES ASSUME Work[j].list, Work[j].parses PROVE \E place : Places(j, place)'
    BY DEF Listing
  <1>1. PICK place : Places(j, place)
    BY DEF Listing
  <1>2. PICK s : s = shown[j]
    OBVIOUS
  <1>3. PICK l \in Nat : l = Len(s)
    BY <1>2, LenProperties DEF TypeOK
  <1>4. n \in Nat \ {0}
    BY DEF TypeOK
  <1>5. \A k \in 1 .. n - 1 : Kept(j, k)' <=> Kept(j, k)
    BY DEF Kept
  <1>6. CASE ~ Kept(j, n)'
    <2>1. shown'[j] = s
      BY <1>2, <1>6
    <2>2. /\ place \in [1 .. l -> 1 .. n - 1]
          /\ \A a, b \in 1 .. l : a < b => place[a] < place[b]
          /\ \A i \in 1 .. l : s[i] = Work[j].tools[place[i]]
          /\ \A k \in 1 .. n - 1 : Kept(j, k) <=> \E i \in 1 .. l : place[i] = k
      BY <1>1, <1>2, <1>3 DEF Places
    <2>3. place \in [1 .. l -> 1 .. (n + 1) - 1]
      BY <1>4, <2>2
    <2>4. \A k \in 1 .. (n + 1) - 1 : Kept(j, k)' <=> \E i \in 1 .. l : place[i] = k
      <3> SUFFICES ASSUME NEW k \in 1 .. n PROVE Kept(j, k)' <=> \E i \in 1 .. l : place[i] = k
        BY <1>4
      <3>1. CASE k = n
        <4>1. \A i \in 1 .. l : place[i] # n
          BY <1>4, <2>2
        <4> QED
          BY <1>6, <3>1, <4>1
      <3>2. CASE k # n
        BY <1>4, <1>5, <2>2, <3>2
      <3> QED
        BY <3>1, <3>2
    <2>5. Places(j, place)'
      BY <1>3, <2>1, <2>2, <2>3, <2>4 DEF Places
    <2> QED
      BY <2>5
  <1>7. CASE Kept(j, n)'
    <2> DEFINE more == [i \in 1 .. l + 1 |-> IF i = l + 1 THEN n ELSE place[i]]
    <2>1. PICK t : t = shown'[j]
      OBVIOUS
    <2>2. Len(t) = l + 1 /\ t[l + 1] = Work[j].tools[n] /\ \A i \in 1 .. l : t[i] = s[i]
      <3>1. s \in Seq(Tools \cup {Nil}) /\ Work[j].tools[n] \in Tools \cup {Nil}
        BY <1>2, <1>4, JobFacts, ElementOfSeq DEF TypeOK
      <3>2. t = Append(s, Work[j].tools[n])
        BY <1>2, <1>7, <2>1
      <3> QED
        BY <1>3, <3>1, <3>2, AppendProperties
    <2>3. /\ place \in [1 .. l -> 1 .. n - 1]
          /\ \A a, b \in 1 .. l : a < b => place[a] < place[b]
          /\ \A i \in 1 .. l : s[i] = Work[j].tools[place[i]]
          /\ \A k \in 1 .. n - 1 : Kept(j, k) <=> \E i \in 1 .. l : place[i] = k
      BY <1>1, <1>2, <1>3 DEF Places
    <2>4. \A i \in 1 .. l : more[i] = place[i] /\ i # l + 1 /\ place[i] \in 1 .. n - 1
      BY <2>3
    <2>5. more[l + 1] = n /\ l + 1 \in 1 .. l + 1 /\ \A i \in 1 .. l + 1 : i \in 1 .. l \/ i = l + 1
      OBVIOUS
    <2>6. more \in [1 .. l + 1 -> 1 .. (n + 1) - 1]
      <3> HIDE DEF more
      <3>1. (n + 1) - 1 = n /\ n \in 1 .. n /\ \A x \in 1 .. n - 1 : x \in 1 .. n
        BY <1>4
      <3>2. \A i \in 1 .. l + 1 : more[i] \in 1 .. (n + 1) - 1
        BY <2>4, <2>5, <3>1
      <3> QED
        BY <3>2 DEF more
    <2> HIDE DEF more
    <2>7. \A a, b \in 1 .. l + 1 : a < b => more[a] < more[b]
      <3> SUFFICES ASSUME NEW a \in 1 .. l + 1, NEW b \in 1 .. l + 1, a < b PROVE more[a] < more[b]
        OBVIOUS
      <3>1. a \in 1 .. l
        OBVIOUS
      <3>2. CASE b = l + 1
        BY <1>4, <2>4, <2>5, <3>1, <3>2
      <3>3. CASE b \in 1 .. l
        BY <2>3, <2>4, <3>1, <3>3
      <3> QED
        BY <2>5, <3>2, <3>3
    <2>8. \A i \in 1 .. l + 1 : t[i] = Work[j].tools[more[i]]
      BY <2>2, <2>3, <2>4, <2>5
    <2>9. \A k \in 1 .. (n + 1) - 1 : Kept(j, k)' <=> \E i \in 1 .. l + 1 : more[i] = k
      <3> SUFFICES ASSUME NEW k \in 1 .. n PROVE Kept(j, k)' <=> \E i \in 1 .. l + 1 : more[i] = k
        BY <1>4
      <3>1. CASE k = n
        BY <1>7, <2>5, <3>1
      <3>2. CASE k # n
        <4>1. k \in 1 .. n - 1
          BY <1>4, <3>2
        <4>2. (\E i \in 1 .. l + 1 : more[i] = k) <=> \E i \in 1 .. l : place[i] = k
          BY <2>4, <2>5, <3>2
        <4> QED
          BY <1>5, <2>3, <4>1, <4>2
      <3> QED
        BY <3>1, <3>2
    <2>10. Places(j, more)'
      BY <2>1, <2>2, <2>6, <2>7, <2>8, <2>9 DEF Places
    <2> QED
      BY <2>10
  <1> QED
    BY <1>6, <1>7

\* What a step of the job itself leaves of its part of the invariant: the
\* verdicts given stay, and one joins them.
LEMMA PastStays ==
    ASSUME NEW j \in Jobs, AllGiven(j), Listing(j), at[j] \in Nat, at'[j] = at[j],
           \A k \in 1 .. at[j] - 1 : basis'[j][k] = basis[j][k],
           seen'[j] = seen[j], span'[j] = span[j], shown'[j] = shown[j]
    PROVE  AllGiven(j)' /\ Listing(j)'
  <1>1. PICK n \in Nat : n = at[j]
    OBVIOUS
  <1>2. ASSUME NEW k \in 1 .. n - 1 PROVE Given(j, k)' /\ (Kept(j, k)' <=> Kept(j, k))
    BY <1>1, <1>2 DEF AllGiven, Given, Kept
  <1>3. AllGiven(j)'
    BY <1>1, <1>2 DEF AllGiven
  <1>4. ASSUME NEW place, Places(j, place) PROVE Places(j, place)'
    <2>1. \A k \in 1 .. n - 1 : Kept(j, k)' <=> Kept(j, k)
      BY <1>2
    <2> QED
      BY <1>1, <1>4, <2>1 DEF Places
  <1>5. Listing(j)'
    BY <1>4 DEF Listing
  <1> QED
    BY <1>3, <1>5

LEMMA EntryJudged ==
    ASSUME NEW j \in Jobs, AllGiven(j), NEW n \in Nat \ {0}, at[j] = n, at'[j] = n + 1,
           \A k \in 1 .. n - 1 : basis'[j][k] = basis[j][k],
           seen'[j] = seen[j], span'[j] = span[j], Given(j, n)'
    PROVE  AllGiven(j)'
  <1>2. ASSUME NEW k \in 1 .. n - 1 PROVE Given(j, k)'
    BY <1>2 DEF AllGiven, Given
  <1>3. SUFFICES ASSUME NEW k \in 1 .. (n + 1) - 1 PROVE Given(j, k)'
    BY DEF AllGiven
  <1>4. CASE k = n
    BY <1>4
  <1>5. CASE k # n
    BY <1>2, <1>5
  <1> QED
    BY <1>4, <1>5

LEMMA BeginInv ==
    ASSUME IInv, NEW j \in Jobs, Begin(j)
    PROVE  JobInv(j)'
  <1>1. /\ stage[j] = "idle" /\ stage'[j] = "next" /\ seen'[j] = {eng}
        /\ span'[j] = {Minute(now)} /\ UNCHANGED <<at, rule, shown, basis>>
        /\ eng' = eng /\ now' = now /\ at[j] = 1 /\ Work[j].parses
    BY DEF Begin, GoTo, engine, IInv, TypeOK, JobInv, Waiting
  <1>2. Waiting(j)' /\ Present(j)' /\ AllGiven(j)' /\ Judging(j)'
    BY <1>1 DEF Waiting, Present, AllGiven, Judging, Evaluating
  <1>3. Listing(j)'
    <2>1. ASSUME NEW place, Places(j, place) PROVE Places(j, place)'
      BY <1>1, <2>1 DEF Places, Kept
    <2> QED
      BY <2>1 DEF IInv, JobInv, Listing
  <1> QED
    BY <1>2, <1>3 DEF JobInv

LEMMA PassWholeInv ==
    ASSUME IInv, NEW j \in Jobs, PassWhole(j)
    PROVE  JobInv(j)'
  <1>1. /\ stage'[j] = "done" /\ shown'[j] = Work[j].tools /\ ~ Work[j].parses
        /\ at'[j] = at[j] /\ at[j] = 1
    BY DEF PassWhole, GoTo, IInv, TypeOK, JobInv, Waiting
  <1> QED
    BY <1>1 DEF JobInv, Waiting, Present, Busy, AllGiven, Judging, Evaluating, Listing

LEMMA KeepEntryInv ==
    ASSUME IInv, NEW j \in Jobs, KeepEntry(j)
    PROVE  JobInv(j)'
  <1>0. PICK n \in Nat \ {0} : n = at[j]
    BY JobFacts DEF IInv, TypeOK
  <1>1. /\ stage[j] = "next" /\ stage'[j] = "next" /\ n <= Len(Work[j].tools)
        /\ Work[j].tools[n] = Nil /\ shown'[j] = Append(shown[j], Nil)
        /\ at'[j] = n + 1
        /\ UNCHANGED <<rule, basis, seen, span>> /\ eng' = eng /\ now' = now
    BY <1>0 DEF KeepEntry, Entry, engine, past, IInv, TypeOK
  <1>2. Waiting(j)' /\ Present(j)' /\ Judging(j)'
    BY <1>1 DEF Waiting, Present, Busy, Judging, Evaluating, IInv, JobInv
  <1>3. Given(j, n)' /\ Kept(j, n)'
    BY <1>1 DEF Given, Kept
  <1>4. AllGiven(j)'
    BY <1>0, <1>1, <1>3, EntryJudged DEF IInv, JobInv
  <1>5. Listing(j)'
    BY <1>0, <1>1, <1>3, ListGrows DEF IInv, JobInv
  <1> QED
    BY <1>2, <1>4, <1>5 DEF JobInv

LEMMA FinishInv ==
    ASSUME IInv, NEW j \in Jobs, Finish(j)
    PROVE  JobInv(j)'
  <1>1. /\ stage[j] = "next" /\ stage'[j] = "done"
        /\ UNCHANGED <<at, rule, shown, basis, seen, span>> /\ eng' = eng /\ now' = now
    BY DEF Finish, GoTo, engine, past, IInv, TypeOK
  <1>0. at[j] = Len(Work[j].tools) + 1
    BY JobFacts DEF Finish, IInv, TypeOK
  <1>4. Work[j].parses
    BY <1>1 DEF IInv, JobInv, Waiting, Busy
  <1>2. Waiting(j)' /\ Present(j)' /\ Judging(j)'
    BY <1>0, <1>1, <1>4 DEF Waiting, Present, Busy, Judging, Evaluating
  <1>3. AllGiven(j)' /\ Listing(j)'
    BY <1>1, PastStays DEF IInv, JobInv, TypeOK
  <1> QED
    BY <1>2, <1>3 DEF JobInv

LEMMA EnterInv ==
    ASSUME IInv, NEW j \in Jobs, Enter(j)
    PROVE  JobInv(j)'
  <1> DEFINE b == [eng |-> eng, span |-> {Minute(now)}, result |-> Nil]
  <1>1. /\ stage[j] = "next" /\ stage'[j] = "matching" /\ rule'[j] = 1
        /\ Work[j].tools[at[j]] # Nil /\ at[j] <= Len(Work[j].tools)
        /\ basis'[j] = [basis[j] EXCEPT ![at[j]] = b]
        /\ UNCHANGED <<at, shown, seen, span>> /\ eng' = eng /\ now' = now
    BY DEF Enter, Entry, GoTo, engine, past, IInv, TypeOK
  <1>2. at[j] \in DOMAIN Work[j].tools /\ at[j] \in Nat
    BY <1>1, JobFacts DEF IInv, TypeOK
  <1>3. /\ basis'[j][at[j]] = b
        /\ \A k \in 1 .. at[j] - 1 : basis'[j][k] = basis[j][k]
    <2>1. DOMAIN basis[j] = DOMAIN Work[j].tools
      BY DEF IInv, TypeOK
    <2> HIDE DEF b
    <2>2. basis'[j][at[j]] = b
      BY <1>1, <1>2, <2>1
    <2>3. ASSUME NEW k \in 1 .. at[j] - 1 PROVE basis'[j][k] = basis[j][k]
      <3>1. k # at[j] /\ k \in DOMAIN Work[j].tools
        BY <1>1, <1>2, JobFacts
      <3> QED
        BY <1>1, <2>1, <3>1
    <2> QED
      BY <2>2, <2>3
  <1>4. Waiting(j)' /\ Present(j)'
    BY <1>1 DEF Waiting, Present, Busy, IInv, JobInv
  <1>5. Judging(j)'
    <2>1. eng \in seen[j] /\ Minute(now) \in span[j]
      BY <1>1 DEF IInv, JobInv, Present, Busy
    <2>2. Len(eng.rules) \in Nat
      BY PolicyFacts DEF IInv, TypeOK
    <2>3. basis'[j][at'[j]] = b /\ Minute(now') = Minute(now)
      BY <1>1, <1>3
    <2>4. (rule[j] <= Len(eng.rules) + 1 /\ \A l \in 1 .. rule[j] - 1 : Fails(j, eng.rules[l]))'
      BY <1>1, <2>2
    <2> QED
      BY <1>1, <2>1, <2>3, <2>4 DEF Judging, Entry, CelStages
  <1>6. AllGiven(j)' /\ Listing(j)'
    BY <1>1, <1>2, <1>3, PastStays DEF IInv, JobInv
  <1> QED
    BY <1>4, <1>5, <1>6 DEF JobInv

\* Evaluate returns, passes a rule, or goes on with the one it is at.
LEMMA LeaveInv ==
    ASSUME IInv, NEW j \in Jobs, Evaluating(j), NEW r \in EvalResult, Leave(j, r),
           r \in VerdictsIn(basis[j][at[j]].span, eng, Entry(j), Work[j].agent, Work[j].content),
           eng' = eng, now' = now, past' = past
    PROVE  JobInv(j)'
  <1>1. PICK n \in Nat \ {0} : n = at[j]
    BY JobFacts DEF IInv, TypeOK
  <1>2. /\ n <= Len(Work[j].tools) /\ n \in DOMAIN Work[j].tools /\ basis[j][n] \in Basis
        /\ DOMAIN basis[j] = DOMAIN Work[j].tools
    BY <1>1, JobFacts DEF IInv, TypeOK
  <1>3. /\ Work[j].tools[n] # Nil /\ basis[j][n].eng = eng /\ basis[j][n].span \subseteq span[j]
        /\ eng \in seen[j]
    BY <1>1 DEF IInv, JobInv, Judging, Present, Busy, Evaluating, Entry
  <1>4. /\ stage'[j] = "next" /\ at'[j] = n + 1
        /\ basis'[j] = [basis[j] EXCEPT ![n] = [basis[j][n] EXCEPT !.result = r]]
        /\ UNCHANGED <<rule, seen, span>>
        /\ Work[j].list => shown'[j] = IF Keeps(r) THEN Append(shown[j], Work[j].tools[n])
                                                   ELSE shown[j]
    BY <1>1 DEF Leave, GoTo, Entry, past, IInv, TypeOK
  <1> DEFINE b == [basis[j][n] EXCEPT !.result = r]
  <1>5. b \in Basis /\ b.eng = eng /\ b.span = basis[j][n].span /\ b.result = r
    BY <1>2, <1>3 DEF Basis
  <1>6. basis'[j][n] = b /\ \A k \in 1 .. n - 1 : basis'[j][k] = basis[j][k]
    <2> HIDE DEF b
    <2>1. \A k \in 1 .. n - 1 : k # n /\ k \in DOMAIN Work[j].tools
      BY <1>2, JobFacts
    <2> QED
      BY <1>2, <1>4, <2>1 DEF b
  <1> HIDE DEF b
  <1>7. Waiting(j)' /\ Present(j)' /\ Judging(j)'
    <2>1. Minute(now) \in span[j] /\ Work[j].parses
      BY DEF IInv, JobInv, Present, Waiting, Busy, Evaluating
    <2> QED
      BY <1>3, <1>4, <2>1 DEF Waiting, Present, Judging, Evaluating
  <1>8. Given(j, n)'
    <2>1. r \in VerdictsIn(b.span, eng, Work[j].tools[n], Work[j].agent, Work[j].content)
      BY <1>1, <1>5 DEF Entry
    <2> QED
      BY <1>3, <1>4, <1>5, <1>6, <2>1 DEF Given
  <1>9. AllGiven(j)'
    BY <1>1, <1>4, <1>6, <1>8, EntryJudged DEF IInv, JobInv
  <1>10. Listing(j)'
    <2>1. Kept(j, n)' <=> Keeps(r)
      BY <1>3, <1>5, <1>6 DEF Kept, Keeps
    <2> QED
      BY <1>1, <1>2, <1>4, <1>6, <2>1, ListGrows DEF IInv, JobInv
  <1> QED
    BY <1>7, <1>9, <1>10 DEF JobInv

LEMMA NoMatchInv ==
    ASSUME IInv, NEW j \in Jobs, Evaluating(j), rule[j] \in DOMAIN eng.rules,
           Fails(j, eng.rules[rule[j]]), NoMatch(j), eng' = eng, now' = now, past' = past
    PROVE  JobInv(j)'
  <1>1. /\ stage'[j] = "matching" /\ rule'[j] = rule[j] + 1
        /\ UNCHANGED <<basis, shown, at, seen, span>> /\ rule[j] \in Nat \ {0}
    BY DEF NoMatch, GoTo, past, IInv, TypeOK
  <1>2. Waiting(j)' /\ Present(j)'
    BY <1>1 DEF Waiting, Present, Busy, Evaluating, IInv, JobInv
  <1>3. Judging(j)'
    <2>1. PICK n \in Nat \ {0} : n = rule[j]
      BY <1>1
    <2>2. /\ Work[j].tools[at[j]] # Nil /\ basis[j][at[j]].eng = eng
          /\ basis[j][at[j]].span \subseteq span[j] /\ Minute(now) \in basis[j][at[j]].span
          /\ \A l \in 1 .. n - 1 : Fails(j, eng.rules[l])
      BY <2>1 DEF IInv, JobInv, Judging, Entry
    <2>3. \A l \in 1 .. (n + 1) - 1 : Fails(j, eng.rules[l])
      <3>1. \A l \in 1 .. (n + 1) - 1 : l \in 1 .. n - 1 \/ l = n
        OBVIOUS
      <3> QED
        BY <2>1, <2>2, <3>1
    <2>4. \A l \in 1 .. (n + 1) - 1 : Fails(j, eng.rules[l])'
      BY <1>1, <2>3 DEF Fails, Entry
    <2>5. n + 1 <= Len(eng.rules) + 1
      BY <2>1, PolicyFacts DEF IInv, TypeOK
    <2> QED
      BY <1>1, <2>1, <2>2, <2>4, <2>5 DEF Judging, Entry, CelStages
  <1>4. AllGiven(j)' /\ Listing(j)'
    BY <1>1, PastStays DEF IInv, JobInv, TypeOK
  <1> QED
    BY <1>2, <1>3, <1>4 DEF JobInv

LEMMA GoOnInv ==
    ASSUME IInv, NEW j \in Jobs, Evaluating(j), NEW s \in CelStages, GoTo(j, s),
           \E m \in basis[j][at[j]].span :
               /\ Work[j].agent \in Reading(j).agents /\ Entry(j) \in Reading(j).tools
               /\ Reading(j).window = Nil \/ Reading(j).window \in OpenAt(m),
           eng' = eng, now' = now, past' = past, UNCHANGED <<basis, shown, at, rule>>
    PROVE  JobInv(j)'
  <1>1. stage'[j] = s /\ UNCHANGED <<seen, span>>
    BY DEF GoTo, past, IInv, TypeOK
  <1>2. Waiting(j)' /\ Present(j)'
    BY <1>1 DEF Waiting, Present, Busy, Evaluating, CelStages, IInv, JobInv
  <1>3. Judging(j)'
    BY <1>1 DEF IInv, JobInv, Judging, Entry, Reading, Fails
  <1>4. AllGiven(j)' /\ Listing(j)'
    BY <1>1, PastStays DEF IInv, JobInv, TypeOK
  <1> QED
    BY <1>2, <1>3, <1>4 DEF JobInv

\* What the loop has found out: that the rule does not match, or that it does.
LEMMA WouldFail ==
    ASSUME IInv, NEW j \in Jobs, Evaluating(j), rule[j] \in DOMAIN eng.rules,
           ~ Fits(j) \/ Work[j].content \notin Reading(j).cel
    PROVE  Fails(j, eng.rules[rule[j]])
  <1>1. Minute(now) \in basis[j][at[j]].span
    BY DEF IInv, JobInv, Judging
  <1>2. ~ MatchRule(Reading(j), OpenAt(Minute(now)), Entry(j), Work[j].agent, Work[j].content)
    BY FitsNow DEF MatchRule, IInv
  <1> QED
    BY <1>1, <1>2 DEF Fails, FailedIn, Reading

LEMMA WouldMatch ==
    ASSUME IInv, NEW j \in Jobs, Evaluating(j), rule[j] \in DOMAIN eng.rules,
           Fits(j) \/ stage[j] \in CelStages, Work[j].content \in Reading(j).cel
    PROVE  ResultFromRule(Reading(j), eng.defaults)
             \in VerdictsIn(basis[j][at[j]].span, eng, Entry(j), Work[j].agent, Work[j].content)
  <1>1. \E m \in basis[j][at[j]].span :
            /\ Work[j].agent \in Reading(j).agents /\ Entry(j) \in Reading(j).tools
            /\ Reading(j).window = Nil \/ Reading(j).window \in OpenAt(m)
    <2>1. CASE Fits(j)
      BY <2>1, FitsNow DEF IInv, JobInv, Judging
    <2>2. CASE stage[j] \in CelStages
      BY <2>2 DEF IInv, JobInv, Judging
    <2> QED
      BY <2>1, <2>2
  <1>2. MatchedIn(basis[j][at[j]].span, eng.rules[rule[j]], Entry(j), Work[j].agent,
                  Work[j].content)
    BY <1>1 DEF MatchedIn, MatchRule, Reading
  <1>3. \A l \in 1 .. rule[j] - 1 :
            FailedIn(basis[j][at[j]].span, eng.rules[l], Entry(j), Work[j].agent, Work[j].content)
    BY DEF IInv, JobInv, Judging, Fails
  <1> QED
    BY <1>2, <1>3, RuleVerdict DEF Reading

LEMMA MatchInv ==
    ASSUME IInv, NEW j \in Jobs, Match(j)
    PROVE  JobInv(j)'
  <1>1. Evaluating(j) /\ eng' = eng /\ now' = now /\ past' = past
    BY DEF Match, Evaluating, engine
  <1>2. CASE rule[j] > Len(eng.rules)
    <2>1. \A k \in DOMAIN eng.rules : Fails(j, eng.rules[k])
      <3>1. DOMAIN eng.rules = 1 .. Len(eng.rules) /\ rule[j] \in Nat /\ Len(eng.rules) \in Nat
        BY PolicyFacts DEF IInv, TypeOK
      <3>2. DOMAIN eng.rules \subseteq 1 .. rule[j] - 1
        BY <1>2, <3>1
      <3> QED
        BY <1>1, <3>2 DEF IInv, JobInv, Judging
    <2>2. PICK r : r = ResultFromDefaults(eng.defaults)
      OBVIOUS
    <2>3. r \in EvalResult
      BY <2>2, PolicyFacts DEF IInv, TypeOK
    <2>4. r \in VerdictsIn(basis[j][at[j]].span, eng, Entry(j), Work[j].agent, Work[j].content)
      BY <2>1, <2>2, DefaultVerdict DEF Fails
    <2>5. Leave(j, r)
      BY <1>2, <2>2 DEF Match
    <2> QED
      BY <1>1, <2>3, <2>4, <2>5, LeaveInv
  <1>3. CASE ~ (rule[j] > Len(eng.rules))
    <2>0. rule[j] \in DOMAIN eng.rules /\ Reading(j) \in Rule
      <3>1. rule[j] \in DOMAIN eng.rules
        BY <1>3, PolicyFacts DEF IInv, TypeOK
      <3> QED
        BY <3>1, PolicyFacts DEF Reading, IInv, TypeOK
    <2>1. CASE ~ Fits(j) /\ NoMatch(j)
      BY <1>1, <2>0, <2>1, WouldFail, NoMatchInv
    <2>2. CASE Fits(j) /\ Reading(j).cel = Content
               /\ Leave(j, ResultFromRule(Reading(j), eng.defaults))
      <3>1. PICK r : r = ResultFromRule(Reading(j), eng.defaults)
        OBVIOUS
      <3>2. r \in EvalResult
        BY <2>0, <3>1, PolicyFacts DEF IInv, TypeOK, Reading
      <3>3. r \in VerdictsIn(basis[j][at[j]].span, eng, Entry(j), Work[j].agent, Work[j].content)
        BY <1>1, <2>0, <2>2, <3>1, JobFacts, WouldMatch
      <3> QED
        BY <1>1, <2>2, <3>1, <3>2, <3>3, LeaveInv
    <2>3. CASE Fits(j) /\ GoTo(j, "looking") /\ UNCHANGED <<readers, basis, shown, at, rule>>
      <3>1. \E m \in basis[j][at[j]].span :
               /\ Work[j].agent \in Reading(j).agents /\ Entry(j) \in Reading(j).tools
               /\ Reading(j).window = Nil \/ Reading(j).window \in OpenAt(m)
        BY <1>1, <2>0, <2>3, FitsNow DEF IInv, JobInv, Judging
      <3> QED
        BY <1>1, <2>3, <3>1, GoOnInv DEF CelStages
    <2> QED
      BY <1>3, <2>1, <2>2, <2>3 DEF Match
  <1> QED
    BY <1>2, <1>3

\* From the look into the cache on.
LEMMA InCel ==
    ASSUME IInv, NEW j \in Jobs, stage[j] \in CelStages
    PROVE  /\ Evaluating(j) /\ rule[j] \in DOMAIN eng.rules
           /\ \E m \in basis[j][at[j]].span :
               /\ Work[j].agent \in Reading(j).agents /\ Entry(j) \in Reading(j).tools
               /\ Reading(j).window = Nil \/ Reading(j).window \in OpenAt(m)
  <1>1. Evaluating(j)
    BY DEF Evaluating, CelStages
  <1>2. rule[j] \in DOMAIN eng.rules
    BY DEF IInv, TypeOK, CelStages
  <1> QED
    BY <1>1, <1>2 DEF IInv, JobInv, Judging

LEMMA CacheInv ==
    ASSUME IInv, NEW j \in Jobs, Look(j) \/ LockCel(j) \/ Compile(j)
    PROVE  JobInv(j)'
  <1>1. eng' = eng /\ now' = now /\ past' = past
    BY DEF Look, LockCel, Compile, engine
  <1>2. stage[j] \in CelStages
    BY DEF Look, LockCel, Compile, CelStages
  <1>3. CASE NoMatch(j) /\ Reading(j).cel \in Broken
    <2>1. Work[j].content \notin Reading(j).cel
      BY <1>3, EvaluationAssumption
    <2> QED
      BY <1>1, <1>2, <1>3, <2>1, InCel, WouldFail, NoMatchInv
  <1>4. CASE \E s \in CelStages : GoTo(j, s) /\ UNCHANGED <<basis, shown, at, rule>>
    BY <1>1, <1>2, <1>4, InCel, GoOnInv
  <1>5. \/ NoMatch(j) /\ Reading(j).cel \in Broken
        \/ \E s \in CelStages : GoTo(j, s) /\ UNCHANGED <<basis, shown, at, rule>>
    BY DEF Look, LockCel, Compile, CelStages
  <1> QED
    BY <1>3, <1>4, <1>5

LEMMA RunProgramInv ==
    ASSUME IInv, NEW j \in Jobs, RunProgram(j)
    PROVE  JobInv(j)'
  <1>1. eng' = eng /\ now' = now /\ past' = past /\ stage[j] \in CelStages
    BY DEF RunProgram, engine, CelStages
  <1>2. Evaluating(j) /\ rule[j] \in DOMAIN eng.rules
    BY <1>1, InCel
  <1>3. CASE Work[j].content \in Reading(j).cel
    <2>1. PICK r : r = ResultFromRule(Reading(j), eng.defaults)
      OBVIOUS
    <2>2. r \in EvalResult
      BY <1>2, <2>1, PolicyFacts DEF IInv, TypeOK, Reading
    <2>3. r \in VerdictsIn(basis[j][at[j]].span, eng, Entry(j), Work[j].agent, Work[j].content)
      BY <1>1, <1>2, <1>3, <2>1, WouldMatch
    <2>4. Leave(j, r)
      BY <1>3, <2>1 DEF RunProgram
    <2> QED
      BY <1>1, <1>2, <2>2, <2>3, <2>4, LeaveInv
  <1>4. CASE Work[j].content \notin Reading(j).cel
    <2>1. NoMatch(j)
      BY <1>4 DEF RunProgram
    <2> QED
      BY <1>1, <1>2, <1>4, <2>1, WouldFail, NoMatchInv
  <1> QED
    BY <1>3, <1>4

LEMMA JobStepInv ==
    ASSUME IInv, NEW j \in Jobs, Step(j)
    PROVE  \A i \in Jobs : JobInv(i)'
  <1>1. JobInv(j)'
    BY BeginInv, PassWholeInv, KeepEntryInv, FinishInv, EnterInv, MatchInv, CacheInv, RunProgramInv DEF Step
  <1> QED
    BY <1>1, OthersKeepInv

-----------------------------------------------------------------------------
LEMMA ReloadInv ==
    ASSUME IInv, AskLock \/ Reload
    PROVE  \A i \in Jobs : JobInv(i)'
  <1> SUFFICES ASSUME NEW i \in Jobs PROVE JobInv(i)'
    OBVIOUS
  <1>1. /\ UNCHANGED <<now, stage, at, rule, shown, span, basis>>
        /\ seen[i] \subseteq seen'[i]
    <2>1. CASE AskLock
      BY <2>1 DEF AskLock, past
    <2>2. CASE Reload
      BY <2>2 DEF Reload
    <2> QED
      BY <2>1, <2>2
  <1>2. Waiting(i)' /\ Listing(i)'
    <2>1. ASSUME NEW place, Places(i, place) PROVE Places(i, place)'
      BY <1>1, <2>1 DEF Places, Kept
    <2> QED
      BY <1>1, <2>1 DEF IInv, JobInv, Waiting, Busy, Listing
  <1>3. AllGiven(i)'
    <2>1. \A k \in 1 .. at[i] - 1 : Given(i, k)'
      BY <1>1 DEF IInv, JobInv, AllGiven, Given
    <2> QED
      BY <1>1, <2>1 DEF AllGiven
  <1>4. Present(i)' /\ Judging(i)'
    <2>1. CASE AskLock
      BY <1>1, <2>1 DEF AskLock, past, IInv, JobInv, Present, Busy, Judging, Evaluating, Fails,
         Entry, Reading
    <2>2. CASE Reload
      <3>1. ~ Evaluating(i)
        BY <2>2 DEF Reload, IInv, TypeOK
      <3>2. Present(i)'
        BY <1>1, <2>2 DEF Reload, IInv, JobInv, Present, Busy
      <3> QED
        BY <1>1, <3>1, <3>2 DEF Judging, Evaluating
    <2> QED
      BY <2>1, <2>2
  <1> QED
    BY <1>2, <1>3, <1>4 DEF JobInv

LEMMA TickInv ==
    ASSUME IInv, Tick
    PROVE  Clock' /\ \A i \in Jobs : JobInv(i)'
  <1>1. Clock'
    <2>1. PerMinute \in Nat /\ MaxTime \in Nat
      BY EvaluationAssumption
    <2> QED
      BY <2>1 DEF IInv, Clock, Tick
  <1> SUFFICES ASSUME NEW i \in Jobs PROVE JobInv(i)'
    BY <1>1
  <1>2. /\ UNCHANGED <<stage, at, rule, shown, seen>> /\ eng' = eng
        /\ span'[i] = IF Busy(i) THEN span[i] \cup {Minute(now')} ELSE span[i]
    BY DEF Tick, engine
  <1>3. PICK n \in Nat : n = at[i]
    BY DEF IInv, TypeOK
  <1>4. \A k \in 1 .. n - 1 : basis'[i][k] = basis[i][k]
    <2>1. CASE Evaluating(i)
      <3>1. basis'[i] = [basis[i] EXCEPT ![n].span = @ \cup {Minute(now')}]
        BY <1>3, <2>1 DEF Tick
      <3>2. DOMAIN basis[i] = 1 .. Len(Work[i].tools) /\ n <= Len(Work[i].tools)
            /\ Len(Work[i].tools) \in Nat
        BY <1>3, <2>1, JobFacts DEF IInv, TypeOK
      <3> QED
        BY <3>1, <3>2
    <2>2. CASE ~ Evaluating(i)
      BY <2>2 DEF Tick
    <2> QED
      BY <2>1, <2>2
  <1>5. Waiting(i)' /\ Present(i)'
    BY <1>2 DEF IInv, JobInv, Waiting, Present, Busy
  <1>6. AllGiven(i)'
    <2>1. \A k \in 1 .. n - 1 : Given(i, k)'
      BY <1>2, <1>3, <1>4 DEF IInv, JobInv, AllGiven, Given
    <2> QED
      BY <1>2, <1>3, <2>1 DEF AllGiven
  <1>7. Listing(i)'
    <2>1. ASSUME NEW place, Places(i, place) PROVE Places(i, place)'
      <3>1. \A k \in 1 .. n - 1 : Kept(i, k)' <=> Kept(i, k)
        BY <1>4 DEF Kept
      <3> QED
        BY <1>2, <1>3, <2>1, <3>1 DEF Places
    <2> QED
      BY <2>1 DEF IInv, JobInv, Listing
  <1>8. Judging(i)'
    <2>1. CASE ~ Evaluating(i)
      BY <1>2, <2>1 DEF Judging, Evaluating
    <2>2. CASE Evaluating(i)
      <3> DEFINE b == basis[i][n]
                 d == [b EXCEPT !.span = @ \cup {Minute(now')}]
      <3>1. b \in Basis /\ n \in DOMAIN basis[i]
        <4>1. b \in Basis
          BY <1>3, <2>2 DEF IInv, TypeOK
        <4>2. n \in 1 .. Len(Work[i].tools)
          BY <1>3, <2>2, JobFacts DEF IInv, TypeOK
        <4>3. DOMAIN basis[i] = 1 .. Len(Work[i].tools)
          BY JobFacts DEF IInv, TypeOK
        <4> QED
          BY <4>1, <4>2, <4>3
      <3>2. d.eng = b.eng /\ d.span = b.span \cup {Minute(now')}
        BY <3>1 DEF Basis
      <3>3. basis'[i][n] = d
        BY <1>3, <2>2, <3>1 DEF Tick
      <3> HIDE DEF b, d
      <3>4. ASSUME NEW r, Fails(i, r) PROVE Fails(i, r)'
        BY <1>2, <1>3, <3>2, <3>3, <3>4 DEF Fails, FailedIn, Entry, b
      <3>5. Busy(i) /\ Judging(i)
        BY <2>2 DEF Busy, Evaluating, IInv, JobInv
      <3>6. /\ Entry(i) # Nil /\ b.eng = eng /\ b.span \subseteq span[i]
            /\ rule[i] <= Len(eng.rules) + 1 /\ \A l \in 1 .. rule[i] - 1 : Fails(i, eng.rules[l])
            /\ stage[i] \in CelStages =>
                  \E m \in b.span :
                      /\ Work[i].agent \in Reading(i).agents /\ Entry(i) \in Reading(i).tools
                      /\ Reading(i).window = Nil \/ Reading(i).window \in OpenAt(m)
        BY <1>3, <2>2, <3>5 DEF Judging, b
      <3>7. \A l \in 1 .. rule[i] - 1 : Fails(i, eng.rules[l])'
        BY <1>2, <3>4, <3>6
      <3>8. d.span \subseteq span'[i] /\ Minute(now') \in d.span
        BY <1>2, <3>2, <3>5, <3>6
      <3>9. Entry(i)' = Entry(i) /\ Reading(i)' = Reading(i) /\ basis'[i][at'[i]] = d
        BY <1>2, <1>3, <3>3 DEF Entry, Reading
      <3> QED
        BY <1>2, <3>2, <3>6, <3>7, <3>8, <3>9 DEF Judging
    <2> QED
      BY <2>1, <2>2
  <1> QED
    BY <1>5, <1>6, <1>7, <1>8 DEF JobInv

LEMMA InitInv == Init => IInv
  <1> SUFFICES ASSUME Init PROVE IInv
    OBVIOUS
  <1>1. TypeOK /\ Clock
    BY InitTypes DEF Init, Clock
  <1>2. ASSUME NEW j \in Jobs PROVE JobInv(j)
    <2>1. stage[j] = "idle" /\ at[j] = 1 /\ shown[j] = <<>>
      BY DEF Init
    <2>2. Waiting(j) /\ Present(j) /\ AllGiven(j) /\ Judging(j)
      BY <2>1 DEF Waiting, Present, Busy, AllGiven, Judging, Evaluating
    <2>3. Places(j, <<>>)
      BY <2>1 DEF Places
    <2> QED
      BY <2>2, <2>3 DEF JobInv, Listing
  <1> QED
    BY <1>1, <1>2 DEF IInv

LEMMA StepInv == IInv /\ [Next]_vars => IInv'
  <1> SUFFICES ASSUME IInv, [Next]_vars PROVE IInv'
    OBVIOUS
  <1>1. TypeOK'
    BY StepTypes DEF IInv
  <1>2. CASE UNCHANGED vars
    <2>1. Clock'
      BY <1>2 DEF vars, IInv, Clock
    <2>2. \A j \in Jobs : JobInv(j)'
      BY <1>2, JobFrame DEF vars, engine, past, IInv
    <2> QED
      BY <1>1, <2>1, <2>2 DEF IInv
  <1>3. CASE \E j \in Jobs : Step(j)
    <2>1. Clock'
      BY <1>3, StepIsAlone DEF IInv, Clock
    <2> QED
      BY <1>1, <1>3, <2>1, JobStepInv DEF IInv
  <1>4. CASE AskLock \/ Reload
    <2>1. Clock'
      BY <1>4 DEF AskLock, Reload, IInv, Clock
    <2> QED
      BY <1>1, <1>4, <2>1, ReloadInv DEF IInv
  <1>5. CASE Tick
    BY <1>1, <1>5, TickInv DEF IInv
  <1> QED
    BY <1>2, <1>3, <1>4, <1>5 DEF Next

LEMMA AlwaysIInv == Spec => []IInv
  <1> QED
    BY InitInv, StepInv, PTL DEF Spec

-----------------------------------------------------------------------------
\* The types of the jobs, the locks, the cache and the history are kept: in
\* particular a job that evaluates holds the read lock, the one that compiles
\* holds the cache's, and the rule the loop is at stays one of the engine's,
\* through reloads (Engine.Evaluate, getOrCompile).
THEOREM EvaluationTyping == Spec => []TypeOK
  <1> QED
    BY InitTypes, StepTypes, PTL DEF Spec

\* Evaluate is one step to the rest of the program: each verdict is what one
\* policy, in force when Evaluate entered, says in the minutes it took
\* (Engine.Evaluate, isInTimeWindow).
THEOREM EvaluateIsOneStep == Spec => []VerdictIsAPolicys
  <1>1. IInv => VerdictIsAPolicys
    <2> SUFFICES ASSUME IInv, NEW j \in Jobs, NEW k \in 1 .. at[j] - 1, Work[j].tools[k] # Nil
                 PROVE  basis[j][k].result \in VerdictsIn(basis[j][k].span, basis[j][k].eng,
                                        Work[j].tools[k], Work[j].agent, Work[j].content)
      BY DEF VerdictIsAPolicys
    <2> QED
      BY DEF IInv, JobInv, AllGiven, Given
  <1> QED
    BY <1>1, AlwaysIInv, PTL

\* A tools/list answer that parses keeps its order when it is filtered, and
\* shows a tool just when a policy in force since the filter began does not
\* deny it; one that does not parse is shown whole, whatever the policy denies
\* (FilterToolsList).
THEOREM ListsAreTrue == Spec => []ListIsTrue
  <1>1. IInv => ListIsTrue
    <2> SUFFICES ASSUME IInv, NEW j \in Jobs, Work[j].list, stage[j] = "done"
                 PROVE  IF Work[j].parses THEN IsFiltered(j) ELSE shown[j] = Work[j].tools
      BY DEF ListIsTrue
    <2> SUFFICES ASSUME Work[j].parses
                 PROVE  \E place \in [DOMAIN shown[j] -> DOMAIN Work[j].tools] :
            /\ \A a, b \in DOMAIN place : a < b => place[a] < place[b]
            /\ \A i \in DOMAIN place : shown[j][i] = Work[j].tools[place[i]]
            /\ \A k \in DOMAIN Work[j].tools :
                  LET kept == \E i \in DOMAIN place : place[i] = k
                  IN IF Work[j].tools[k] = Nil THEN kept
                     ELSE CouldBe(j, Work[j].tools[k], kept)
      BY DEF IsFiltered, IInv, JobInv, Waiting
    <2>1. PICK place : Places(j, place)
      BY DEF IInv, JobInv, Listing
    <2>2. 1 .. at[j] - 1 = DOMAIN Work[j].tools
      <3>1. at[j] = Len(Work[j].tools) + 1
        BY DEF IInv, JobInv, Waiting
      <3> QED
        BY <3>1, JobFacts
    <2>3. DOMAIN shown[j] = 1 .. Len(shown[j])
      <3>1. shown[j] \in Seq(Tools \cup {Nil})
        BY DEF IInv, TypeOK
      <3> QED
        BY <3>1, LenProperties
    <2>4. place \in [DOMAIN shown[j] -> DOMAIN Work[j].tools] /\ DOMAIN place = DOMAIN shown[j]
      BY <2>1, <2>2, <2>3 DEF Places
    <2>5. /\ \A a, b \in DOMAIN place : a < b => place[a] < place[b]
          /\ \A i \in DOMAIN place : shown[j][i] = Work[j].tools[place[i]]
      BY <2>1, <2>3, <2>4 DEF Places
    <2> DEFINE kept(k) == \E i \in DOMAIN place : place[i] = k
    <2>6. ASSUME NEW k \in DOMAIN Work[j].tools
          PROVE  IF Work[j].tools[k] = Nil THEN kept(k) ELSE CouldBe(j, Work[j].tools[k], kept(k))
      <3>1. Kept(j, k) <=> kept(k)
        BY <2>1, <2>2, <2>3, <2>4 DEF Places
      <3>0. kept(k) \in BOOLEAN
        OBVIOUS
      <3> HIDE DEF kept
      <3>2. CASE Work[j].tools[k] = Nil
        BY <3>1, <3>2 DEF Kept
      <3>3. CASE Work[j].tools[k] # Nil
        <4>1. Given(j, k)
          BY <2>2 DEF IInv, JobInv, AllGiven
        <4>2. PICK r : r = basis[j][k].result
          OBVIOUS
        <4>3. PICK e : e = basis[j][k].eng
          OBVIOUS
        <4>4. e \in seen[j] /\ r \in VerdictsIn(span[j], e, Work[j].tools[k], Work[j].agent, Nil)
          BY <3>3, <4>1, <4>2, <4>3, JobFacts, VerdictsGrow DEF Given
        <4>5. (r.decision # "deny") = kept(k)
          BY <3>0, <3>1, <3>3, <4>2 DEF Kept
        <4> QED
          BY <3>3, <4>4, <4>5 DEF CouldBe
      <3> QED
        BY <3>2, <3>3
    <2> QED
      BY <2>4, <2>5, <2>6
  <1> QED
    BY <1>1, AlwaysIInv, PTL

\* An expression is compiled with success at most once, just when the cache
\* has it, however many handlers miss the cache together (getOrCompile).
THEOREM CompileOnce == Spec => []CompiledOnce
  <1>1. Init => CompiledOnce
    BY DEF Init, CompiledOnce
  <1>2. TypeOK /\ CompiledOnce /\ [Next]_vars => CompiledOnce'
    <2> SUFFICES ASSUME TypeOK, CompiledOnce, [Next]_vars PROVE CompiledOnce'
      OBVIOUS
    <2>1. CASE UNCHANGED <<cache, compiled>>
      BY <2>1 DEF CompiledOnce
    <2>2. CASE \E j \in Jobs : Compile(j)
      <3>1. PICK j \in Jobs : Compile(j)
        BY <2>2
      <3>2. PICK x : x = Reading(j).cel
        OBVIOUS
      <3>3. CASE /\ x \notin cache /\ cache' = cache \cup {x}
                 /\ compiled' = [compiled EXCEPT ![x] = @ + 1]
        <4>1. x \in Expressions
          BY <3>1, <3>2 DEF Compile, TypeOK
        <4>2. compiled[x] = 0
          BY <3>3, <4>1 DEF CompiledOnce, TypeOK
        <4>3. \A y \in Expressions : compiled'[y] = IF y = x THEN 1 ELSE compiled[y]
          BY <3>3, <4>2 DEF TypeOK
        <4> HIDE DEF Expressions
        <4> QED
          BY <3>3, <4>3 DEF CompiledOnce
      <3> QED
        BY <2>1, <3>1, <3>2, <3>3 DEF Compile
    <2>3. UNCHANGED <<cache, compiled>> \/ \E j \in Jobs : Compile(j)
      BY DEF Next, Step, Begin, PassWhole, KeepEntry, Finish, Enter, Match, Look, LockCel, RunProgram,
         AskLock, Reload, Tick, vars, cel
    <2> QED
      BY <2>1, <2>2, <2>3
  <1> QED
    BY <1>1, <1>2, InitTypes, StepTypes, PTL DEF Spec
-----------------------------------------------------------------------------
\* Evaluate as Guard takes it, in one step: the first rule that matches.
LEMMA FirstIsUnique ==
    ASSUME NEW e, DOMAIN e.rules \subseteq Nat \ {0},
           NEW open, NEW tool, NEW agent, NEW content,
           NEW k \in FirstMatch(e.rules, open, tool, agent, content)
    PROVE  /\ k \in DOMAIN e.rules
           /\ Evaluate(e, open, tool, agent, content) = ResultFromRule(e.rules[k], e.defaults)
  <1> DEFINE first == FirstMatch(e.rules, open, tool, agent, content)
  <1>2. k \in DOMAIN e.rules
    BY DEF FirstMatch
  <1>3. ASSUME NEW i \in first PROVE i = k
    <2>1. /\ i \in Nat \ {0} /\ k \in Nat \ {0}
          /\ MatchRule(e.rules[i], open, tool, agent, content)
          /\ MatchRule(e.rules[k], open, tool, agent, content)
          /\ i \notin 1 .. k - 1 /\ k \notin 1 .. i - 1
      BY DEF FirstMatch
    <2> QED
      BY <2>1
  <1>4. first # {} /\ (CHOOSE i \in first : TRUE) = k
    BY <1>3
  <1> QED
    BY <1>2, <1>4 DEF Evaluate

LEMMA SomeFirst ==
    ASSUME NEW n \in Nat, NEW rules, DOMAIN rules = 1 .. n,
           NEW open, NEW tool, NEW agent, NEW content,
           NEW k \in DOMAIN rules, MatchRule(rules[k], open, tool, agent, content)
    PROVE  FirstMatch(rules, open, tool, agent, content) # {}
  <1> DEFINE A == {i \in DOMAIN rules : MatchRule(rules[i], open, tool, agent, content)}
  <1>1. PICK x \in A : \A y \in A : x <= y
    <2>1. A \in SUBSET Nat /\ A # {}
      OBVIOUS
    <2> HIDE DEF A
    <2> QED
      BY <2>1, LeastOf
  <1>2. ASSUME NEW l \in 1 .. x - 1 PROVE ~ MatchRule(rules[l], open, tool, agent, content)
    <2>1. l \in DOMAIN rules /\ ~ (x <= l)
      BY <1>1
    <2> QED
      BY <1>1, <2>1
  <1> QED
    BY <1>2 DEF FirstMatch

\* While one minute lasts Evaluate's loop, rule by rule, has one outcome: the
\* one that Guard's EvaluateRules takes in a step.
LEMMA OneMinuteOneVerdict ==
    ASSUME NEW e \in Policies, NEW m, NEW tool, NEW agent, NEW content
    PROVE  VerdictsIn({m}, e, tool, agent, content)
             = {Evaluate(e, OpenAt(m), tool, agent, content)}
  <1> DEFINE first == FirstMatch(e.rules, OpenAt(m), tool, agent, content)
             verdicts == VerdictsIn({m}, e, tool, agent, content)
  <1>1. DOMAIN e.rules = 1 .. Len(e.rules) /\ Len(e.rules) \in Nat
    BY PolicyFacts
  <1>2. \A r : /\ MatchedIn({m}, r, tool, agent, content)
                     <=> MatchRule(r, OpenAt(m), tool, agent, content)
               /\ FailedIn({m}, r, tool, agent, content)
                     <=> ~ MatchRule(r, OpenAt(m), tool, agent, content)
    BY DEF MatchedIn, FailedIn
  <1>3. first = {k \in DOMAIN e.rules :
                    /\ MatchedIn({m}, e.rules[k], tool, agent, content)
                    /\ \A l \in 1 .. k - 1 : FailedIn({m}, e.rules[l], tool, agent, content)}
    BY <1>2 DEF FirstMatch
  <1>4. DOMAIN e.rules \subseteq Nat \ {0}
    BY <1>1
  <1>5. CASE first = {}
    <2>1. \A k \in DOMAIN e.rules : FailedIn({m}, e.rules[k], tool, agent, content)
      BY <1>1, <1>2, <1>5, SomeFirst
    <2>2. verdicts = {ResultFromDefaults(e.defaults)}
      BY <1>3, <1>5, <2>1 DEF VerdictsIn
    <2>3. Evaluate(e, OpenAt(m), tool, agent, content) = ResultFromDefaults(e.defaults)
      BY <1>5 DEF Evaluate
    <2> QED
      BY <2>2, <2>3
  <1>6. CASE first # {}
    <2>1. PICK k : k \in first
      BY <1>6
    <2>2. /\ k \in DOMAIN e.rules
          /\ Evaluate(e, OpenAt(m), tool, agent, content) = ResultFromRule(e.rules[k], e.defaults)
      BY <1>4, <2>1, FirstIsUnique
    <2>3. ASSUME NEW i \in first
          PROVE  ResultFromRule(e.rules[i], e.defaults)
                   = Evaluate(e, OpenAt(m), tool, agent, content)
      BY <1>4, FirstIsUnique
    <2>4. ~ FailedIn({m}, e.rules[k], tool, agent, content)
      BY <1>2, <2>1 DEF FirstMatch
    <2>5. verdicts = {ResultFromRule(e.rules[i], e.defaults) : i \in first}
      <3> HIDE DEF first
      <3> QED
        BY <1>3, <2>2, <2>4 DEF VerdictsIn
    <2>6. PICK x : x = Evaluate(e, OpenAt(m), tool, agent, content)
      OBVIOUS
    <2> HIDE DEF first
    <2>7. \A v : v \in verdicts <=> v = x
      BY <2>1, <2>3, <2>5, <2>6
    <2> QED
      BY <2>6, <2>7
  <1> QED
    BY <1>5, <1>6

\* What Guard assumes of the engine: a verdict is Evaluate's, of the policy in
\* force on entry, if no minute ended under it.
JudgedInOneStep ==
    \A j \in Jobs : \A k \in 1 .. at[j] - 1 : \A m \in Nat :
        LET tool == Work[j].tools[k]    b == basis[j][k]
        IN tool # Nil /\ b.span = {m} =>
              b.result = Evaluate(b.eng, OpenAt(m), tool, Work[j].agent, Work[j].content)

\* Engine.Evaluate, interleaved rule by rule with reloads, compilations and
\* the clock, gives the verdict of one application of the policy it entered
\* under, unless a minute ends before it does: EvaluateRules of Guard may take
\* it in one step.
THEOREM EvaluationIsTheEngines == Spec => []JudgedInOneStep
  <1>1. IInv => JudgedInOneStep
    <2> SUFFICES ASSUME IInv, NEW j \in Jobs, NEW k \in 1 .. at[j] - 1, NEW m \in Nat,
                        Work[j].tools[k] # Nil, basis[j][k].span = {m}
                 PROVE  basis[j][k].result = Evaluate(basis[j][k].eng, OpenAt(m),
                                        Work[j].tools[k], Work[j].agent, Work[j].content)
      BY DEF JudgedInOneStep
    <2>1. Given(j, k)
      BY DEF IInv, JobInv, AllGiven
    <2>2. PICK e : e = basis[j][k].eng
      OBVIOUS
    <2>3. e \in seen[j] /\ basis[j][k].result
                             \in VerdictsIn({m}, e, Work[j].tools[k], Work[j].agent, Work[j].content)
      BY <2>1, <2>2 DEF Given
    <2>4. e \in Policies
      BY <2>3 DEF IInv, TypeOK
    <2> QED
      BY <2>2, <2>3, <2>4, OneMinuteOneVerdict
  <1> QED
    BY <1>1, AlwaysIInv, PTL

-----------------------------------------------------------------------------
\* The rules an engine starts with: the document's n, and up to the m-th the
\* card's.
Derived(card, i) == CardRule(card.approved[i], card.oversight)
Merges(rules, file, n, m) ==
    /\ DOMAIN file.rules = 1 .. n /\ DOMAIN rules = 1 .. m /\ n <= m
    /\ \A i \in 1 .. n : rules[i] = file.rules[i]
    /\ \A k \in n + 1 .. m :
          file.card # Nil /\ \E i \in DOMAIN file.card.approved : rules[k] = Derived(file.card, i)
    /\ file.card # Nil =>
          \A i \in DOMAIN file.card.approved :
              \E k \in n + 1 .. m : rules[k] = Derived(file.card, i)

LEMMA ExplicitFirst ==
    ASSUME NEW file \in PolicyFile
    PROVE  \E n, m \in Nat : Merges(StartEngine(file).rules, file, n, m)
  <1> DEFINE merged == StartEngine(file).rules
  <1>1. file.rules \in Seq(Rule) /\ file.card \in Card \cup {Nil}
    BY DEF PolicyFile
  <1>2. PICK n \in Nat : n = Len(file.rules) /\ DOMAIN file.rules = 1 .. n
    BY <1>1, LenProperties
  <1>3. CASE file.card = Nil
    <2>1. merged = file.rules
      BY <1>3 DEF StartEngine
    <2>2. \A k \in n + 1 .. n : FALSE
      BY <1>2
    <2> HIDE DEF merged
    <2>3. /\ DOMAIN file.rules = 1 .. n /\ DOMAIN merged = 1 .. n /\ n <= n
          /\ \A i \in 1 .. n : merged[i] = file.rules[i]
      BY <1>2, <2>1
    <2>4. Merges(merged, file, n, n)
      BY <1>3, <2>2, <2>3 DEF Merges
    <2> QED
      BY <2>4 DEF merged
  <1>4. CASE file.card # Nil
    <2> DEFINE derived == DeriveRules(file.card)
    <2>1. file.card.approved \in Seq(SUBSET Tools)
      BY <1>1, <1>4 DEF Card
    <2>2. PICK a \in Nat : a = Len(file.card.approved) /\ DOMAIN file.card.approved = 1 .. a
      BY <2>1, LenProperties
    <2>3. derived = [i \in 1 .. a |-> Derived(file.card, i)]
      BY <2>2 DEF DeriveRules, Derived
    <2>4. merged = file.rules \o derived
      BY <1>4 DEF StartEngine, MergeRules
    <2> HIDE DEF derived, merged
    <2>5. PICK C : C = {Derived(file.card, i) : i \in 1 .. a}
      OBVIOUS
    <2>6. derived \in [1 .. a -> C]
      BY <2>3, <2>5
    <2>7. derived \in Seq(C)
      BY <2>6
    <2>8. Len(derived) = a
      BY <2>6, <2>7, LenProperties
    <2>9. file.rules \in Seq(Rule \cup C) /\ derived \in Seq(Rule \cup C)
      BY <1>1, <2>7
    <2>10. /\ merged \in Seq(Rule \cup C) /\ Len(merged) = n + a
           /\ \A i \in 1 .. n + a : merged[i] = IF i <= n THEN file.rules[i] ELSE derived[i - n]
      BY <1>2, <2>4, <2>8, <2>9, ConcatProperties
    <2>11. DOMAIN merged = 1 .. n + a
      BY <2>10, LenProperties
    <2>12. \A i \in 1 .. n : merged[i] = file.rules[i]
      BY <2>10
    <2>13. ASSUME NEW i \in 1 .. a PROVE n + i \in n + 1 .. n + a /\ merged[n + i] = Derived(file.card, i)
      <3>1. n + i \in 1 .. n + a /\ ~ (n + i <= n) /\ (n + i) - n = i
        OBVIOUS
      <3> QED
        BY <2>3, <2>10, <3>1
    <2>14. ASSUME NEW k \in n + 1 .. n + a PROVE \E i \in 1 .. a : merged[k] = Derived(file.card, i)
      <3>1. k - n \in 1 .. a /\ k = n + (k - n)
        OBVIOUS
      <3> QED
        BY <2>13, <3>1
    <2>15. n + a \in Nat /\ n <= n + a
      OBVIOUS
    <2>16. /\ \A k \in n + 1 .. n + a : \E i \in DOMAIN file.card.approved : merged[k] = Derived(file.card, i)
           /\ \A i \in DOMAIN file.card.approved : \E k \in n + 1 .. n + a : merged[k] = Derived(file.card, i)
      BY <2>2, <2>13, <2>14
    <2>17. Merges(merged, file, n, n + a)
      BY <1>2, <1>4, <2>11, <2>12, <2>15, <2>16 DEF Merges
    <2> QED
      BY <2>15, <2>17 DEF merged
  <1> QED
    BY <1>3, <1>4

\* The verdict a card gives of a tool it approves.
CardDecision(card) ==
    IF card.oversight = "human-approves-every-action" THEN "require_approval" ELSE "allow"

\* A card only adds: where an explicit rule matches, the engine of the startup
\* (MergeRules) and the one a reload of the same document installs (main.go's
\* callback, which does not merge) agree.  Elsewhere the first gives what the
\* card says of the tools it approves, and the second the defaults of any
\* tool: that is all a reload loses.
THEOREM WhatAReloadForgets ==
    ASSUME NEW file \in PolicyFile, NEW open \in SUBSET Windows,
           NEW tool \in Tools, NEW agent \in Agents, NEW content \in Content
    PROVE  LET before   == Evaluate(StartEngine(file), open, tool, agent, content)
               after    == Evaluate(ReloadedEngine(file), open, tool, agent, content)
               explicit == \E i \in DOMAIN file.rules :
                              MatchRule(file.rules[i], open, tool, agent, content)
               approved == /\ file.card # Nil
                           /\ \E i \in DOMAIN file.card.approved : tool \in file.card.approved[i]
           IN  /\ explicit \/ ~ approved => before = after
               /\ ~ explicit => after = ResultFromDefaults(EffectiveDefaults(file))
               /\ ~ explicit /\ approved => before.decision = CardDecision(file.card)
  <1> DEFINE Matches(rule_) == MatchRule(rule_, open, tool, agent, content)
             explicit == \E i \in DOMAIN file.rules : Matches(file.rules[i])
             approved == /\ file.card # Nil
                         /\ \E i \in DOMAIN file.card.approved : tool \in file.card.approved[i]
  <1>1. PICK s, r : s = StartEngine(file) /\ r = ReloadedEngine(file)
    OBVIOUS
  <1>2. r.rules = file.rules /\ r.defaults = EffectiveDefaults(file) /\ s.defaults = r.defaults
    BY <1>1 DEF StartEngine, ReloadedEngine
  <1>3. PICK n, m \in Nat : Merges(s.rules, file, n, m)
    BY <1>1, ExplicitFirst
  <1>4. /\ DOMAIN r.rules = 1 .. n /\ DOMAIN s.rules = 1 .. m /\ n <= m
        /\ \A i \in 1 .. n : s.rules[i] = r.rules[i]
    BY <1>2, <1>3 DEF Merges
  <1>5. DOMAIN r.rules \subseteq Nat \ {0} /\ DOMAIN s.rules \subseteq Nat \ {0}
    BY <1>4
  <1>6. \A i : (Matches(Derived(file.card, i)) <=> tool \in file.card.approved[i])
               /\ Derived(file.card, i).action = CardDecision(file.card)
    BY DEF MatchRule, CardRule, CardDecision, Derived
  <1> HIDE DEF Matches
  <1>7. explicit <=> \E i \in DOMAIN r.rules : Matches(r.rules[i])
    BY <1>2
  <1>8. ASSUME explicit
        PROVE  Evaluate(s, open, tool, agent, content) = Evaluate(r, open, tool, agent, content)
    <2>1. PICK k : k \in FirstMatch(r.rules, open, tool, agent, content)
      <3>1. PICK l \in DOMAIN r.rules : MatchRule(r.rules[l], open, tool, agent, content)
        BY <1>7, <1>8 DEF Matches
      <3>2. DOMAIN r.rules = 1 .. n
        BY <1>4
      <3> QED
        BY <3>1, <3>2, SomeFirst
    <2>2. k \in 1 .. n
      BY <1>4, <2>1 DEF FirstMatch
    <2>3. \A j \in 1 .. k : j \in 1 .. n
      BY <2>2
    <2>4. k \in 1 .. m /\ k \in 1 .. k /\ 1 .. k - 1 \subseteq 1 .. k
      BY <1>4, <2>2
    <2>5. k \in FirstMatch(s.rules, open, tool, agent, content)
      BY <1>4, <2>1, <2>3, <2>4 DEF FirstMatch
    <2>6. Evaluate(r, open, tool, agent, content) = ResultFromRule(r.rules[k], r.defaults)
      BY <1>5, <2>1, FirstIsUnique
    <2>7. Evaluate(s, open, tool, agent, content) = ResultFromRule(s.rules[k], s.defaults)
      BY <1>5, <2>5, FirstIsUnique
    <2> QED
      BY <1>2, <1>4, <2>2, <2>6, <2>7
  <1>9. ASSUME ~ explicit
        PROVE  Evaluate(r, open, tool, agent, content) = ResultFromDefaults(EffectiveDefaults(file))
    <2>1. FirstMatch(r.rules, open, tool, agent, content) = {}
      BY <1>7, <1>9 DEF FirstMatch, Matches
    <2> QED
      BY <1>2, <2>1 DEF Evaluate
  <1>10. ASSUME ~ explicit, NEW k \in DOMAIN s.rules, Matches(s.rules[k])
         PROVE  approved /\ s.rules[k].action = CardDecision(file.card)
    <2>1. k \in n + 1 .. m
      <3>1. k \notin 1 .. n
        BY <1>4, <1>7, <1>10
      <3> QED
        BY <1>4, <3>1
    <2>2. PICK i \in DOMAIN file.card.approved : s.rules[k] = Derived(file.card, i)
      BY <1>3, <2>1 DEF Merges
    <2>3. file.card # Nil
      BY <1>3, <2>1 DEF Merges
    <2> QED
      BY <1>6, <1>10, <2>2, <2>3
  <1>11. ASSUME ~ explicit, ~ approved
         PROVE  Evaluate(s, open, tool, agent, content) = Evaluate(r, open, tool, agent, content)
    <2>1. FirstMatch(s.rules, open, tool, agent, content) = {}
      BY <1>10, <1>11 DEF FirstMatch, Matches
    <2> QED
      BY <1>2, <1>9, <1>11, <2>1 DEF Evaluate
  <1>12. ASSUME ~ explicit, approved
         PROVE  Evaluate(s, open, tool, agent, content).decision = CardDecision(file.card)
    <2>1. PICK i \in DOMAIN file.card.approved : tool \in file.card.approved[i]
      BY <1>12
    <2>2. PICK l \in n + 1 .. m : s.rules[l] = Derived(file.card, i)
      BY <1>3, <1>12, <2>1 DEF Merges
    <2>3. l \in DOMAIN s.rules /\ Matches(s.rules[l])
      BY <1>4, <1>6, <2>1, <2>2
    <2>4. PICK k : k \in FirstMatch(s.rules, open, tool, agent, content)
      <3>1. MatchRule(s.rules[l], open, tool, agent, content)
        BY <2>3 DEF Matches
      <3>2. DOMAIN s.rules = 1 .. m
        BY <1>4
      <3> QED
        BY <2>3, <3>1, <3>2, SomeFirst
    <2>5. k \in DOMAIN s.rules /\ Matches(s.rules[k])
      BY <2>4 DEF FirstMatch, Matches
    <2>6. Evaluate(s, open, tool, agent, content) = ResultFromRule(s.rules[k], s.defaults)
      BY <1>5, <2>4, FirstIsUnique
    <2>7. s.rules[k].action = CardDecision(file.card)
      BY <1>10, <1>12, <2>5
    <2> QED
      BY <2>6, <2>7 DEF ResultFromRule, CardDecision, Decision, RuleActions
  <1> HIDE DEF explicit, approved
  <1>13. /\ explicit \/ ~ approved =>
              Evaluate(s, open, tool, agent, content) = Evaluate(r, open, tool, agent, content)
         /\ ~ explicit =>
              Evaluate(r, open, tool, agent, content) = ResultFromDefaults(EffectiveDefaults(file))
         /\ ~ explicit /\ approved =>
              Evaluate(s, open, tool, agent, content).decision = CardDecision(file.card)
    BY <1>8, <1>9, <1>11, <1>12
  <1> QED
    BY <1>1, <1>13 DEF explicit, approved, Matches
=============================================================================
