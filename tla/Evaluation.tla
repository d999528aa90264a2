----------------------------- MODULE Evaluation -----------------------------
(***************************************************************************)
(* Engine.Evaluate rule by rule, which Guard takes in one step, and the    *)
(* tools/list filter, which calls it once per tool of an answer.  The      *)
(* engine's RWMutex stands between it and Reload, the CEL evaluator's      *)
(* between two handlers that need the same expression compiled, and every  *)
(* rule with a time window reads the clock for itself.                     *)
(***************************************************************************)
EXTENDS PolicyEngine, FiniteSets

CONSTANTS
    Jobs,       \* tools/list answers to filter and tools/call requests to judge
    Work,       \* what each of them is about
    Policies,   \* what the engine may hold
    Broken,     \* the expressions that do not compile
    Schedule,   \* the minutes of the period at which a window's cron fires
    Unparsed,   \* the windows whose cron or timezone is invalid
    Period,     \* minutes after which schedules repeat
    PerMinute,  \* instants of a minute
    MaxTime,    \* bound on the clock
    MaxReloads  \* bound on the reloads

\* An entry of an answer whose name cannot be read is Nil; an answer parses
\* unless its result is no toolsListResult, as one with a cursor that is no
\* string.  A call is of one tool.  A rule without a CEL expression is one whose
\* cel is all of Content.
Job == [list : BOOLEAN, parses : BOOLEAN, tools : Seq(Tools \cup {Nil}),
        agent : Agents, content : Content]
Expressions == (SUBSET Content) \ {Content}

ASSUME EvaluationAssumption ==
    /\ Work \in [Jobs -> Job]
    /\ \A j \in Jobs : IF Work[j].list THEN Work[j].content = Nil
                       ELSE /\ Work[j].parses
                            /\ Len(Work[j].tools) = 1 /\ Work[j].tools[1] # Nil
    /\ Policies \subseteq EngineState
    /\ Broken \subseteq {{}}               \* it never yields true
    /\ Period \in Nat \ {0} /\ PerMinute \in Nat \ {0}
    /\ MaxTime \in Nat /\ MaxReloads \in Nat
    /\ Schedule \in [Windows -> SUBSET (0 .. Period - 1)] /\ Unparsed \subseteq Windows
ASSUME JobAssumption == Nil \notin Jobs \cup Tools

VARIABLES
    eng,        \* Engine.pol and defaults
    writer,     \* Reload: "none" or "waiting" for the lock
    coming,     \* the policy it will install
    reloads,    \* how many there were
    readers,    \* the jobs that hold Engine.mu for reading
    cache,      \* CELEvaluator.cache: the expressions it has a program of
    celLock,    \* the job that holds CELEvaluator.mu for writing
    compiled,   \* history: how often an expression was compiled with success
    now,        \* the time
    stage,      \* where a job is
    at,         \* the entry it has reached
    rule,       \* the index of Evaluate's loop
    shown,      \* the entries the filter kept
    seen,       \* history: the engines in force since the job began
    span,       \* history: the minutes since it began
    basis       \* history: of each entry's verdict, its engine, minutes and result

engine == <<eng, writer, coming, reloads>>
cel    == <<cache, celLock, compiled>>
past   == <<seen, span>>
vars   == <<engine, readers, cel, now, stage, at, rule, shown, past, basis>>

Minute(t) == t \div PerMinute

Init ==
    /\ eng \in Policies /\ writer = "none" /\ coming = eng /\ reloads = 0
    /\ readers = {} /\ cache = {} /\ celLock = Nil
    /\ compiled = [x \in Expressions |-> 0]
    /\ now \in PerMinute .. MaxTime
    /\ stage = [j \in Jobs |-> "idle"] /\ at = [j \in Jobs |-> 1]
    /\ rule = [j \in Jobs |-> 1] /\ shown = [j \in Jobs |-> <<>>]
    /\ seen = [j \in Jobs |-> {}] /\ span = [j \in Jobs |-> {}]
    /\ basis = [j \in Jobs |-> [k \in DOMAIN Work[j].tools |-> Nil]]

-----------------------------------------------------------------------------
\* isInTimeWindow: the first firing after one minute ago is not after now.
\* A schedule no date satisfies has no next firing, and the zero time that
\* stands for it is not after now either.
Firings(w) == {m * PerMinute : m \in {n \in 0 .. Minute(MaxTime) + Period :
                                         n % Period \in Schedule[w]}}
NextFiring(w, t) ==
    IF Schedule[w] = {} THEN 0
    ELSE CHOOSE f \in Firings(w) : f > t /\ \A g \in Firings(w) : g > t => f <= g
InWindowAtOnce_(w) ==                      \* nothing is subtracted from now
    w \notin Unparsed /\ NextFiring(w, now) <= now
InWindow(w) == w \notin Unparsed /\ NextFiring(w, now - PerMinute) <= now

Entry(j)   == Work[j].tools[at[j]]
Reading(j) == eng.rules[rule[j]]           \* the rule the loop is at
GoTo(j, s) == stage' = [stage EXCEPT ![j] = s]

\* The filter is given an answer it can parse, the engine a call.
BeginLocked_(j) ==                         \* the filter holds the lock all along
    /\ stage[j] = "idle" /\ Work[j].parses /\ GoTo(j, "next")
    /\ Work[j].list => writer = "none"
    /\ readers' = IF Work[j].list THEN readers \cup {j} ELSE readers
    /\ seen' = [seen EXCEPT ![j] = {eng}] /\ span' = [span EXCEPT ![j] = {Minute(now)}]
    /\ UNCHANGED <<engine, cel, now, at, rule, shown, basis>>
Begin(j) ==
    /\ stage[j] = "idle" /\ Work[j].parses /\ GoTo(j, "next")
    /\ seen' = [seen EXCEPT ![j] = {eng}] /\ span' = [span EXCEPT ![j] = {Minute(now)}]
    /\ UNCHANGED <<engine, readers, cel, now, at, rule, shown, basis>>
\* An answer it cannot parse it returns as it is, and asks the engine nothing.
PassWhole(j) ==
    /\ stage[j] = "idle" /\ ~ Work[j].parses /\ GoTo(j, "done")
    /\ shown' = [shown EXCEPT ![j] = Work[j].tools]
    /\ UNCHANGED <<engine, readers, cel, now, at, rule, past, basis>>

\* FilterToolsList keeps the entries it cannot read.
KeepEntry(j) ==
    /\ stage[j] = "next" /\ at[j] <= Len(Work[j].tools) /\ Entry(j) = Nil
    /\ shown' = [shown EXCEPT ![j] = Append(@, Nil)] /\ at' = [at EXCEPT ![j] = @ + 1]
    /\ UNCHANGED <<engine, readers, cel, now, stage, rule, past, basis>>
\* What is left is marshalled; entries that were parsed raw always are.
Finish(j) ==
    /\ stage[j] = "next" /\ at[j] > Len(Work[j].tools)
    /\ GoTo(j, "done")
    /\ UNCHANGED <<engine, readers, cel, now, at, rule, shown, past, basis>>

\* Evaluate takes the read lock, which a waiting writer bars, ...
EnterUnlocked_(j) ==                       \* no lock
    /\ stage[j] = "next" /\ at[j] <= Len(Work[j].tools) /\ Entry(j) # Nil
    /\ GoTo(j, "matching") /\ rule' = [rule EXCEPT ![j] = 1]
    /\ basis' = [basis EXCEPT ![j][at[j]] =
                   [eng |-> eng, span |-> {Minute(now)}, result |-> Nil]]
    /\ UNCHANGED <<engine, readers, cel, now, at, shown, past>>
Enter(j) ==
    /\ stage[j] = "next" /\ at[j] <= Len(Work[j].tools) /\ Entry(j) # Nil
    /\ writer = "none" /\ readers' = readers \cup {j}
    /\ GoTo(j, "matching") /\ rule' = [rule EXCEPT ![j] = 1]
    /\ basis' = [basis EXCEPT ![j][at[j]] =
                   [eng |-> eng, span |-> {Minute(now)}, result |-> Nil]]
    /\ UNCHANGED <<engine, cel, now, at, shown, past>>

\* ... and releases it with the verdict; the filter keeps what is not denied.
Keeps_(result) == result.decision = "allow"
Keeps(result) == result.decision # "deny"
Leave(j, result) ==
    /\ readers' = readers \ {j} /\ GoTo(j, "next")
    /\ basis' = [basis EXCEPT ![j][at[j]].result = result]
    /\ shown' = IF Work[j].list /\ Keeps(result)
                THEN [shown EXCEPT ![j] = Append(@, Entry(j))] ELSE shown
    /\ at' = [at EXCEPT ![j] = @ + 1]
    /\ UNCHANGED rule
NoMatch(j) ==
    /\ rule' = [rule EXCEPT ![j] = @ + 1] /\ GoTo(j, "matching")
    /\ UNCHANGED <<readers, basis, shown, at>>

\* matchRule, up to its CEL expression.
Fits(j) ==
    /\ Work[j].agent \in Reading(j).agents /\ Entry(j) \in Reading(j).tools
    /\ Reading(j).window # Nil => InWindow(Reading(j).window)
Match(j) ==
    /\ stage[j] = "matching"
    /\ IF rule[j] > Len(eng.rules) THEN Leave(j, ResultFromDefaults(eng.defaults))
       ELSE \/ ~ Fits(j) /\ NoMatch(j)
            \/ Fits(j) /\ Reading(j).cel = Content
               /\ Leave(j, ResultFromRule(Reading(j), eng.defaults))
            \/ Fits(j) /\ Reading(j).cel # Content /\ GoTo(j, "looking")
               /\ UNCHANGED <<readers, basis, shown, at, rule>>
    /\ UNCHANGED <<engine, cel, now, past>>

\* getOrCompile: a look under the read lock; on a miss the write lock, and a
\* second look.  An expression that does not compile is not remembered.
Look(j) ==
    /\ stage[j] = "looking" /\ celLock = Nil
    /\ GoTo(j, IF Reading(j).cel \in cache THEN "running" ELSE "wanting")
    /\ UNCHANGED <<engine, readers, cel, now, at, rule, shown, past, basis>>
LockCel(j) ==
    /\ stage[j] = "wanting" /\ celLock = Nil
    /\ celLock' = j /\ GoTo(j, "compiling")
    /\ UNCHANGED <<engine, readers, cache, compiled, now, at, rule, shown, past, basis>>
CompileAgain_(j) ==                        \* no second look
    /\ stage[j] = "compiling" /\ celLock' = Nil
    /\ IF Reading(j).cel \in Broken THEN NoMatch(j) /\ UNCHANGED <<cache, compiled>>
       ELSE /\ cache' = cache \cup {Reading(j).cel}
            /\ compiled' = [compiled EXCEPT ![Reading(j).cel] = @ + 1]
            /\ GoTo(j, "running") /\ UNCHANGED <<readers, basis, shown, at, rule>>
    /\ UNCHANGED <<engine, now, past>>
CompileKeepsLock_(j) ==                    \* the error path forgets to unlock
    /\ stage[j] = "compiling"
    /\ IF Reading(j).cel \in Broken THEN NoMatch(j) /\ UNCHANGED cel
       ELSE /\ celLock' = Nil /\ cache' = cache \cup {Reading(j).cel}
            /\ compiled' = [compiled EXCEPT ![Reading(j).cel] = @ + 1]
            /\ GoTo(j, "running") /\ UNCHANGED <<readers, basis, shown, at, rule>>
    /\ UNCHANGED <<engine, now, past>>
Compile(j) ==
    /\ stage[j] = "compiling" /\ celLock' = Nil
    /\ IF Reading(j).cel \in cache
       THEN GoTo(j, "running") /\ UNCHANGED <<readers, basis, shown, at, rule, cache, compiled>>
       ELSE IF Reading(j).cel \in Broken THEN NoMatch(j) /\ UNCHANGED <<cache, compiled>>
       ELSE /\ cache' = cache \cup {Reading(j).cel}
            /\ compiled' = [compiled EXCEPT ![Reading(j).cel] = @ + 1]
            /\ GoTo(j, "running") /\ UNCHANGED <<readers, basis, shown, at, rule>>
    /\ UNCHANGED <<engine, now, past>>
RunProgram(j) ==
    /\ stage[j] = "running"
    /\ IF Work[j].content \in Reading(j).cel
       THEN Leave(j, ResultFromRule(Reading(j), eng.defaults)) ELSE NoMatch(j)
    /\ UNCHANGED <<engine, cel, now, past>>

-----------------------------------------------------------------------------
\* Reload asks for the write lock, and swaps the policy once the readers are
\* out.
AskLock ==
    /\ writer = "none" /\ reloads < MaxReloads
    /\ coming' \in Policies \ {eng} /\ writer' = "waiting" /\ reloads' = reloads + 1
    /\ UNCHANGED <<eng, readers, cel, now, stage, at, rule, shown, past, basis>>
Busy(j) == stage[j] \notin {"idle", "done"}
Reload ==
    /\ writer = "waiting" /\ readers = {}
    /\ eng' = coming /\ writer' = "none"
    /\ seen' = [j \in Jobs |-> IF Busy(j) THEN seen[j] \cup {coming} ELSE seen[j]]
    /\ UNCHANGED <<coming, reloads, readers, cel, now, stage, at, rule, shown, span, basis>>

\* Time passes; the history takes down the minutes a job and its Evaluate see.
Evaluating(j) == stage[j] \notin {"idle", "done", "next"}
Tick ==
    /\ now < MaxTime /\ now' = now + 1
    /\ span' = [j \in Jobs |-> IF Busy(j) THEN span[j] \cup {Minute(now')} ELSE span[j]]
    /\ basis' = [j \in Jobs |->
                   IF Evaluating(j)
                   THEN [basis[j] EXCEPT ![at[j]].span = @ \cup {Minute(now')}]
                   ELSE basis[j]]
    /\ UNCHANGED <<engine, readers, cel, stage, at, rule, shown, seen>>

Step(j) == Begin(j) \/ PassWhole(j) \/ KeepEntry(j) \/ Finish(j) \/ Enter(j) \/ Match(j)
           \/ Look(j) \/ LockCel(j) \/ Compile(j) \/ RunProgram(j)

Next == (\E j \in Jobs : Step(j)) \/ AskLock \/ Reload \/ Tick

\* Goroutines are scheduled and neither mutex starves a waiter.  Nothing makes
\* a file change.
Fairness == (\A j \in Jobs : WF_vars(Step(j))) /\ WF_vars(Reload)
Spec == Init /\ [][Next]_vars /\ Fairness

-----------------------------------------------------------------------------
Basis == [eng : Policies, span : SUBSET Nat, result : EvalResult \cup {Nil}]
TypeOK ==
    /\ eng \in Policies /\ coming \in Policies /\ writer \in {"none", "waiting"}
    /\ reloads \in 0 .. MaxReloads /\ readers \subseteq Jobs
    /\ cache \subseteq Expressions /\ celLock \in Jobs \cup {Nil}
    /\ compiled \in [Expressions -> Nat] /\ now \in Nat
    /\ stage \in [Jobs -> {"idle", "next", "matching", "looking", "wanting",
                           "compiling", "running", "done"}]
    /\ at \in [Jobs -> Nat] /\ rule \in [Jobs -> Nat \ {0}]
    /\ shown \in [Jobs -> Seq(Tools \cup {Nil})]
    /\ seen \in [Jobs -> SUBSET Policies] /\ span \in [Jobs -> SUBSET Nat]
    /\ DOMAIN basis = Jobs
    /\ \A j \in Jobs :
          /\ basis[j] \in [DOMAIN Work[j].tools -> Basis \cup {Nil}]
          /\ at[j] \in 1 .. Len(Work[j].tools) + 1
          /\ Evaluating(j) => /\ at[j] <= Len(Work[j].tools) /\ j \in readers
                              /\ basis[j][at[j]] \in Basis
          /\ stage[j] = "compiling" <=> celLock = j
          /\ stage[j] \in {"looking", "wanting", "compiling", "running"} =>
                rule[j] \in DOMAIN eng.rules /\ Reading(j).cel \in Expressions

\* What a window is for: it is open during the minutes its cron names
\* (docs/rules.md "only matches during minutes that match"), never when it
\* cannot be parsed, always when no minute can satisfy it.
OpenAt(m) == {w \in Windows \ Unparsed : Schedule[w] = {} \/ m % Period \in Schedule[w]}

\* The verdicts Evaluate may give under one policy while the minutes of ms
\* pass: of the first rule that matches, each rule being read in one of them.
MatchedIn(ms, r, tool, agent, content) ==
    \E m \in ms : MatchRule(r, OpenAt(m), tool, agent, content)
FailedIn(ms, r, tool, agent, content) ==
    \E m \in ms : ~ MatchRule(r, OpenAt(m), tool, agent, content)
VerdictsIn(ms, e, tool, agent, content) ==
    {ResultFromRule(e.rules[i], e.defaults) :
        i \in {k \in DOMAIN e.rules :
                  /\ MatchedIn(ms, e.rules[k], tool, agent, content)
                  /\ \A l \in 1 .. k - 1 : FailedIn(ms, e.rules[l], tool, agent, content)}}
    \cup {ResultFromDefaults(e.defaults) :
             x \in {y \in {0} : \A k \in DOMAIN e.rules :
                                   FailedIn(ms, e.rules[k], tool, agent, content)}}

\* Evaluate is one step to the rest of the program: its verdict is that of one
\* policy, the one in force when it entered, whatever is reloaded, compiled or
\* contended for meanwhile; and of one minute, unless a minute ends under it
\* (Engine.Evaluate, getOrCompile, isInTimeWindow).
VerdictIsAPolicys ==
    \A j \in Jobs : \A k \in 1 .. at[j] - 1 :
        LET tool == Work[j].tools[k]    b == basis[j][k]
        IN tool # Nil =>
              b.result \in VerdictsIn(b.span, b.eng, tool, Work[j].agent, Work[j].content)

\* A list made of an answer that parses keeps its order and the entries that
\* could not be read; a tool it shows was not denied, and one it hides was, by
\* some policy and at some minute since the filter began; so a list over which
\* neither changed is exactly what that policy does not deny.  An answer that
\* does not parse is shown whole, the tools the policy denies among the rest
\* (FilterToolsList).
CouldBe(j, tool, keep) ==
    \E e \in seen[j] : \E r \in VerdictsIn(span[j], e, tool, Work[j].agent, Nil) :
        (r.decision # "deny") = keep
IsFiltered(j) ==
    \E place \in [DOMAIN shown[j] -> DOMAIN Work[j].tools] :
        /\ \A a, b \in DOMAIN place : a < b => place[a] < place[b]
        /\ \A i \in DOMAIN place : shown[j][i] = Work[j].tools[place[i]]
        /\ \A k \in DOMAIN Work[j].tools :
              LET kept == \E i \in DOMAIN place : place[i] = k
              IN IF Work[j].tools[k] = Nil THEN kept
                 ELSE CouldBe(j, Work[j].tools[k], kept)
ListIsTrue ==
    \A j \in Jobs : Work[j].list /\ stage[j] = "done" =>
        IF Work[j].parses THEN IsFiltered(j) ELSE shown[j] = Work[j].tools

\* docs/rules.md "CEL expressions are compiled once and cached": also when
\* several handlers miss the cache together, and across reloads.
CompiledOnce == \A x \in Expressions : compiled[x] <= 1 /\ (x \in cache <=> compiled[x] = 1)

\* Two locks, one held while the other is waited for, and a writer that bars
\* the readers: every list and call comes to its end, and every reload in.
AllReturn == /\ \A j \in Jobs : stage[j] # "idle" ~> stage[j] = "done"
             /\ writer = "waiting" ~> writer = "none"
=============================================================================
