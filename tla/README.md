# mcp-policy-guard in TLA+

mcp-policy-guard sits between an MCP client (an AI agent's host) and an MCP
server. It takes every `tools/call` through rate limits, content filters and a
policy, and forwards it, refuses it, rewrites it or puts it to a human approver;
it records what it did and raises alerts. This directory specifies the program,
model-checks it with TLC and proves what matters most with TLAPS.

1. [Inventory](#1-inventory)
2. [The modules and the code](#2-the-modules-and-the-code)
3. [What the runs check](#3-what-the-runs-check)
4. [Bounds](#4-bounds)
5. [Fairness](#5-fairness)
6. [What is proved](#6-what-is-proved)
7. [Where the code and its documents disagree](#7-where-the-code-and-its-documents-disagree)
8. [What is abstracted and what is not modelled](#8-what-is-abstracted-and-what-is-not-modelled)
9. [Plan](#9-plan)

## 1. Inventory

| component (`internal/...`) | state | operations | talks to |
|---|---|---|---|
| transports: `transport/stdio.go`, `http.go`, `stdio_bridge.go` | locals of a handler; pipes to and from a child | `Run`, `handleToolCall`, approval and mutation of each mode, forwarding, relaying | every part below |
| policy engine: `engine` | rules and defaults under an RWMutex | `Evaluate`, `Reload` | transports, watcher, tools/list filter |
| policy documents: `policy/config.go`, `loader.go` | none | `Load`, `validate`, `EffectiveDefaults` | main, watcher |
| agent card: `agentcard` | none | `DeriveRules`, `MergeRules` | main, at startup only |
| rate limiter: `ratelimit/ratelimit.go` | buckets under a mutex | `Check` | transports |
| shared rate limiter: `ratelimit/redis.go` | counters in Redis | `Check` by INCR and EXPIRE | transports; other guards through Redis |
| content filter: `contentfilter` | compiled patterns | `CheckRequest` | transports |
| mutation: `mutate` | none | `Apply` | transports |
| escalation: `escalation` | channel table | `Fire`, in a goroutine of its own | transports |
| approval: `approval` | registry; one controlling terminal | `Handle` with fallbacks; terminal, webhook and Slack handlers | transports; a person, a service |
| delegation: `approval/delegation.go` | none | `CheckDelegation`, called by tests only | nobody |
| audit pipeline: `audit/audit.go`, `emitters.go` | a channel of 256, a file, a batch | `Emit`, `run`, `Flush`, `Close` | transports, main, an endpoint |
| redaction, OpenTelemetry: `audit/redact.go`, `otel.go` | none; SDK | `Redact`, `Emit` | transports; a collector |
| tools/list filter: `toolfilter` | none | one `Evaluate` per tool of an answer | transports, engine |
| watcher: `policy/watcher.go` | an inotify watch | `NewWatcher`, `run`, `Close` | kernel, main's reload callback |
| time windows, CEL: `engine/timewindow.go`, `cel.go` | cache of compiled programs | `isInTimeWindow`, `Evaluate`, `getOrCompile` | engine |
| main: `main.go` | the parts | startup, reload callback, signals and exit | all |

**How they interact.** A handler calls the parts one after the other. In HTTP
mode each request has its own goroutine, so handlers share the engine (under its
lock), the limiter (under its mutex), the terminal (under nothing) and the audit
channel. In stdio and bridge mode one loop reads standard input and handles a line
before it reads the next; a second goroutine relays the child's output. The
watcher's goroutine swaps the engine's policy at any time. The pipeline's
consumer, its ticker and main share one batch. Guards on several machines share
counters in Redis.

**What is hard.**

- The policy is replaced between a decision, the approver's answer and the
  forwarding.
- The same sequence of refusals is written three times, once per transport,
  and the copies differ.
- Handlers race for the last token, for the one terminal, and for Redis
  counters that no transaction protects.
- Three goroutines flush one batch, and the process exits under them.
- Deadlines race late answers; servers, services and Redis fail or answer late.
- A file is read while it is being written, or replaced under its watch; a log
  is rotated by renames that may fail, or be cut short by the end of the process.
- The client, the child and a signal end a session in any order, over pipes that
  fill and lines that end in the middle.
- A list is judged tool by tool, and a rule by a clock and a cache that other
  handlers use.

**What makes each part correct**, as the properties of section 3 state it:
nothing reaches the server without leave of the policy it was decided under and
of the person that policy asks; a call has one fate; the trail and the alerts tell
what happened; limits are neither exceeded nor refuse too early; an approval is
that of the request's own reviewer, in time; accepted records are neither lost,
repeated nor reordered, and only the oldest go from the log; the engine enforces
what the file says, and a verdict is that of one policy; a session that is ended
ends, and leaves nothing of the server's answers behind.

`PROJECT.json` lists 40 hazards at their lines, with the properties that would
catch each.

## 2. The modules and the code

| module | code | composes |
|---|---|---|
| `PolicyEngine` | `engine/engine.go`, `policy/config.go`, `agentcard` | |
| `Transports` | the three transports' handlers as plans of effects | extends `PolicyEngine` |
| `Guard` | the handlers at work, the limiter, the filters, the engine and its reload | extends `Transports`; refines `ToolGate` |
| `ToolGate` | the abstract promise of a policy proxy | |
| `Evaluation` | `engine.Evaluate` rule by rule, `cel.go`, `timewindow.go`, `toolfilter` | extends `PolicyEngine`; the inside of `Guard`'s `EvaluateRules` |
| `Lifecycle` | `Run` of the three transports, the relay, main's signals and exit | around `Guard`'s handlers and `AuditPipeline`'s Close |
| `AuditPipeline` | `audit/audit.go`, the file and webhook emitters, main's exit | |
| `FileRotation` | `FileEmitter` with its rotation | the inside of `AuditPipeline`'s `WriteLine` |
| `Approval` | `approval/approval.go`, `terminal.go`, `webhook.go`, `slack.go` | the inside of `Guard`'s `asking` stage |
| `HotReload` | `policy/watcher.go` and main's callback | the when of `Guard`'s `Reload` |
| `RateLimiter` | `ratelimit/ratelimit.go` with a clock | the inside of `Guard`'s `CheckLimits`; refines `TokenBuckets` |
| `TokenBuckets` | the abstract promise of a limiter that several handlers share | |
| `RedisLimiter` | `ratelimit/redis.go` | |
| `GuardProofs`, `EvaluationProofs`, `ApprovalProofs`, `ProcessProofs` (of `Lifecycle` and `HotReload`), `RateLimiterProofs`, `RedisLimiterProofs`, `AuditProofs`, `FileRotationProofs` | the theorems | |
| `MC*` | instances for TLC | |

**Guard.** A call is one message of the client. `stage`, `request`, `result` and
`todo` are the locals of its handler, `eng` and `budget` the shared engine and
buckets. `CheckLimits`, `CheckFilters` and `EvaluateRules` are the three sections
of `handleToolCall` up to its switch; the switch and the functions it calls are
straight-line code that forwards, answers, records, alerts or asks, so
`Transports` translates each as the sequence of those effects (`OnLimited`,
`OnBlocked`, `OnDecided`, `OnSettled`, one operator per mode under each), and
`Guard` performs them one step at a time, with everything else free to happen in
between. `PostUpstream`, `UpstreamAnswers` and `UpstreamFails` are the HTTP
forwarders, which block; `WriteToChild` and `ChildAnswers` are the two directions
of the child's pipes. `Reload` is the watcher's callback. `basis` and `outcome`
are history: what a decision rested on and how its approval ended.

**ToolGate** knows nothing of policies: a message is held, ruled on once, offered
to the server once if cleared, never if refused, and a refused client is told
once. `Guard!Gate` is the refinement mapping: what a handler still has to do
tells the fate of its call.

**Approval** opens up `AskApproval` and `Settle`. `Resolve` is
`handleWithVisited`, `Prompt` and `ReadLine` the terminal's loop, `PostArrives`
to `GiveUp` the service handlers, which poll; `Type` and `Review` are the people.
`consent`, `exposed` and `late` are history: whose own reviewer said yes, who may
read a line meant for another, and who ended after its context was done.

**RateLimiter** opens up `CheckLimits`: `Lock` is the mutex and the one reading
of the clock, `Visit` a turn of the loop. `charges` and `refusal` are history.

**TokenBuckets** has no clock, no mutex and no loop: a check is one step that finds
how far through the limits its request gets, takes the tokens up to there and
answers; buckets fill up between checks by any amount they have room for. This is
how `Guard` takes a check. `RateLimiter!Atomic` is the refinement mapping: a check
happens when it returns. Until then the tokens that the caller in the loop has
taken (`PaidSoFar`) count as still there, and a bucket's level is what it has of
whole tokens and those (`Level`); one not made yet is empty.

**RedisLimiter** takes `Check` command by command; `IncrLost` is a command that
was executed and whose answer was lost, `Crash` the end of a guard, and
`WindowPasses` Redis expiring a key. A counter is that of a limit's name and of the
tool, the agent or neither, so limits of one name share it, as `redisBucketKey` has
it.

**HotReload** has the file (`content`, `writing`), the watch, the unread events
and the goroutine that reads and installs; its specification is `WatcherSpec`, so
that one module of proofs can extend it and `Lifecycle`. **AuditPipeline** has the channel, the
consumer, the batch and who holds what of it, the ticker and main.

**Evaluation** takes `Evaluate` apart: `Enter` and `Leave` are the read lock (a
waiting writer bars new readers, as `sync.RWMutex` does), `Match` a turn of the
loop over the rules, `InWindow` the arithmetic of `isInTimeWindow` on a clock of
half minutes, `Look`, `LockCel` and `Compile` the three parts of `getOrCompile`. A
job is a call, judged once, or a `tools/list` answer, judged entry by entry by
`FilterToolsList` (`Begin` on), or passed on as it is when it does not unmarshal
(`PassWhole`); `AskLock` and `Reload` are the writer. `basis`, `seen` and
`span` are history: the policy each Evaluate entered under, the policies and the
minutes a job has met.

**Lifecycle** has the two goroutines of stdio's `Run` as `loop` and `relay`, the
pipes between the guard and its child with a capacity, the child as environment
(`Takes`, `Answer`, `ChildExits`, `Crash`; the constant `Exits` is how it may end
without being killed), and the process as `main`: running `Run`, closing the parts,
or gone. A client line is only what its handling does:
forwarded, refused, or held by an approver. `trail` is whether the pipeline
holds a record, which is all that flushing is about. The bridge's one loop and
the HTTP listener are the other two modes of the same module.

**FileRotation** numbers the records and has, for each file name, the set of
records in it. `Emit`, `Shift` (one rename a step), `RemoveOverflow`, `Reopen` and
`WriteOn` are `Emit` and `rotate`; each operation may fail, as the code ignores
its errors, and `Stop` may come between any two.

`PROJECT.json`'s `map` gives the lines of every definition. A definition whose
name ends in `_` is a mutant: the definition with the same name under it, with a
bug that a change to the code could bring. Each property of a passing run is
violated by one of them, so none of them is vacuous.

## 3. What the runs check

| run | properties | what it shows |
|---|---|---|
| `guard` | `TypeOK`, `PassedWithLeave`, `ArrivesAsDecided`, `OneFate`, `LeavesATrail`, `SilenceIsTheServers`, `NoOverspend`, `KeepsThePromise`, `Settles` | in each of the three modes, two messages whose handlers interleave with each other and with replacements of the policy are forwarded only with leave, get what was decided, are answered at most once, and leave true and complete records and alerts; two handlers never share the last token; the handlers implement `ToolGate` with its fairness, and each comes to an end or waits for the person at the terminal |
| `evaluation` | `TypeOK`, `VerdictIsAPolicys`, `ListIsTrue`, `CompiledOnce`, `AllReturn` | to its callers `Evaluate` is one step, under one policy; a tool is shown or hidden as some policy in force while the list was filtered says, or the answer did not unmarshal and is shown whole; the cache compiles an expression once; no order of readers, writers and compilers blocks |
| `lifecycle` | `TypeOK`, `NothingLeftBehind`, `SessionEnds` | when `Run` returns the client has every line the child wrote, in order; a session that the client or a signal ends does end, with the exceptions named in the property |
| `audit` | `TypeOK`, `LogInOrder`, `Accounted`, `BatchesAreStretches`, `CloseKeepsAll`, `RecordsMoveOn` | what the channel accepted is logged in order, is in one place only on its way to the endpoint, and is lost only with a failed POST or an abrupt exit; Close returns, and what was accepted gets out of the batch |
| `rotation` | `TypeOK`, `OnlyOldestGoes`, `EnoughKept` | the log is in order whatever fails; without failures only its oldest part goes, and as much is kept as `max_files` says, less a file for each stop inside a rotation |
| `limiter` | `TypeOK`, `WithinRate`, `RefusedInTheWindow`, `ChecksAreAtomic` | a bucket never pays more than its rate, and a refusal is always due; however calls and the clock interleave, a check is as good as one step (`TokenBuckets`) |
| `redis` | `TypeOK`, `SharedLimitHolds`, `UnexpiringIsFaulty` | guards that share counters admit no more than the limit, and interleaving alone never leaves a counter that cannot expire |
| `approval` | `TypeOK`, `ApprovedByItsReviewer`, `NoLateVerdict`, `HandleReturns` | an approval is that of the request's reviewer, polled verdicts are in time, circular chains end |
| `reload` | `WatcherTypeOK`, `SettledIsCurrent`, `SavedTakesEffect` | no interleaving of saving and loading leaves an old or a half document in force while the watch stands |
| `guard_card_reload`, `reload_configmap`, `lifecycle_signal` | one each | the disagreements of section 7 |

`LeavesATrail` is the conjunction of `TrailIsTrue`, `TrailIsComplete` and
`EscalatesAsDecided`, `SessionEnds` of `ClientEndsIt` and `SignalEndsIt`, and
`RecordsMoveOn` of `CloseReturns` and `NothingLingers`.

Deadlock is checked in `guard`, `lifecycle`, `limiter`, `audit` and `approval`
(`audit`, `lifecycle` and `approval` say with `Gone` and `Idle` when the system has
ended; in `guard` a policy file can be saved again at any time; in `limiter` a
caller can always call, so a mutex left locked would show). `redis`, `reload`,
`rotation` and `evaluation` turn it off: the bound on the counters' lives ends the
first, in the second a document whose watch is lost may never be saved again, in
the third the bounds on records and restarts end the run, and in the fourth the
jobs are done and `AllReturn` says that nothing less happens.

## 4. Bounds

- `guard`: two calls, four messages (one that a filter blocks, one that it flags,
  one of another agent, one that does not parse), four policy documents of which
  one does not load, three modes. Two handlers are what the races need: the
  properties speak of one call, or of two that share a bucket, and reloads may
  come between any two steps. The documents hold every decision, both audit
  flags, a time window, two overlapping limits, two overlapping filters, a card
  and an approval on a channel the startup registry lacks. `Refills` is off, so
  that `NoOverspend` has something to count: the refill is `RateLimiter`'s.
- `evaluation`: an answer of three entries, one of them unreadable, an answer that
  does not unmarshal, and a call of one of their tools; two policies with windows on even and on odd minutes, on no
  minute and unparsable, and expressions that hold, do not, and do not compile;
  two reloads, so that a policy may come back; a clock of two minutes' length in
  half minutes (`MaxTime`), so that a minute may end inside an `Evaluate`.
- `lifecycle`: three client messages, two lines of the child for each, pipes of one
  line (`PipeCap`), so that both fill at once: the properties speak of a line, its
  neighbour and the two ends of a pipe. The child may end with code 0 or with
  another (`Exits`). In `lifecycle_signal` it never ends by itself (`Exits` is
  empty), so that nothing but the signal's kill can fail it, and one message and
  one answer do.
- `rotation`: files of two records, up to three of them and ten records, so that
  the log wraps and is cut; one restart, with any of the limits.
- `audit`: four records, a channel of two and batches of two: enough to overflow
  the channel, fill a batch, and have consumer, ticker and main each hold one.
- `limiter`: two callers, two limits that share a tool, with windows of 2 and 3
  and a clock that stops at 4: a bucket empties, refills in part and in full, and
  is refused in between.
- `redis`: two handlers (of one guard or two), three limits, of which two of
  different size share a name and so a counter; a counter takes at most `MaxCount` =
  3 commands in a life, one more than the larger limit, and has `MaxLife` = 2 lives.
  The handlers are interchangeable, and the run checks invariants only, so TLC may
  take them as symmetric.
- `approval`: two requests, six channel names: two terminals in a circle, one that falls
  back to a webhook, a Slack channel with no way back, and an undefined name; at most two unread lines (`MaxLines`). Two prompts are what
  sharing a terminal needs.
- `reload`: three documents of which one is rejected, a torn file that does load
  (the worse case; `reload_configmap` takes one that does not), two unread events
  (`MaxEvents`), and the watch on the file, on its directory, or refused.

## 5. Fairness

- `Guard`: weak fairness of each handler, except while it reads the terminal.
  Goroutines are scheduled; HTTP clients have timeouts (`tlsconfig.go:64`); service
  approvals have deadlines (`http.go:232-237`). The client need not send, the child need not
  answer, nobody need edit the file or type.
- `AuditPipeline`: weak fairness of the consumer, of the ticker and of Close once
  begun: goroutines, a ticker, and a client with a 10 s timeout.
- `Approval`: weak fairness of each step the process takes by itself, of the
  deadline, and strong fairness of `GiveUp`: a `select` that finds both the
  ticker and the closed context ready picks at random, so it cannot take the tick
  for ever. No line need be typed and no reviewer need decide.
- `Evaluation`: weak fairness of each job's steps and of the writer, since
  goroutines are scheduled. A reader finds the lock barred only while a writer
  waits, and the reloads are finitely many, as saves of a file are.
- `Lifecycle`: weak fairness of the two goroutines, of the kill that follows a
  cancelled context, of the consumer and of Close; and of a child that reads its
  input, answers and exits at the end of it, as MCP asks of a stdio server, where
  `Exits` lets it end at all. A POST
  and a service's approval have deadlines. Nobody need type at the terminal, hang
  up or send a signal, and a child need not fail.
- `HotReload`: weak fairness of the watcher's goroutine, and of an editor that has
  truncated the file and has still to fill it.
- `RateLimiter`, `RedisLimiter` and `FileRotation` state safety only.

## 6. What is proved

All proofs are checked by `tlapm`, from the modules the runs check, with no
constant fixed: any number of calls, documents, rules, limits, callers.

| theorem | says |
|---|---|
| `GuardProofs!Typing` | `Spec => []TypeOK` |
| `GuardProofs!PhaseInvariant` | `Spec => []Phased`, the invariant behind the next three |
| `GuardProofs!NothingPassesWithoutLeave` | `Spec => []PassedWithLeave` |
| `GuardProofs!EveryCallHasOneFate` | `Spec => []OneFate` |
| `GuardProofs!GuardIsAToolGate` | `Guard` implements `ToolGate` but for its fairness |
| `GuardProofs!LimitsHold` | `Spec => []NoOverspend` |
| `GuardProofs!AccountInvariant` | `Spec => []Account`, the invariant behind the next three |
| `GuardProofs!WhatArrivesWasDecided` | `Spec => []ArrivesAsDecided` |
| `GuardProofs!EveryCallLeavesATrail` | `Spec => []LeavesATrail` |
| `GuardProofs!NoSilentRefusal` | `Spec => []SilenceIsTheServers` |
| `EvaluationProofs!EvaluationTyping` | `Spec => []TypeOK` |
| `EvaluationProofs!EvaluateIsOneStep` | `Spec => []VerdictIsAPolicys` |
| `EvaluationProofs!EvaluationIsTheEngines` | `Spec => []JudgedInOneStep`: within a minute, the verdict is that of `Guard`'s one step |
| `EvaluationProofs!WhatAReloadForgets` | of any document: which verdicts a reload of it changes, and to what |
| `EvaluationProofs!ListsAreTrue` | `Spec => []ListIsTrue` |
| `EvaluationProofs!CompileOnce` | `Spec => []CompiledOnce` |
| `ApprovalProofs!ApprovalTyping` | `Spec => []TypeOK` |
| `ApprovalProofs!NothingApprovedLate` | `Spec => []NoLateVerdict` |
| `ApprovalProofs!TerminalsAlonePass` | `Spec => []OnlyTerminalsArePassed` |
| `ApprovalProofs!ApprovalIsItsReviewers` | `Spec => []ApprovedByItsReviewer` |
| `ProcessProofs!SessionTyping` | `Spec => []TypeOK`, of `Lifecycle` |
| `ProcessProofs!NothingIsLost` | `Spec => []NothingLeftBehind` |
| `ProcessProofs!ReloadTyping` | `WatcherSpec => []WatcherTypeOK`: one load at a time, nothing unloadable in force |
| `ProcessProofs!RestIsCurrent` | `WatcherSpec => []SettledIsCurrent` |
| `RateLimiterProofs!LimiterTyping` | `Spec => []TypeOK`: no bucket is overdrawn or overfull |
| `RateLimiterProofs!RateIsKept` | `Spec => []WithinRate` |
| `RateLimiterProofs!RefusalsAreDue` | `Spec => []RefusedInTheWindow` |
| `RateLimiterProofs!EveryCheckIsOneStep` | `Spec => ChecksAreAtomic`: `RateLimiter` implements `TokenBuckets` |
| `RedisLimiterProofs!RedisTyping` | `Spec => []TypeOK` |
| `RedisLimiterProofs!TheSharedLimitHolds` | `Spec => []SharedLimitHolds` |
| `RedisLimiterProofs!OnlyFaultsLeaveNoExpiry` | `Spec => []UnexpiringIsFaulty` |
| `AuditProofs!PipelineTyping` | `Spec => []TypeOK` |
| `AuditProofs!TheLogIsInOrder` | `Spec => []LogInOrder` |
| `AuditProofs!RecordsAreAccounted` | `Spec => []Accounted` |
| `AuditProofs!BatchesAreCut` | `Spec => []BatchesAreStretches` |
| `AuditProofs!CloseKeepsEverything` | `Spec => []CloseKeepsAll` |
| `FileRotationProofs!RotationTyping` | `Spec => []TypeOK` |
| `FileRotationProofs!OnlyTheOldestGoes` | `Spec => []OnlyOldestGoes` |
| `FileRotationProofs!EnoughIsKept` | `Spec => []EnoughKept` |

**Guard.** `PassedWithLeave` says nothing of a handler that is about to forward,
so it is not inductive. The invariant is `TypeOK /\ Phased`: a call is in one of
eight phases, each tying where its handler is to what it has still to do (a plan
has exactly one decisive effect, a forward, a reply or an ask, and otherwise
records and alerts), what has left the process, and what its decision rested on.
`Leave` is part of the phases `Cleared`, `Posted` and `Offered`, and it is stated
of `basis`, not of `eng`: that is why a reload disturbs no phase. The lemmas
`LimitedOrBlockedRefuses`, `DecidedPlan` and `SettledPlan` say what each
transport's code can make a handler do; `TailOfPlan` what performing one effect
leaves; then each action has a lemma on the phases it leads between
(`ReceivePhase` to `ChildAnswersPhase`) and `OthersUntouched` frames the other
calls. `GateView` reads off each phase what `ToolGate` sees, and `GateStep` makes
each action a step of `ToolGate` or a stutter. Assumptions: `GuardAssumption` and
`NilAssumption` (the constants are of their types and `Nil` is none of their
values) and `TerminalAssumption` (the channel a card names is a channel name).

That the limits hold is counted: `Past(k)` is the set of calls that a key of a
limit let by and no other limit, filter or rule has refused, and `Thrift` says that
they and the tokens left are within the limit. Only `CheckLimits` adds to the set,
and then every limit that applies was found with a token and charged it
(`AllVisited`; `Least` finds the first empty limit, if there is one). That a refused
call does not come back into the set is a fact of `ToolGate`, taken from
`GuardIsAToolGate` (`RefusedStays`).

What a call leaves behind it is told by plans once more, by what they carry and in
which order: `Ordered` says that nothing follows a question and only alerts follow a
record. `ActIs` and `DecidedCarries`, `RefusalCarries` and `SettledCarries` read that
off each transport's code. The invariant `Kept` of a call then has two halves for
each kind of effect, what was done and what is to come: a body sent or to be sent is
that of the decision (`Faithful`); a record made or to be made fits the fate of the
call (`Named`); one that is due is made or to come, or a question is (`Remembered`);
so is an alert (`Alerted`); and of an offered call nothing is heard only where a
failure is not reported (`Heard`). `TailKeeps` moves one effect from the second half
to the first. The records need that the channel of an approval is never empty, or the
handler would refuse without one: `NamesItsChannels` is an invariant of the engine
since `validate` and `DeriveRules` give it for each document that loads.

**Evaluation.** The verdict is found rule by rule, so the invariant speaks of the
loop: `Judging` says that the engine is still the one Evaluate entered with, since
a writer waits for the readers, that each rule passed failed in one of the minutes
met, and that the one whose expression is looked up or compiled matches but for
it. `RuleVerdict` and `DefaultVerdict` make a verdict of that (`Given`), and
`VerdictsGrow` lets more minutes pass. `Listing` has, of each list that unmarshals,
so far, the places its entries come from, which `ListGrows` extends; of one that
does not, that it is shown whole, which is all that can be said of it. That a window is open
just in the minutes its schedule names, or always when it names none, is the lemma
`WindowOfAMinute` on the next firing after a minute ago; it rests on every period
having such a minute (`FiresAgain`). Assumptions: `EvaluationAssumption` and
`JobAssumption`: among them that a list is judged without arguments, and that an
expression that does not compile holds of none.

That the first rule to match is one at most is `FirstIsUnique`, and that there is one
if any matches `SomeFirst` (by `LeastOf`). With them the verdicts Evaluate may give
within one minute are a single one, `PolicyEngine`'s `Evaluate`
(`OneMinuteOneVerdict`), which is what entitles `Guard` to take it in one step. They
also give what a reload does to a document with a card, for every document
(`WhatAReloadForgets`): the run `guard_card_reload` shows one call that gets another
verdict, the theorem says exactly which do.

**RateLimiter.** The invariant `IInv` adds to the types: the mutex admits one
caller; no bucket is stamped later than the time of the caller in the loop, nor
that later than the clock (this is what reading the clock under the mutex gives);
and every bucket's account is sound. An account relates a bucket's tokens to the
history of its charges from both sides: it holds no more than what it could have
saved up since any earlier charge (`NotMore`, which gives the rate) and no less
than its capacity minus the charges younger than a full refill (`NotLess`, which
makes a refusal due). `RefilledSound` and `PaidSound` keep the account through the
two things that happen to a bucket.

The refinement needs three facts more (`AtomicInv`): a caller has a request from its
call to its return (`Asking`), the clock of the caller in the loop is not past
(`Recent`), and it has made each bucket that it has charged (`Made`). Buckets count in
fractions of a token, so `Whole` rounds down, and the lemmas from `WholeParts` to
`WholeWithin` say what a payment and a refill do to it. A turn of the loop that
finds a token is then a refill and no more: the token it takes is added to
`PaidSoFar`, and the level stays (`AdmitStep`). A turn that finds none, and the one
after the last limit, are the steps in which the whole check happens
(`ExceedStep`, `PayStep`); what it took in between is `Taken`, counted over the limits
passed, since limits that share a name share a bucket (`SpentCounts`, `TakenIs`).
Nobody else can see the difference because the mutex keeps every other caller out
of the loop (`EndsAtOnce`): without it the mapping fails, as the mutant of
`ChecksAreAtomic` shows. Assumption: `LimiterAssumption`.

**RedisLimiter.** That no two checks hold one number of a counter is not inductive:
nothing keeps the counter from giving out a number again. `AllGiven` says that every
number held or admitted is of an earlier life of its counter or not above the
counter, so an `INCR` gives a new one, and `Held` that a check that goes on holds
only numbers within the limits, but for the one it has still to compare.
A number is that of a counter, whichever limit asked for it, so two limits of one
name give out no number twice either. `Unexpiring`,
for the counters without an expiry, says that each is marked by a fault or has its
first caller between `INCR` and `EXPIRE` (`Pending`). Assumption: `RedisAssumption`.

**AuditPipeline.** `Stages` ties where consumer, ticker and main are to what they
hold. `LogInOrder` is inductive from there: `Ahead` is what the file has still to be
given. Of the batch, `Placed` says that each of the places on the way to the endpoint
holds distinct records and no two places share one, with what was lost apart; the
three things that happen, a record entering, a batch changing hands and a batch
posted or lost, are the lemmas `Entered`, `Exchanged`, `Sent` and `Lost`. For the
stretches, `Cuts` says that the accepted records are what went before, the batch,
what the consumer holds for it and the channel, in this order, and that what a
goroutine holds is cut from them. `CloseKeepsAll` follows from the places that are
empty once Close returned. The order of the outputs is a constant; the `audit` run
has the webhook before the file. Assumption: `PipelineAssumption`.

**Approval.** The first invariant is `TypeOK` and, of each request, `Good`: a
prompting request is on a terminal's channel, only a request that has ended is
late, and the two properties' parts for it. A request moves in one of two ways,
on to another stage (`GoneOn`) or to its end (`Returned`), and `GoodFrame` leaves
the others alone. The second, `Asked`, rests on the first: every yes that is held
somewhere, in a service's verdict or on the terminal's line, was said by the
reviewer of the request it was said to, and a request at the terminal that is not
`exposed` is alone there with the lines (`OwnsTty`). Without the second part the
line a handler reads could be anyone's. Assumption: `ApprovalAssumption`.

**HotReload.** `SettledIsCurrent` speaks of rest; the invariant says what carries
it there: while no event waits and no change went unseen, the goroutine has the
present content in hand, has installed it, or has still to read it (`InHand`). A
change puts an event in the way of the hypothesis (`NotifiedWaits`) or is
`missed`. Assumption: `ReloadAssumption`.

**Lifecycle.** `NothingLeftBehind` is about the moment at which `Run` has returned. Its
invariant is about the lines on their way: what the relay has passed on, followed
by what is in the pipe, is what the child wrote, and a line torn in the middle is
the last one of a child that is dead (`Intact`); a relay that has ended either was
deaf, having met a line too long for its scanner, or found the pipe empty and the
child gone, and stdio's `Run` goes on to close the parts only after it (`Heard`).
`Owing` ties the child's being busy to the lines it still owes. `MovesTheHead`
and `PutsBehind` are what the relay and the child do to the two sequences.
Assumption: `LifecycleAssumption`.

**FileRotation.** That only the oldest records go needs two facts of the files
that the property does not mention. `Fresh`: a file holds only what was written,
and the record that waits for a rotation is newer than all of it, so what is
written goes on top (`PutKeeps`). `Tidy`: while nothing has failed, no file is
numbered above `max_files`, and a rename finds its new name free unless it is the
first of the rotation, which replaces the oldest file (`ShiftKeeps`); a stop in
the middle leaves a hole, which `Tidy` allows. That enough is kept needs the
holes counted: `Ample` says that the holes left below a file (`Gaps`, without the
one the next rename is to fill) are at most as many as the stops, that every file
but the one being written is full (`Full`), and that a file goes only once the
full ones are `max_files` but for the holes; a rename of what is not there moves
the hole on (`ShiftAmple`). `FullFiles` turns full files into records: an injection
of their places into what they hold, since the order keeps them disjoint.
Assumption: `RotationAssumption`.

**Model-checked only.** Liveness (`Settles`, `KeepsThePromise`'s fairness,
`AllReturn`, `SessionEnds`, `RecordsMoveOn`, `HandleReturns`, `SavedTakesEffect`) is
out of the prover's reach. Every safety property of a passing run is proved.

## 7. Where the code and its documents disagree

Each has a run that shows it.

| run | document | code |
|---|---|---|
| `guard_card_reload` | `docs/agent-card.md:41`: all policy comes from the card | started with a card-only policy, the guard has no rule left after the first reload, even of the same document |
| `reload_configmap` | `watcher.go:21`: works with ConfigMap mounts | the watch is on the file, and goes with its replacement |
| `lifecycle_signal` | `docs/audit.md:110`: the pipeline flushes on shutdown | a signal in stdio mode kills a child that does not end by itself; once the client's input has ended too, `Run` returns that as an error, and `os.Exit(1)` skips the flush |

Others were met on the way, and each is read off a line or two: bridge mode
records no blocked, approved, rejected or mutated call (`docs/audit.md:3`: every
intercepted call), fires nothing when a limit is exceeded
(`docs/rate-limiting.md:59`), and, like HTTP mode, nothing when a filter matches
(`docs/content-filters.md:71`); an earlier flag filter that matches hides the
block filter after it (`docs/content-filters.md:32`); `callback_mode` is stored and
never read (`docs/approval.md:52`); `on_timeout` is parsed and never used
(`docs/approval.md:87`); delegation rules are never consulted
(`docs/approval.md:134`); a filter's redact action redacts nothing
(`docs/content-filters.md:33`), and its flag action marks no audit record
(`docs/content-filters.md:34`; no transport looks at the action beyond block); limits, filters and escalation do not reload
(`docs/hot-reload.md:40-46` against `main.go:157-165`); the card is not watched
(`docs/agent-card.md:18`); `README.md:26` calls the Redis limiter a token bucket,
and it is a fixed window; a lost reply, a failed EXPIRE or a stop between the two
leaves a counter without the expiry of `docs/rate-limiting.md:55`, for ever
(`redis.go:55-63`; `UnexpiringIsFaulty` says that nothing else does); Close does
not wait for a POST the ticker has begun (`emitters.go:224-228`; `CloseKeepsAll`
counts such a batch apart); the terminal's read outlasts the "max wait for all
channels" of `docs/approval.md:86`, and its answer counts (`terminal.go:58`); a
window whose date never comes, such as 30 February, is always open
(`timewindow.go:39`), against `docs/rules.md`'s "only matches during minutes that
match", and the cron `0 0 * * 5-0` of `docs/rules.md:94` does not parse, so its
rule never matches; a list is judged with no arguments, so a rule with a CEL
expression may hide a tool that calls with other arguments may use, or show one
that they may not; a `tools/list` result that does not unmarshal, say for a `cursor`
that is no string, is passed on whole, denied tools among it (`filter.go:29-31`),
against `README.md:30`'s "denied tools hidden from agent discovery" (`PassWhole`;
`ListIsTrue` names the exception); `FilterToolsList` drops every field of a result but `tools` and
`cursor`, the protocol's `nextCursor` among them.

## 8. What is abstracted and what is not modelled

- A message is its kind, tool, agent and content; the content is a model value that
  patterns find or not, CEL expressions hold of or not, and mutations apply to or
  not. Patterns of tool names are the sets of names they match.
- In `Guard` a time window is open or closed for the whole of one `Evaluate`; in
  `Evaluation` the clock is read rule by rule, as in the code.
- A document is loadable or not: YAML, the JSON Schema and the expansion of
  environment variables are left out; the checks of `validate` are in `Loadable`.
- In `Guard` limits have distinct names, tokens are whole, and a refill is any
  amount up to the capacity; `RateLimiter` has names, the clock and the exact
  amounts. Floating-point error is left out of both, and a window is at least one
  tick: a window of zero, which the schema admits, makes the code divide by zero
  and the limit void (a hazard without a property).
- In `FilterToolsList` the error of `json.Marshal` (`filter.go:49-51`) has no action:
  what it marshals are raw messages and a string just unmarshalled, which always
  marshal.
- In `RedisLimiter` a counter's key is a pair, where the code joins strings with a
  colon: an agent whose name is `global`, or names that hold colons, may meet another
  counter in the code and do not in the module. Each handler is its own guard where it stops; a guard with
  several handlers stopping is several of its `Crash` steps.
- The file emitter rotates in `FileRotation` alone; the stderr emitter behaves as a
  file that does not. Files are measured in records, not in bytes.
- In `Lifecycle` a line is forwarded or refused by choice, which `Guard` decides;
  handlers of the HTTP mode are counted. A write to a client that has left ends
  the process (SIGPIPE).
- Escalation senders are fire-and-forget: `alerts` is what was fired, not what
  arrived.
- Not modelled: the keepalives of an SSE response (what they may corrupt is the
  text of the stream, and no module has it); redaction, mutation's JSON edits,
  message parsing (pure rewriting of text no property is about); time zones; the
  compiler and interpreter of CEL, TLS, OpenTelemetry (calls into libraries);
  delegation and response filters (called by no code but tests).

## 9. Plan

Done: `PolicyEngine`, `Transports`, `Guard`, `ToolGate` and their proofs first,
because everything the program is for happens there; then the parts whose inside
`Guard` takes in one step, in the order of what hangs on them: `AuditPipeline`,
`Approval`, `HotReload`, `RateLimiter` with proofs, `RedisLimiter`; then what lies
around and under them: `Lifecycle`, `Evaluation` and `FileRotation`, with proofs. Of
the steps that `Guard` takes at once, two are justified from inside: a check of the
limits by `TokenBuckets`, an evaluation by `EvaluationIsTheEngines`.

Next: refinements in which `Approval` implements `Guard`'s Ask and Settle, and
`AuditPipeline` a lossy queue; and a windowed limiter whose window may be zero, with
the floating-point infinities this brings.

## Running it

`tlc -config guard.cfg MCGuard` checks a run (`PROJECT.json` names the module of
each), `tlapm GuardProofs.tla` a module of proofs.
