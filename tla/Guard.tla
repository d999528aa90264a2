------------------------------- MODULE Guard --------------------------------
(***************************************************************************)
(* mcp-policy-guard between an MCP client and an MCP server: the handlers  *)
(* of the transport selected at startup take messages through the rate     *)
(* limiter, the request filters and the policy engine and then perform the *)
(* effects Transports.tla gives, while the file watcher swaps the engine's *)
(* policy under them.                                                      *)
(*                                                                         *)
(* A handler is a goroutine of net/http in the HTTP proxy and the one loop *)
(* over standard input in the other two modes.  Its local variables are    *)
(* stage, request, result and todo; eng and budget are shared under their  *)
(* locks.  sent, replies, trail and alerts are what leaves the process;    *)
(* basis and outcome remember what a decision rested on.                   *)
(***************************************************************************)
EXTENDS Transports, FiniteSets

CONSTANTS
    Calls,      \* messages the client sends; each is handled once
    Messages,   \* what a message may carry
    OwnAgent,   \* the identity stdio and bridge mode speak for
    Transport,  \* the modes the process may be started in
    Files,      \* documents the policy file may hold, loadable or not
    Unhurried,  \* channels that read a terminal and so have no deadline
    Lossy,      \* whether the server may be gone or fail to answer
    Refills     \* whether time passes for the rate limiter

Message == [kind : Kinds, tool : Tools, agent : Agents, content : Content]

\* What a decision rests on: the policy and the windows open at the time.
Basis == [eng : EngineState, open : SUBSET Windows]

ASSUME GuardAssumption ==
    /\ Messages \subseteq Message /\ Files \subseteq PolicyFile
    /\ OwnAgent \in Agents /\ Transport \subseteq Modes /\ Unhurried \subseteq Channels
    /\ Lossy \in BOOLEAN /\ Refills \in BOOLEAN
    /\ Nil \notin Messages /\ Nil \notin EvalResult /\ Nil \notin Basis

VARIABLES
    mode,     \* the transport, fixed at startup
    boot,     \* the policy document read at startup
    eng,      \* engine.Engine: rules and defaults
    budget,   \* Limiter.buckets: whole tokens per limit and key value
    stage,    \* where the handler of a call is
    request,  \* the message it handles
    result,   \* its EvalResult
    todo,     \* the effects it has still to perform
    sent,     \* what the server received for the call
    replies,  \* what the client received for it
    trail,    \* the records handed to the audit pipeline for it
    alerts,   \* the escalations fired for it
    basis,    \* the policy and the open windows its result was computed from
    outcome   \* how its approval ended

world  == <<sent, replies, trail, alerts>>
fixed  == <<mode, boot>>
shared == <<eng, budget>>
vars   == <<fixed, shared, world, stage, request, result, todo, basis, outcome>>

Stages   == {"idle", "limits", "filters", "rules", "effects", "asking",
             "upstream", "done"}
Outcomes == {"approved", "rejected", "error"}
Answers  == Refusals \cup {"result", "bad_gateway"}

\* bucketKey: the tokens of limit i are kept per agent, per tool or once.
\* Limits of one document are taken to have distinct names.
KeyValue(limit, m) == CASE limit.key = "tool"   -> m.tool
                        [] limit.key = "global" -> Nil
                        [] limit.key = "agent"  -> m.agent
LimitKeys(file) == (DOMAIN file.limits) \X (Agents \cup Tools \cup {Nil})
FullBudget(file) == [k \in LimitKeys(file) |-> file.limits[k[1]].requests]

Init ==
    /\ mode \in Transport
    /\ boot \in {f \in Files : Loadable(f)}
    /\ eng = StartEngine(boot)
    /\ budget = FullBudget(boot)
    /\ stage = [c \in Calls |-> "idle"]
    /\ request = [c \in Calls |-> Nil] /\ result = [c \in Calls |-> Nil]
    /\ basis = [c \in Calls |-> Nil] /\ outcome = [c \in Calls |-> Nil]
    /\ todo = [c \in Calls |-> <<>>] /\ sent = [c \in Calls |-> <<>>]
    /\ replies = [c \in Calls |-> <<>>] /\ trail = [c \in Calls |-> <<>>]
    /\ alerts = [c \in Calls |-> {}]

-----------------------------------------------------------------------------
\* Reading a message.  Standard input is read by one loop, which takes the
\* next line when it has finished with the last.
Receive(c, m) ==
    /\ stage[c] = "idle"
    /\ mode # "http" => /\ m.agent = OwnAgent
                        /\ \A d \in Calls : stage[d] \in {"idle", "done"}
    /\ request' = [request EXCEPT ![c] = m]
    /\ IF Intercepts(m.kind)
       THEN stage' = [stage EXCEPT ![c] = "limits"] /\ UNCHANGED todo
       ELSE /\ stage' = [stage EXCEPT ![c] = "effects"]
            /\ todo' = [todo EXCEPT ![c] = Verbatim]
    /\ UNCHANGED <<fixed, shared, world, result, basis, outcome>>

\* The handler of c goes on to perform a plan.
Plan(c, plan) == /\ todo' = [todo EXCEPT ![c] = plan]
                 /\ stage' = [stage EXCEPT ![c] = "effects"]

\* Limiter.Check, under its mutex: the limits that apply are visited in
\* order, each refilled for the time passed since it was last visited and
\* charged one token, up to the first that has none.
Applying(m) == {i \in DOMAIN boot.limits : m.tool \in boot.limits[i].tools}
BucketKey(i, m) == <<i, KeyValue(boot.limits[i], m)>>
Full(i) == boot.limits[i].requests
Levels(m) ==
    {level \in [Applying(m) -> UNION {0 .. Full(i) : i \in Applying(m)}] :
        \A i \in Applying(m) :
            /\ level[i] >= budget[BucketKey(i, m)] /\ level[i] <= Full(i)
            /\ Refills \/ level[i] = budget[BucketKey(i, m)]}
Visited(m, level) == {i \in Applying(m) : \A j \in Applying(m) : j < i => level[j] # 0}
Short(m, level)   == {i \in Visited(m, level) : level[i] = 0}
ChargeUnguarded_(m, level) ==              \* an empty bucket is charged too
    [k \in DOMAIN budget |-> IF \E i \in Visited(m, level) : k = BucketKey(i, m)
                             THEN level[k[1]] - 1 ELSE budget[k]]
ChargeFirst_(m, level) ==                  \* only the first limit is charged
    [k \in DOMAIN budget |->
        IF \E i \in Visited(m, level) : k = BucketKey(i, m) /\ \A j \in Applying(m) : i <= j
        THEN IF level[k[1]] = 0 THEN 0 ELSE level[k[1]] - 1
        ELSE budget[k]]
Charge(m, level) ==
    [k \in DOMAIN budget |->
        IF \E i \in Visited(m, level) : k = BucketKey(i, m)
        THEN IF level[k[1]] = 0 THEN 0 ELSE level[k[1]] - 1
        ELSE budget[k]]

CheckLimits(c) ==
    /\ stage[c] = "limits"
    /\ \E level \in Levels(request[c]) :
          /\ budget' = Charge(request[c], level)
          /\ IF Short(request[c], level) = {}
             THEN stage' = [stage EXCEPT ![c] = "filters"] /\ UNCHANGED todo
             ELSE \E i \in Short(request[c], level) : Plan(c, OnLimited(mode, boot.limits[i]))
    /\ UNCHANGED <<fixed, eng, world, request, result, basis, outcome>>

\* contentFilter.CheckRequest; only a first finding whose action is "block"
\* stops the call, any other finding is not used.
CheckFilters(c) ==
    /\ stage[c] = "filters"
    /\ LET blocking == Blocking(boot.filters, request[c].tool, request[c].content)
       IN IF blocking = {}
          THEN stage' = [stage EXCEPT ![c] = "rules"] /\ UNCHANGED todo
          ELSE \E i \in blocking : Plan(c, OnBlocked(mode, boot.filters[i]))
    /\ UNCHANGED <<fixed, shared, world, request, result, basis, outcome>>

\* engine.Evaluate under its read lock, at whatever time of day it is, and
\* the switch on the decision.
EvaluateRules(c) ==
    /\ stage[c] = "rules"
    /\ \E open \in SUBSET Windows :
          LET verdict == Evaluate(eng, open, request[c].tool, request[c].agent,
                                  request[c].content)
          IN /\ result' = [result EXCEPT ![c] = verdict]
             /\ basis' = [basis EXCEPT ![c] = [eng |-> eng, open |-> open]]
             /\ Plan(c, OnDecided(mode, verdict, request[c].content))
    /\ UNCHANGED <<fixed, shared, world, request, outcome>>

-----------------------------------------------------------------------------
\* The effects.  Doing(c, op) holds when the next one of c is an op.
Doing(c, op) == stage[c] = "effects" /\ todo[c] # <<>> /\ Head(todo[c]).op = op
Proceed(c) ==
    /\ todo' = [todo EXCEPT ![c] = Tail(@)]
    /\ stage' = [stage EXCEPT ![c] = IF Tail(todo[c]) = <<>> THEN "done" ELSE "effects"]

Delivered == IF Lossy THEN BOOLEAN ELSE {TRUE}
Deliver(c, arrives) ==
    sent' = IF arrives THEN [sent EXCEPT ![c] = Append(@, Head(todo[c]).as)] ELSE sent

\* stdio: the line is written to the child's standard input; a write error,
\* when the child has gone, is not looked at.
WriteToChild(c) ==
    /\ mode = "stdio" /\ Doing(c, "forward")
    /\ \E arrives \in Delivered : Deliver(c, arrives)
    /\ Proceed(c)
    /\ UNCHANGED <<fixed, shared, replies, trail, alerts, request, result, basis, outcome>>

\* The goroutine that relays the child's standard output.
ChildAnswers(c) ==
    /\ mode = "stdio" /\ sent[c] # <<>> /\ replies[c] = <<>>
    /\ replies' = [replies EXCEPT ![c] = Append(@, "result")]
    /\ UNCHANGED <<fixed, shared, sent, trail, alerts, stage, request, result, todo,
                   basis, outcome>>

\* http and bridge: the handler blocks until the server answers or the
\* request fails.
PostUpstream(c) ==
    /\ mode \in {"http", "bridge"} /\ Doing(c, "forward")
    /\ \E arrives \in Delivered : Deliver(c, arrives)
    /\ stage' = [stage EXCEPT ![c] = "upstream"]
    /\ UNCHANGED <<fixed, shared, replies, trail, alerts, request, result, todo, basis,
                   outcome>>

UpstreamAnswers(c) ==
    /\ stage[c] = "upstream" /\ sent[c] # <<>>
    /\ replies' = [replies EXCEPT ![c] = Append(@, "result")]
    /\ Proceed(c)
    /\ UNCHANGED <<fixed, shared, sent, trail, alerts, request, result, basis, outcome>>

\* forwardAndRelay answers 502; forwardAndRelaySSE, used after an approval,
\* and the bridge's forwardAndPrint return without a word.
FailsLoudly_(c) == FALSE                   \* the 502 is forgotten
FailsLoudly(c) ==
    mode = "http" /\ (result[c] = Nil \/ result[c].decision # "require_approval")
UpstreamFailsRetried_(c) ==                \* the request is sent again
    /\ stage[c] = "upstream" /\ Lossy
    /\ stage' = [stage EXCEPT ![c] = "effects"]
    /\ UNCHANGED <<fixed, shared, world, request, result, todo, basis, outcome>>
UpstreamFails(c) ==
    /\ stage[c] = "upstream" /\ Lossy
    /\ replies' = IF FailsLoudly(c)
                  THEN [replies EXCEPT ![c] = Append(@, "bad_gateway")] ELSE replies
    /\ Proceed(c)
    /\ UNCHANGED <<fixed, shared, sent, trail, alerts, request, result, basis, outcome>>

\* jsonrpc.MakeErrorResponse, written to the client.
ReplyError(c) ==
    /\ Doing(c, "reply")
    /\ replies' = [replies EXCEPT ![c] = Append(@, Head(todo[c]).as)]
    /\ Proceed(c)
    /\ UNCHANGED <<fixed, shared, sent, trail, alerts, request, result, basis, outcome>>

\* emitAudit: the record is redacted and handed to the pipeline.
EmitAudit(c) ==
    /\ Doing(c, "record")
    /\ trail' = [trail EXCEPT ![c] = Append(@, Head(todo[c]).as)]
    /\ Proceed(c)
    /\ UNCHANGED <<fixed, shared, sent, replies, alerts, request, result, basis, outcome>>

\* Dispatcher.Fire: a channel the startup document does not define is only
\* logged.
FireEscalation(c) ==
    /\ Doing(c, "alert")
    /\ alerts' = [alerts EXCEPT ![c] = @ \cup ({Head(todo[c]).as} \cap boot.contacts)]
    /\ Proceed(c)
    /\ UNCHANGED <<fixed, shared, sent, replies, trail, request, result, basis, outcome>>

\* approvalReg.Handle blocks the handler; Approval.tla has what happens
\* inside.  The registry knows the channels of the startup document only.
AskApproval(c) ==
    /\ Doing(c, "ask")
    /\ stage' = [stage EXCEPT ![c] = "asking"]
    /\ UNCHANGED <<fixed, shared, world, request, result, todo, basis, outcome>>

EndsFor_(channel) ==                       \* a channel nobody defined is waited for
    IF channel \in boot.channels THEN Outcomes ELSE {}
EndsFor(channel) == IF channel \in boot.channels THEN Outcomes ELSE {"error"}

Settle(c) ==
    /\ stage[c] = "asking"
    /\ \E how \in EndsFor(Head(todo[c]).as) :
          /\ outcome' = [outcome EXCEPT ![c] = how]
          /\ Plan(c, OnSettled(mode, how))
    /\ UNCHANGED <<fixed, shared, world, request, result, basis>>

-----------------------------------------------------------------------------
\* The watcher's callback: a document that loads replaces the engine's rules
\* and defaults under the write lock; one that does not is only logged.
Reload(file) ==
    /\ Loadable(file)
    /\ eng' = ReloadedEngine(file)
    /\ UNCHANGED <<fixed, budget, world, stage, request, result, todo, basis, outcome>>

Handler(c) ==
    \/ CheckLimits(c) \/ CheckFilters(c) \/ EvaluateRules(c)
    \/ WriteToChild(c) \/ PostUpstream(c) \/ UpstreamAnswers(c) \/ UpstreamFails(c)
    \/ ReplyError(c) \/ EmitAudit(c) \/ FireEscalation(c)
    \/ AskApproval(c) \/ Settle(c)

Next == \/ \E c \in Calls, m \in Messages : Receive(c, m)
        \/ \E c \in Calls : Handler(c) \/ ChildAnswers(c)
        \/ \E file \in Files : Reload(file)

\* The handler of c is in TerminalHandler.RequestApproval, which looks at its
\* deadline only between lines of input.
AtTerminal(c) == stage[c] = "asking" /\ Head(todo[c]).as \in Unhurried \cap boot.channels

\* A handler that can take a step eventually does: goroutines are scheduled,
\* HTTP clients have timeouts and other approvals a deadline.  Nothing obliges
\* the client to send, the child to answer, an operator to edit the file or
\* the person at the terminal to type.
Fairness == \A c \in Calls : WF_vars(Handler(c) /\ ~ AtTerminal(c))
Spec == Init /\ [][Next]_vars /\ Fairness

-----------------------------------------------------------------------------
Types ==
    /\ mode \in Modes /\ boot \in PolicyFile /\ eng \in EngineState
    /\ budget \in [LimitKeys(boot) -> Nat]
    /\ \A k \in LimitKeys(boot) : budget[k] <= boot.limits[k[1]].requests
    /\ stage \in [Calls -> Stages] /\ request \in [Calls -> Messages \cup {Nil}]
    /\ result \in [Calls -> EvalResult \cup {Nil}] /\ todo \in [Calls -> Seq(Effects)]
    /\ sent \in [Calls -> Seq(Bodies)] /\ replies \in [Calls -> Seq(Answers)]
    /\ trail \in [Calls -> Seq(Records)] /\ alerts \in [Calls -> SUBSET AlertChannels]
    /\ basis \in [Calls -> Basis \cup {Nil}]
    /\ outcome \in [Calls -> Outcomes \cup {Nil}]
\* A handler at work has a message, and one that waits has what it waits for.
WellPlaced ==
    \A c \in Calls : /\ stage[c] # "idle" => request[c] \in Messages
                     /\ stage[c] \in {"asking", "upstream"} => todo[c] # <<>>
TypeOK == Types /\ WellPlaced
-----------------------------------------------------------------------------
\* A call the policy is responsible for, and what the policy and the open
\* windows its handler found say of it.
Judged(c)  == request[c] # Nil /\ Intercepts(request[c].kind)
Decided(c) == Judged(c) /\ basis[c] # Nil
Verdict(c) == Evaluate(basis[c].eng, basis[c].open, request[c].tool,
                       request[c].agent, request[c].content)
Blocked(c) == Blocking(boot.filters, request[c].tool, request[c].content) # {}

\* Leave to pass: the call was decided, no filter of the startup document
\* blocks it, and the policy in force when it was decided lets it through,
\* an approver having consented where that policy asks for one.
HasLeave(c) ==
    /\ Decided(c) /\ ~ Blocked(c)
    /\ Verdict(c).decision # "deny"
    /\ Verdict(c).decision = "require_approval" => outcome[c] = "approved"

\* The server receives a tools/call only with leave, however often the
\* policy was replaced between the decision, the approver's answer and the
\* forwarding (handleToolCall and handleApproval of every transport).
PassedWithLeave == \A c \in Calls : Judged(c) /\ sent[c] # <<>> => HasLeave(c)

\* What the server receives is the mutated call exactly when the deciding
\* rule has a mutate block whose operations all apply; otherwise it is the
\* client's own line (handleMutate, handleHTTPMutate, the bridge's switch).
Rewrites(c) == /\ Decided(c) /\ Verdict(c).decision = "mutate"
               /\ Verdict(c).rule.mutates # Nil
               /\ Mutates(Verdict(c).rule, request[c].content)
ArrivesAsDecided ==
    \A c \in Calls : \A i \in DOMAIN sent[c] :
        sent[c][i] = (IF Rewrites(c) THEN "mutated" ELSE "original")

\* A call has one fate: it reaches the server at most once, the client gets
\* at most one answer to it, and a client told of a refusal can rely on the
\* server not having seen the call and never seeing it.
Forwarding(c) == \E i \in DOMAIN todo[c] : todo[c][i].op = "forward"
Refused(c) == \E i \in DOMAIN replies[c] : replies[c][i] \in Refusals
OneFate ==
    \A c \in Calls :
        /\ Len(sent[c]) <= 1 /\ Len(replies[c]) <= 1
        /\ Refused(c) => sent[c] = <<>> /\ ~ Forwarding(c)

\* The trail tells what happened: at most one record per call; one that says
\* the call passed comes after the handler forwarded it with leave and names
\* the decision it was taken under, and one that says it did not comes after
\* the client was refused (buildAuditRecord and the call sites of emitAudit).
Passing == {"allow", "audit_only", "mutated", "approved"}
TrailIsTrue ==
    \A c \in Calls :
        /\ Len(trail[c]) <= 1
        /\ \A i \in DOMAIN trail[c] :
              IF trail[c][i] \in Passing
              THEN /\ HasLeave(c) /\ ~ Refused(c) /\ ~ Forwarding(c)
                   /\ trail[c][i] = CASE Verdict(c).decision = "require_approval" -> "approved"
                                      [] Verdict(c).decision = "mutate" -> "mutated"
                                      [] OTHER -> Verdict(c).decision
              ELSE Refused(c) /\ sent[c] = <<>>

\* In stdio and HTTP mode a finished call left a record wherever the rule or
\* the defaults it was decided under ask for one, and always when it was
\* limited, blocked or put to an approver; the calls without one are those
\* whose mutation could not be applied.
TrailIsComplete ==
    \A c \in Calls :
        /\ Judged(c) /\ stage[c] = "done" /\ mode # "bridge"
        /\ Decided(c) => \/ outcome[c] # Nil
                         \/ Verdict(c).audit /\ (Verdict(c).decision = "mutate" => Rewrites(c))
        => trail[c] # <<>>

\* A finished call whose client heard nothing was forwarded: its answer is
\* the server's to give, or the server failed on a path that does not report
\* failures (forwardAndRelaySSE, forwardAndPrint).
SilenceIsTheServers ==
    \A c \in Calls :
        stage[c] = "done" /\ replies[c] = <<>> =>
            /\ mode = "http" => Judged(c) /\ outcome[c] = "approved" /\ Lossy
            /\ mode = "bridge" => Lossy
            /\ Judged(c) => HasLeave(c)

\* A finished call whose deciding rule escalates has alerted the channel the
\* rule names, if the startup document defines it, whatever became of it.
EscalatesAsDecided ==
    \A c \in Calls :
        stage[c] = "done" /\ Decided(c) /\ Verdict(c).rule # Nil =>
            {Verdict(c).rule.escalate} \cap boot.contacts \subseteq alerts[c]

\* What a finished call leaves behind it: a true record, a record where one
\* is due, and an alert where one is due, in each copy of the handler.
LeavesATrail == TrailIsTrue /\ TrailIsComplete /\ EscalatesAsDecided

\* While no time passes for the limiter, the server receives no more calls
\* on a limit's key than the limit grants, whichever handlers race for the
\* last token and whatever other limits refuse (Limiter.Check).
Charged(i, v) == {c \in Calls : /\ Judged(c) /\ sent[c] # <<>>
                                /\ request[c].tool \in boot.limits[i].tools
                                /\ KeyValue(boot.limits[i], request[c]) = v}
NoOverspend ==
    ~ Refills => \A k \in LimitKeys(boot) :
        Cardinality(Charged(k[1], k[2])) + budget[k] <= boot.limits[k[1]].requests

\* Every message a handler takes up is brought to an end, or to a person at
\* a terminal: no handler waits for another, for an effect that cannot happen
\* or for a server that has gone.
Settles == \A c \in Calls : stage[c] # "idle" ~> stage[c] = "done" \/ AtTerminal(c)

\* Guard implements the promise of ToolGate.  What a handler still has to do
\* places its call in exactly one phase: a plan has one decisive effect (a
\* forward, a reply or an ask) and otherwise records and alerts.
Quiet == {"record", "alert"}
QuietSeq(p) == p \in Seq(Effects) /\ \A i \in DOMAIN p : p[i].op \in Quiet
OneOf(op, p) == /\ p \in Seq(Effects)
                /\ \E k \in DOMAIN p : /\ p[k].op = op
                                       /\ \A i \in (DOMAIN p) \ {k} : p[i].op \in Quiet
Untold(c) == sent[c] = <<>> /\ replies[c] = <<>>
Leave(c)  == Judged(c) => HasLeave(c)

Unseen(c)  == /\ stage[c] = "idle" /\ Untold(c) /\ request[c] = Nil /\ result[c] = Nil
              /\ basis[c] = Nil /\ outcome[c] = Nil
Vetting(c) == /\ stage[c] \in {"limits", "filters", "rules"} /\ Untold(c)
              /\ Judged(c) /\ basis[c] = Nil /\ outcome[c] = Nil
              /\ stage[c] = "rules" => ~ Blocked(c)
Asking(c)  == /\ stage[c] \in {"effects", "asking"} /\ Untold(c) /\ OneOf("ask", todo[c])
              /\ stage[c] = "asking" => Head(todo[c]).op = "ask"
              /\ Decided(c) /\ ~ Blocked(c) /\ outcome[c] = Nil
              /\ Verdict(c).decision = "require_approval"
Refusing(c) == stage[c] = "effects" /\ Untold(c) /\ OneOf("reply", todo[c])
Cleared(c) == stage[c] = "effects" /\ Untold(c) /\ OneOf("forward", todo[c]) /\ Leave(c)
Posted(c)  == /\ stage[c] = "upstream" /\ mode # "stdio" /\ OneOf("forward", todo[c])
              /\ Head(todo[c]).op = "forward"
              /\ Leave(c) /\ Len(sent[c]) <= 1 /\ replies[c] = <<>>
Told(c)    == /\ stage[c] \in {"effects", "done"} /\ QuietSeq(todo[c])
              /\ sent[c] = <<>> /\ Len(replies[c]) = 1 /\ replies[c][1] \in Refusals
Offered(c) == /\ stage[c] \in {"effects", "done"} /\ QuietSeq(todo[c]) /\ Leave(c)
              /\ Len(sent[c]) <= 1 /\ Len(replies[c]) <= 1
              /\ \A i \in DOMAIN replies[c] : replies[c][i] \notin Refusals

InPhase(c) == \/ Unseen(c) \/ Vetting(c) \/ Asking(c) \/ Refusing(c)
              \/ Cleared(c) \/ Posted(c) \/ Told(c) \/ Offered(c)

\* The invariant behind PassedWithLeave, OneFate and the refinement.
Phased == \A c \in Calls : InPhase(c)

Has(c, op) == \E i \in DOMAIN todo[c] : todo[c][i].op = op
FateOf(c) ==
    IF stage[c] = "idle" THEN "unseen"
    ELSE IF stage[c] \in {"limits", "filters", "rules"} \/ Has(c, "ask") THEN "held"
    ELSE IF Has(c, "reply") \/ Refused(c) THEN "refused"
    ELSE IF Forwarding(c) /\ stage[c] # "upstream" THEN "cleared" ELSE "offered"
AnswerTo(c) == IF replies[c] = <<>> THEN "none"
               ELSE IF Refused(c) THEN "refusal" ELSE "other"
Gate == INSTANCE ToolGate WITH
    fate <- [c \in Calls |-> FateOf(c)],
    delivered <- [c \in Calls |-> Len(sent[c])],
    answer <- [c \in Calls |-> AnswerTo(c)]

\* The promise itself, as a property of Guard's behaviours.
KeepsThePromise == Gate!GateSpec

\* docs/agent-card.md:41: "When only `agent_card` is set (no explicit rules),
\* all policy comes from the card"; at startup and after a reload the engine
\* holds the rules of a document and those of its card (main.go:95-105,
\* 157-165).  The run has documents of the card-only kind alone.
CardRulesSurvive == \E file \in Files : eng = StartEngine(file)
=============================================================================
