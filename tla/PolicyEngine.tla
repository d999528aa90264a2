---------------------------- MODULE PolicyEngine ----------------------------
(***************************************************************************)
(* The decision procedure of internal/engine and the documents it reads:   *)
(* policy files (internal/policy) and the rules an agent card adds to      *)
(* them at startup (internal/agentcard).  No state lives here; Guard owns  *)
(* the engine that applies these operators.                                *)
(*                                                                         *)
(* A glob is the set of names it accepts, a cron window is a name that is  *)
(* open or closed when the rule is read, and a CEL expression is the set   *)
(* of arguments on which it holds: those on which it yields true or, not   *)
(* being boolean, anything but null (cel.go:69-73).  An evaluation error   *)
(* and a missing evaluator count as "does not match" (engine.go:141-151),  *)
(* so the arguments concerned are outside the set.                         *)
(***************************************************************************)
EXTENDS Naturals, Sequences

CONSTANTS
    Tools,          \* tool names a client may call
    Agents,         \* agent identities
    Args,           \* argument objects a call may carry
    Windows,        \* cron windows named by rules
    Channels,       \* approval channel names
    AlertChannels,  \* escalation channel names
    Nil             \* a nil pointer or an empty string

Content     == Args \cup {Nil}
RuleActions == {"allow", "deny", "require_approval", "audit_only", "mutate"}
Decision    == RuleActions
Flag        == {"unset", "on", "off"}      \* *bool

\* What a rule says: who and what it matches, and what happens then.
\* "mutates" is the set of contents on which every operation of the rule's
\* mutate block applies; Nil stands for a rule without that block.
Rule == [tools : SUBSET Tools, agents : SUBSET Agents,
         window : Windows \cup {Nil}, cel : SUBSET Content,
         action : RuleActions, audit : Flag,
         approval : Channels \cup {Nil},
         mutates : (SUBSET Content) \cup {Nil},
         escalate : AlertChannels \cup {Nil}]

Defaults == [action : {"unset", "deny", "allow", "audit_only"}, audit : Flag]

OversightModels == {"human-approves-every-action", "other"}
Card == [approved : Seq(SUBSET Tools), oversight : OversightModels]

\* A rate limit, and a content filter with the contents on which one of its
\* patterns finds a match.
Limit  == [tools : SUBSET Tools, requests : Nat \ {0},
           key : {"agent", "tool", "global"}, escalate : AlertChannels \cup {Nil}]
Filter == [direction : {"request", "response", "both"}, tools : SUBSET Tools,
           finds : SUBSET Args, action : {"block", "redact", "flag"},
           escalate : AlertChannels \cup {Nil}]

\* A policy document: rules and defaults, the limits and filters that run
\* before them, the approval and escalation channels it defines and the
\* agent card it points to.
PolicyFile == [rules : Seq(Rule), defaults : Defaults,
               limits : Seq(Limit), filters : Seq(Filter),
               channels : SUBSET Channels, contacts : SUBSET AlertChannels,
               card : Card \cup {Nil}]

\* The channel card-derived approvals name (derive.go:61).
TerminalChannel == "terminal"

\* Nil is told apart from whatever it stands in for.
ASSUME NilAssumption ==
    Nil \notin Args \cup Windows \cup Channels \cup AlertChannels
               \cup Rule \cup Card \cup Filter
ASSUME TerminalAssumption == TerminalChannel \in Channels

-----------------------------------------------------------------------------
\* validate: a require_approval rule names a channel the document defines,
\* and a document has rules or a card.
Loadable(file) ==
    /\ file.rules # <<>> \/ file.card # Nil
    /\ \A i \in DOMAIN file.rules :
          file.rules[i].action = "require_approval" =>
             file.rules[i].approval \in file.channels

\* The rule a card's approvedActionList entry becomes.  Under
\* "human-approves-every-action" wrapWithApproval turns it into an approval
\* on the channel named "terminal", whether or not such a channel exists.
CardRule(pattern, oversight) ==
    [tools |-> pattern, agents |-> Agents, window |-> Nil,
     cel |-> Content, audit |-> "unset", mutates |-> Nil,
     escalate |-> Nil,
     action |-> IF oversight = "human-approves-every-action"
                THEN "require_approval" ELSE "allow",
     approval |-> IF oversight = "human-approves-every-action"
                  THEN TerminalChannel ELSE Nil]

DeriveRules(card) ==
    [i \in DOMAIN card.approved |-> CardRule(card.approved[i], card.oversight)]

\* MergeRules: explicit rules first, so they win over derived ones.
MergeRules(explicit, derived) == explicit \o derived

EffectiveDefaults(file) ==
    [action |-> IF file.defaults.action = "unset"
                THEN "deny" ELSE file.defaults.action,
     audit |-> file.defaults.audit # "off"]

\* What the engine holds after startup, and after a reload of the same
\* document: only startup merges the card's rules (main.go:95-105, 157-165).
StartEngine(file) ==
    [rules |-> IF file.card = Nil THEN file.rules
               ELSE MergeRules(file.rules, DeriveRules(file.card)),
     defaults |-> EffectiveDefaults(file)]
ReloadedEngine(file) ==
    [rules |-> file.rules, defaults |-> EffectiveDefaults(file)]

EffectiveDefault == [action : {"deny", "allow", "audit_only"}, audit : BOOLEAN]
EngineState == [rules : Seq(Rule), defaults : EffectiveDefault]

-----------------------------------------------------------------------------
\* matchRule: every condition the rule states holds of the call.
MatchRule(rule, open, tool, agent, content) ==
    /\ agent \in rule.agents
    /\ tool \in rule.tools
    /\ rule.window = Nil \/ rule.window \in open
    /\ content \in rule.cel

\* resultFromRule: an action it does not know denies; the rule's audit flag
\* overrides the default one.
ResultFromRule(rule, defaults) ==
    [decision |-> IF rule.action \in Decision THEN rule.action ELSE "deny",
     rule |-> rule,
     audit |-> IF rule.audit = "unset" THEN defaults.audit
               ELSE rule.audit = "on"]

ResultFromDefaults(defaults) ==
    [decision |-> IF defaults.action \in {"allow", "audit_only", "mutate"}
                  THEN defaults.action ELSE "deny",
     rule |-> Nil, audit |-> defaults.audit]

EvalResult == [decision : Decision, rule : Rule \cup {Nil},
               audit : BOOLEAN]

\* The index at which Evaluate's loop stops: the first rule that matches.
FirstMatch(rules, open, tool, agent, content) ==
    {i \in DOMAIN rules :
        /\ MatchRule(rules[i], open, tool, agent, content)
        /\ \A j \in 1 .. i - 1 :
              ~ MatchRule(rules[j], open, tool, agent, content)}

Evaluate(eng, open, tool, agent, content) ==
    LET first == FirstMatch(eng.rules, open, tool, agent, content)
    IN  IF first = {} THEN ResultFromDefaults(eng.defaults)
        ELSE ResultFromRule(eng.rules[CHOOSE i \in first : TRUE], eng.defaults)
=============================================================================
