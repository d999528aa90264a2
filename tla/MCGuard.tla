------------------------------ MODULE MCGuard -------------------------------
(***************************************************************************)
(* Small instances of Guard: policy documents that exercise every decision,*)
(* both kinds of audit flag, windows, card rules, overlapping limits and   *)
(* overlapping filters, and a handful of messages that meet them.          *)
(***************************************************************************)
EXTENDS Guard

MCTools         == {"read", "drop"}
MCAgents        == {"bot", "ops"}
MCArgs          == {"plain", "secret"}
MCWindows       == {"night"}
MCChannels      == {"terminal", "hook"}
MCAlertChannels == {"oncall", "pager"}

ToolRule(tools, action) ==
    [tools |-> tools, agents |-> MCAgents, window |-> Nil, cel |-> Content,
     action |-> action, audit |-> "unset", approval |-> Nil, mutates |-> Nil,
     escalate |-> Nil]
DropAtNight   == [ToolRule({"drop"}, "deny") EXCEPT !.window = "night", !.audit = "off"]
DropAsks      == [ToolRule({"drop"}, "require_approval") EXCEPT
                    !.approval = "hook", !.escalate = "oncall"]
ReadScrubs    == [ToolRule({"read"}, "mutate") EXCEPT !.mutates = {"secret"}]
ReadObserved  == [ToolRule({"read"}, "audit_only") EXCEPT !.agents = {"ops"}]
SecretRefused == [ToolRule(MCTools, "deny") EXCEPT !.cel = {"secret"}, !.escalate = "pager"]
ReadFails     == [ToolRule({"read"}, "mutate") EXCEPT !.mutates = {}]

Document(rules, action) ==
    [rules |-> rules, defaults |-> [action |-> action, audit |-> "unset"],
     limits |-> <<>>, filters |-> <<>>, channels |-> {"hook"},
     contacts |-> {"oncall"}, card |-> Nil]

\* A policy in daily use, with limits that overlap on "drop".
Daily == [Document(<<DropAtNight, DropAsks, ReadObserved, ReadScrubs>>, "unset") EXCEPT
    !.limits = <<[tools |-> {"drop"}, requests |-> 1, key |-> "tool", escalate |-> "oncall"],
                 [tools |-> MCTools, requests |-> 1, key |-> "agent", escalate |-> "oncall"]>>]
\* Its successor: other defaults, other limits, no approval on "drop".
Relaxed == [Document(<<SecretRefused>>, "allow") EXCEPT
    !.filters = <<[direction |-> "request", tools |-> {"read"}, finds |-> {"secret"},
                   action |-> "flag", escalate |-> Nil],
                  [direction |-> "both", tools |-> MCTools, finds |-> {"secret"},
                   action |-> "block", escalate |-> "oncall"]>>,
    !.defaults = [action |-> "audit_only", audit |-> "off"]]
\* A card: what it approves goes to the terminal, and the approval that a
\* reload brings names a channel the registry does not have.  The one rule of
\* its own is a mutation whose operations never apply.
WithCard == [Document(<<ReadFails>>, "unset") EXCEPT
    !.channels = {"terminal"},
    !.card = [approved |-> <<{"drop"}>>, oversight |-> "human-approves-every-action"]]
\* Not loadable: its approval names a channel it does not define.
Broken == [Document(<<DropAsks>>, "allow") EXCEPT !.channels = {}]

MCFiles == {Daily, Relaxed, WithCard, Broken}

\* Two versions of a card-only policy: no explicit rule, all from the card.
CardOnly  == [WithCard EXCEPT !.rules = <<>>]
CardFiles == {CardOnly, [CardOnly EXCEPT !.defaults.audit = "off"]}

Call(tool, agent, content) ==
    [kind |-> "tools_call", tool |-> tool, agent |-> agent, content |-> content]
MCMessages == {Call("drop", "bot", "secret"), Call("read", "bot", "secret"),
               Call("read", "ops", "plain"),
               [Call("drop", "bot", "plain") EXCEPT !.kind = "bad_params"]}
=============================================================================
