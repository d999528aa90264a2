----------------------------- MODULE Transports -----------------------------
(***************************************************************************)
(* What each of the three transports of internal/transport does with a     *)
(* message, as the sequence of effects its handler still has to perform.   *)
(* The handlers share their shape but not their text: which refusals are   *)
(* recorded, which raise an alert and what the client sees when the        *)
(* upstream fails differ from one file to the next, and each is translated *)
(* from its own lines.                                                     *)
(***************************************************************************)
EXTENDS PolicyEngine

Modes == {"stdio", "http", "bridge"}

\* What a client line may be: a tools/call request, one whose params do not
\* parse, a JSON-RPC batch, or any other message.
Kinds == {"tools_call", "bad_params", "batch", "other"}

\* The effects of a handler, each a call in the source: forward the message,
\* answer the client with an error, hand a record to the audit pipeline,
\* fire an escalation, block on an approval channel.
Forward(body) == [op |-> "forward", as |-> body]
Reply(code)   == [op |-> "reply",   as |-> code]
Record(what)  == [op |-> "record",  as |-> what]
Alert(ch)     == [op |-> "alert",   as |-> ch]
Ask(ch)       == [op |-> "ask",     as |-> ch]

Bodies   == {"original", "mutated"}
Refusals == {"rate_limited", "content_blocked", "denied", "no_channel", "rejected"}
Records  == Decision \cup {"rate_limited", "content_blocked", "approved",
                           "rejected", "mutated"}
Effects  == [op : {"forward"}, as : Bodies] \cup [op : {"reply"}, as : Refusals]
            \cup [op : {"record"}, as : Records]
            \cup [op : {"alert"}, as : AlertChannels]
            \cup [op : {"ask"}, as : Channels]

\* Definitions whose name ends in _ are mutants: each is the definition after
\* it with a bug a change to the code could bring, and some run refutes a
\* property with it in that place.

AlertOn(channel)    == IF channel = Nil THEN <<>> ELSE <<Alert(channel)>>
RecordIf(flag, what) == IF flag THEN <<Record(what)>> ELSE <<>>

-----------------------------------------------------------------------------
\* CheckRequest: the first filter that finds something decides, whatever its
\* action; an empty content is not searched.
Inspects(filter, tool) == filter.direction \in {"request", "both"} /\ tool \in filter.tools
FirstFinding(filters, tool, content) ==
    {i \in DOMAIN filters :
        /\ Inspects(filters[i], tool) /\ content \in filters[i].finds
        /\ \A j \in 1 .. i - 1 :
              ~ (Inspects(filters[j], tool) /\ content \in filters[j].finds)}
Blocking(filters, tool, content) ==
    {i \in FirstFinding(filters, tool, content) : filters[i].action = "block"}

\* mutate.Apply: all operations or none; empty arguments are left alone.
Mutates(rule, content) == content = Nil \/ content \in rule.mutates

\* Only a request whose method is tools/call and whose params parse goes
\* through the policy; everything else is forwarded verbatim.
Intercepts(kind) == kind = "tools_call"
Verbatim == <<Forward("original")>>

-----------------------------------------------------------------------------
\* stdio.go
StdioLimited(limit)  == <<Reply("rate_limited"), Record("rate_limited")>>
                        \o AlertOn(limit.escalate)
StdioBlocked(filter) == <<Reply("content_blocked"), Record("content_blocked")>>
                        \o AlertOn(filter.escalate)
StdioApprovalRecordedEarly_(result) ==     \* the record is emitted before the answer
    IF result.rule = Nil \/ result.rule.approval = Nil
    THEN <<Reply("no_channel")>> ELSE <<Record("approved"), Ask(result.rule.approval)>>
StdioApproval(result) ==
    IF result.rule = Nil \/ result.rule.approval = Nil
    THEN <<Reply("no_channel")>> ELSE <<Ask(result.rule.approval)>>
StdioMutationUnchecked_(result, content) == \* a failed operation is not noticed
    <<Forward("mutated")>> \o RecordIf(result.audit, "mutated")
StdioMutation(result, content) ==
    IF result.rule = Nil \/ result.rule.mutates = Nil \/ ~ Mutates(result.rule, content)
    THEN <<Forward("original")>>
    ELSE <<Forward("mutated")>> \o RecordIf(result.audit, "mutated")
StdioDecided(result, content) ==
    CASE result.decision \in {"allow", "audit_only"} ->
           <<Forward("original")>> \o RecordIf(result.audit, result.decision)
      [] result.decision = "deny" ->
           <<Reply("denied")>> \o RecordIf(result.audit, "deny")
      [] result.decision = "require_approval" -> StdioApproval(result)
      [] result.decision = "mutate" -> StdioMutation(result, content)
StdioSettled(outcome) ==
    IF outcome = "approved" THEN <<Forward("original"), Record("approved")>>
    ELSE <<Reply("rejected"), Record("rejected")>>

-----------------------------------------------------------------------------
\* http.go
HttpLimited(limit) == <<Reply("rate_limited"), Record("rate_limited")>>
                       \o AlertOn(limit.escalate)
HttpBlocked(filter) == <<Reply("content_blocked"), Record("content_blocked")>>
HttpApproval(result) ==
    IF result.rule = Nil \/ result.rule.approval = Nil
    THEN <<Reply("no_channel")>> ELSE <<Ask(result.rule.approval)>>
HttpMutation(result, content) ==
    IF result.rule = Nil \/ result.rule.mutates = Nil \/ ~ Mutates(result.rule, content)
    THEN <<Forward("original")>>
    ELSE <<Forward("mutated")>> \o RecordIf(result.audit, "mutated")
HttpDecided(result, content) ==
    CASE result.decision \in {"allow", "audit_only"} ->
           <<Forward("original")>> \o RecordIf(result.audit, result.decision)
      [] result.decision = "deny" ->
           <<Reply("denied")>> \o RecordIf(result.audit, "deny")
      [] result.decision = "require_approval" -> HttpApproval(result)
      [] result.decision = "mutate" -> HttpMutation(result, content)
HttpSettledOnError_(outcome) ==            \* an error counts as consent
    IF outcome = "rejected" THEN <<Reply("rejected"), Record("rejected")>>
    ELSE <<Forward("original"), Record("approved")>>
HttpSettled(outcome) ==
    IF outcome = "approved" THEN <<Forward("original"), Record("approved")>>
    ELSE <<Reply("rejected"), Record("rejected")>>

-----------------------------------------------------------------------------
\* stdio_bridge.go
\* A bug: no return after the refusal.
BridgeBlockedGoesOn_(filter) == <<Reply("content_blocked"), Forward("original")>>
BridgeLimited(limit)  == <<Reply("rate_limited"), Record("rate_limited")>>
BridgeBlocked(filter) == <<Reply("content_blocked")>>
BridgeApproval(result) ==
    IF result.rule = Nil \/ result.rule.approval = Nil
    THEN <<Reply("no_channel")>> ELSE <<Ask(result.rule.approval)>>
BridgeDecided(result, content) ==
    CASE result.decision \in {"allow", "audit_only"} ->
           <<Forward("original")>> \o RecordIf(result.audit, result.decision)
      [] result.decision = "deny" ->
           <<Reply("denied")>> \o RecordIf(result.audit, "deny")
      [] result.decision = "require_approval" -> BridgeApproval(result)
      [] result.decision = "mutate" ->
           IF result.rule # Nil /\ result.rule.mutates # Nil /\ Mutates(result.rule, content)
           THEN <<Forward("mutated")>> ELSE <<Forward("original")>>
BridgeSettled(outcome) ==
    IF outcome = "approved" THEN <<Forward("original")>> ELSE <<Reply("rejected")>>

-----------------------------------------------------------------------------
\* The handler of the transport main.go selected.
OnLimited(mode, limit) ==
    CASE mode = "stdio" -> StdioLimited(limit) [] mode = "http" -> HttpLimited(limit)
      [] mode = "bridge" -> BridgeLimited(limit)
OnBlocked(mode, filter) ==
    CASE mode = "stdio" -> StdioBlocked(filter) [] mode = "http" -> HttpBlocked(filter)
      [] mode = "bridge" -> BridgeBlocked(filter)
OnDecided(mode, result, content) ==
    (IF result.rule = Nil THEN <<>> ELSE AlertOn(result.rule.escalate))
    \o (CASE mode = "stdio" -> StdioDecided(result, content)
          [] mode = "http" -> HttpDecided(result, content)
          [] mode = "bridge" -> BridgeDecided(result, content))
OnSettled(mode, outcome) ==
    CASE mode = "stdio" -> StdioSettled(outcome) [] mode = "http" -> HttpSettled(outcome)
      [] mode = "bridge" -> BridgeSettled(outcome)
=============================================================================
