---------------------------- MODULE MCEvaluation ----------------------------
(***************************************************************************)
(* A small instance of Evaluation: an answer of three entries, of which one*)
(* cannot be read; an answer that does not parse at all; a call of one of  *)
(* their tools; and two policies with windows and expressions.             *)
(***************************************************************************)
EXTENDS Evaluation

MCTools   == {"read", "drop"}
MCArgs    == {"secret"}
MCWindows == {"even", "odd", "feb30", "typo"}
MCWork    == [list  |-> [list |-> TRUE, parses |-> TRUE, tools |-> <<"read", Nil, "drop">>,
                         agent |-> "bot", content |-> Nil],
              whole |-> [list |-> TRUE, parses |-> FALSE, tools |-> <<"drop", "read">>,
                         agent |-> "bot", content |-> Nil],
              call  |-> [list |-> FALSE, parses |-> TRUE, tools |-> <<"drop">>,
                         agent |-> "bot", content |-> "secret"]]
MCJobs    == {"list", "whole", "call"}

Bare(tools, action) ==
    [tools |-> tools, agents |-> {"bot"}, window |-> Nil, cel |-> Content,
     action |-> action, audit |-> "unset", approval |-> Nil, mutates |-> Nil,
     escalate |-> Nil]
DenyTyped   == [Bare(MCTools, "deny") EXCEPT !.window = "typo"]
DropEven    == [Bare({"drop"}, "deny") EXCEPT !.window = "even"]
DropOdd     == [Bare({"drop"}, "require_approval") EXCEPT !.window = "odd"]
Uncompiled  == [Bare(MCTools, "deny") EXCEPT !.cel = {}]
SecretAsked == [Bare({"drop"}, "require_approval") EXCEPT !.cel = {"secret"}]
EmptyDenied == [Bare(MCTools, "deny") EXCEPT !.cel = {Nil}]
ReadAlways  == [Bare({"read"}, "allow") EXCEPT !.window = "feb30"]

Deny == [action |-> "deny", audit |-> TRUE]
MCPolicies ==
    {[rules |-> <<DenyTyped, DropEven, DropOdd, ReadAlways>>, defaults |-> Deny],
     [rules |-> <<Uncompiled, SecretAsked, EmptyDenied>>,
      defaults |-> [action |-> "allow", audit |-> FALSE]]}

MCBroken   == {{}}
MCSchedule == [w \in MCWindows |-> IF w = "even" THEN {0} ELSE IF w = "odd" THEN {1} ELSE {}]
MCUnparsed == {"typo"}
=============================================================================
